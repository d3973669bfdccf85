----------------------------- MODULE PlayerProofs -----------------------------
(***************************************************************************)
(* Proofs about Player, for every set of items, playlists and faults and   *)
(* every bound.  TypeOK, PositionNeverWraps and AttributesAgree are proved *)
(* from one inductive invariant, Inv; the action property and the          *)
(* refinement of PlayCursor are proved from Inv as well.                   *)
(***************************************************************************)
EXTENDS Player, PlayQueueProofs

USE PlayerAssumption

\* The inductive invariant: AttributesAgree is preserved only together with
\* the types and with a queue no longer than the int arithmetic can index.
QueueInv ==
    /\ playqueue \in Seq(Items) /\ Len(playqueue) <= MaxQueue
    /\ m_repeat \in RepeatModes /\ m_shuffle \in BOOLEAN

CursorInv ==
    /\ playQueuePosition \in 0 .. Unset
    /\ canGoNext \in BOOLEAN /\ canGoPrevious \in BOOLEAN /\ emptied \in BOOLEAN
    /\ PositionNeverWraps
    /\ AttributesAgree

DeviceInv ==
    /\ m_signalHandlerId \in BOOLEAN
    /\ renderer \in RendererTypes
    /\ signals \in Seq(Signals)

ShownInv == playbackStatus \in {"PLAYING", "PAUSED"} /\ currentTrack \in 0 .. Unset

Inv == QueueInv /\ CursorInv /\ DeviceInv /\ ShownInv

-------------------------------------------------------------------------------
(* What the handlers share. *)

LEMMA AnnounceKeepsTypes ==
    ASSUME DeviceInv, NEW state \in RendererStates, NEW uri \in Uris,
           NEW metadata \in BOOLEAN, NEW pending \in Seq(Signals), NEW subscribed,
           Announce(state, uri, metadata, pending, subscribed)
    PROVE  /\ renderer' \in RendererTypes
           /\ signals' \in Seq(Signals)
<1> DEFINE sig == [status |-> IF state = renderer.state THEN "Unchanged" ELSE state,
                   metadata |-> metadata]
<1>1. sig \in Signals
    BY DEF Signals
<1>2. signals' = pending \/ signals' = Append(pending, sig)
    BY DEF Announce
<1>3. Append(pending, sig) \in Seq(Signals)
    BY <1>1
<1> HIDE DEF sig
<1>4. signals' \in Seq(Signals)
    BY <1>2, <1>3
<1>5. renderer' \in RendererTypes
    <2> DEFINE heard == renderer.overheard /\ state = renderer.state
    <2>1. heard \in BOOLEAN
        OBVIOUS
    <2>2. renderer' = [renderer EXCEPT !.state = state, !.uri = uri, !.overheard = heard]
        BY DEF Announce
    <2> HIDE DEF heard
    <2> QED BY <2>1, <2>2 DEF DeviceInv, RendererTypes
<1> QED BY <1>4, <1>5

LEMMA OpenKeepsTypes ==
    ASSUME DeviceInv, NEW uri \in Uris, NEW out, NEW pending \in Seq(Signals),
           openURI(uri, out, pending)
    PROVE  DeviceInv'
<1>1. m_signalHandlerId' \in BOOLEAN
    BY DEF openURI, connectMediaPlayer
<1>2. CASE Announce(IF uri = NoUri THEN "Stopped" ELSE "Playing", uri, TRUE, pending, TRUE)
    <2>1. (IF uri = NoUri THEN "Stopped" ELSE "Playing") \in RendererStates
        BY DEF RendererStates
    <2> QED BY <1>1, <1>2, <2>1, AnnounceKeepsTypes DEF DeviceInv
<1>3. CASE Untouched(pending)
    BY <1>1, <1>3 DEF DeviceInv, Untouched
<1> QED BY <1>2, <1>3 DEF openURI

LEMMA PauseKeepsTypes ==
    ASSUME DeviceInv, ShownInv, NEW out, NEW pending \in Seq(Signals), pause(out, pending)
    PROVE  /\ renderer' \in RendererTypes
           /\ signals' \in Seq(Signals)
           /\ playbackStatus' \in {"PLAYING", "PAUSED"}
<1>1. playbackStatus' \in {"PLAYING", "PAUSED"}
    BY DEF pause, ShownInv
<1>2. CASE Announce("Paused", renderer.uri, FALSE, pending, TRUE)
    <2>1. "Paused" \in RendererStates /\ renderer.uri \in Uris
        BY DEF RendererStates, RendererTypes, DeviceInv
    <2> QED BY <1>1, <1>2, <2>1, AnnounceKeepsTypes
<1>3. CASE Untouched(pending)
    BY <1>1, <1>3 DEF DeviceInv, Untouched
<1> QED BY <1>2, <1>3 DEF pause

\* A selection inside the queue establishes the cursor's part of Inv, and
\* leaves a track selected.
LEMMA SelectTrackCorrect ==
    ASSUME DeviceInv, NEW queue \in Seq(Items), Len(queue) <= MaxQueue,
           NEW new \in 0 .. (Len(queue) - 1), NEW out, NEW pending \in Seq(Signals),
           playqueue' = queue, SelectTrack(queue, new, out, pending)
    PROVE  CursorInv' /\ DeviceInv' /\ Selected'
<1>1. new \in 0 .. Unset /\ new < MaxQueue /\ new # Unset /\ Len(queue) \in Nat
    BY WidthFacts
<1>2. playQueuePosition' = new /\ emptied' = FALSE
    BY DEF SelectTrack
<1>3. /\ canGoNext' = (Len(queue) - 1 >= new + 1)
      /\ canGoPrevious' = (new - 1 >= 0)
    BY DEF SelectTrack, playQueueSize
<1>4. AttributesAgree'
    <2> DEFINE more == Len(queue) - 1 >= new + 1
               less == new - 1 >= 0
    <2>a. (more <=> new + 1 < Len(queue)) /\ (less <=> new > 0)
        BY <1>1
    <2>b. canGoNext' = more /\ canGoPrevious' = less
        BY <1>3
    <2> HIDE DEF more, less
    <2>1. canGoNext' => new + 1 < Len(queue)
        BY <2>a, <2>b
    <2>2. canGoPrevious' <=> new > 0
        BY <2>a, <2>b
    <2>3. new < Len(queue)
        BY <1>1
    <2> QED BY <1>1, <1>2, <2>1, <2>2, <2>3 DEF AttributesAgree, Selected
<1>5. CursorInv'
    <2>1. canGoNext' \in BOOLEAN /\ canGoPrevious' \in BOOLEAN
        BY <1>1, <1>3
    <2>2. playQueuePosition' \in 0 .. Unset /\ emptied' \in BOOLEAN /\ PositionNeverWraps'
        BY <1>1, <1>2 DEF PositionNeverWraps
    <2> QED BY <1>4, <2>1, <2>2 DEF CursorInv
<1>6. getLocalURL(queue[new + 1]) \in Uris
    <2>1. new + 1 \in 1 .. Len(queue)
        BY <1>1
    <2>2. queue[new + 1] \in Items
        BY <2>1
    <2> QED BY <2>2 DEF getLocalURL, Uris
<1>7. DeviceInv'
    BY <1>6, OpenKeepsTypes DEF SelectTrack
<1> QED BY <1>1, <1>2, <1>5, <1>7 DEF Selected

\* next() either selects an entry of the queue or pauses.
LEMMA NextCorrect ==
    ASSUME Inv, NEW out, NEW pending \in Seq(Signals), next(out, pending)
    PROVE  /\ QueueInv' /\ CursorInv' /\ DeviceInv'
           /\ playbackStatus' \in {"PLAYING", "PAUSED"}
           /\ Selected => Selected'
<1>1. QueueInv' /\ playqueue' = playqueue
    BY DEF next, queueVars, Inv, QueueInv
<1>2. PICK increment \in NextIncrements(playqueue, playQueuePosition, m_repeat, m_shuffle) :
        LET new == Target(playqueue, playQueuePosition, increment, m_repeat)
        IN  \/ new # NoTrack /\ SelectTrack(playqueue, new, out, pending)
            \/ /\ new = NoTrack
               /\ connectMediaPlayer(out) /\ pause(out, pending)
               /\ UNCHANGED cursorVars
    BY DEF next
<1> DEFINE new == Target(playqueue, playQueuePosition, increment, m_repeat)
<1>3. playqueue \in Seq(Items) /\ Len(playqueue) <= MaxQueue /\ playQueuePosition \in Int
    BY WidthFacts DEF Inv, QueueInv, CursorInv
<1>4. CASE new # NoTrack /\ SelectTrack(playqueue, new, out, pending)
    <2>1. increment \in Int
        BY <1>3, NextIncrementsType
    <2>2. new \in 0 .. (Len(playqueue) - 1)
        BY <1>3, <1>4, <2>1, TargetInQueue
    <2> HIDE DEF new
    <2>3. CursorInv' /\ DeviceInv' /\ Selected'
        BY <1>1, <1>3, <1>4, <2>2, SelectTrackCorrect DEF Inv
    <2>4. playbackStatus' \in {"PLAYING", "PAUSED"}
        BY <1>4 DEF SelectTrack, Inv, ShownInv
    <2> QED BY <1>1, <2>3, <2>4
<1>5. CASE connectMediaPlayer(out) /\ pause(out, pending) /\ UNCHANGED cursorVars
    <2>1. CursorInv' /\ (Selected => Selected')
        BY <1>1, <1>5 DEF cursorVars, Inv, CursorInv, PositionNeverWraps, AttributesAgree, Selected
    <2>2. DeviceInv' /\ playbackStatus' \in {"PLAYING", "PAUSED"}
        BY <1>5, PauseKeepsTypes DEF connectMediaPlayer, Inv, DeviceInv
    <2> QED BY <1>1, <2>1, <2>2
<1> QED BY <1>2, <1>4, <1>5

-------------------------------------------------------------------------------
(* One lemma per group of actions. *)

\* Nothing the cursor's part of Inv speaks of changes.
LEMMA CursorUntouched ==
    ASSUME Inv, playqueue' = playqueue, UNCHANGED cursorVars
    PROVE  CursorInv' /\ (Selected => Selected')
BY DEF Inv, CursorInv, PositionNeverWraps, AttributesAgree, Selected, cursorVars

LEMMA QueueUntouched == ASSUME Inv, UNCHANGED queueVars PROVE QueueInv'
BY DEF Inv, QueueInv, queueVars

LEMMA PreviousCorrect ==
    ASSUME Inv, NEW out, previous(out)
    PROVE  Inv' /\ (Selected => Selected')
<1> DEFINE new == Target(playqueue, playQueuePosition, -1, m_repeat)
<1>1. QueueInv' /\ playqueue' = playqueue /\ currentTrack' = currentTrack
    BY DEF previous, queueVars, Inv, QueueInv
<1>2. playqueue \in Seq(Items) /\ Len(playqueue) <= MaxQueue /\ playQueuePosition \in Int
    BY WidthFacts DEF Inv, QueueInv, CursorInv
<1>3. CASE new # NoTrack /\ SelectTrack(playqueue, new, out, signals)
    <2>1. new \in 0 .. (Len(playqueue) - 1)
        BY <1>2, <1>3, TargetInQueue
    <2>2. signals \in Seq(Signals) /\ DeviceInv
        BY DEF Inv, DeviceInv
    <2> HIDE DEF new
    <2>3. CursorInv' /\ DeviceInv' /\ Selected'
        BY <1>1, <1>2, <1>3, <2>1, <2>2, SelectTrackCorrect
    <2>4. ShownInv'
        BY <1>1, <1>3 DEF SelectTrack, Inv, ShownInv
    <2> QED BY <1>1, <2>3, <2>4 DEF Inv
<1>4. CASE UNCHANGED <<cursorVars, deviceVars, playbackStatus>>
    <2>1. CursorInv' /\ (Selected => Selected')
        BY <1>1, <1>4, CursorUntouched
    <2>2. DeviceInv' /\ ShownInv'
        BY <1>1, <1>4 DEF deviceVars, Inv, DeviceInv, ShownInv
    <2> QED BY <1>1, <2>1, <2>2 DEF Inv
<1> QED BY <1>3, <1>4 DEF previous

LEMMA OpenPlaylistCorrect ==
    ASSUME Inv, NEW list \in Playlists, NEW out, openPlaylist(list, out)
    PROVE  Inv' /\ Selected'
<1> DEFINE new == Target(list, 0, 0, m_repeat)
<1>1. list \in Seq(Items) /\ Len(list) <= MaxQueue
    OBVIOUS
<1>2. QueueInv' /\ playqueue' = list /\ currentTrack' = currentTrack
    BY <1>1 DEF openPlaylist, Inv, QueueInv
<1>3. CASE new # NoTrack /\ SelectTrack(list, new, out, signals)
    <2>1. new \in 0 .. (Len(list) - 1)
        BY <1>1, <1>3, TargetInQueue
    <2>2. signals \in Seq(Signals) /\ DeviceInv
        BY DEF Inv, DeviceInv
    <2> HIDE DEF new
    <2>3. CursorInv' /\ DeviceInv' /\ Selected'
        BY <1>1, <1>2, <1>3, <2>1, <2>2, SelectTrackCorrect
    <2>4. ShownInv'
        BY <1>2, <1>3 DEF SelectTrack, Inv, ShownInv
    <2> QED BY <1>2, <2>3, <2>4 DEF Inv
<1>4. CASE /\ new = NoTrack
           /\ playQueuePosition' = 0 /\ emptied' = TRUE
           /\ UNCHANGED <<canGoNext, canGoPrevious, deviceVars, playbackStatus>>
    <2>1. MaxQueue > 0
        OBVIOUS
    <2>2. Selected' /\ playQueuePosition' \in 0 .. Unset
        BY <1>4, WidthFacts DEF Selected
    <2>3. DeviceInv' /\ ShownInv'
        BY <1>2, <1>4 DEF deviceVars, Inv, DeviceInv, ShownInv
    <2> QED BY <1>2, <1>4, <2>1, <2>2, <2>3 DEF Inv, CursorInv, PositionNeverWraps, AttributesAgree
<1> QED BY <1>3, <1>4 DEF openPlaylist

\* The calls that drive the renderer and leave queue and position alone.
LEMMA TransportCorrect ==
    ASSUME Inv, NEW out,
           \/ \E uri \in OpenUris : openUri(uri, out)
           \/ clientPause(out) \/ play(out) \/ playPause(out)
           \/ \E sought \in Outcomes : stop(out, sought)
           \/ touchTransport(out)
    PROVE  Inv' /\ (Selected => Selected')
<1>1. signals \in Seq(Signals) /\ DeviceInv /\ ShownInv
    BY DEF Inv, DeviceInv
<1>2. UNCHANGED <<queueVars, cursorVars, currentTrack>>
    BY DEF openUri, clientPause, play, playPause, stop, touchTransport
<1>3. QueueInv' /\ CursorInv' /\ (Selected => Selected')
    <2>1. playqueue' = playqueue /\ UNCHANGED queueVars /\ UNCHANGED cursorVars
        BY <1>2 DEF queueVars
    <2> QED BY <2>1, QueueUntouched, CursorUntouched
<1>4. m_signalHandlerId' \in BOOLEAN
    BY DEF openUri, openURI, clientPause, play, playPause, stop, touchTransport, connectMediaPlayer
<1>5. SUFFICES DeviceInv' /\ playbackStatus' \in {"PLAYING", "PAUSED"}
    BY <1>1, <1>2, <1>3 DEF Inv, ShownInv
<1>6. CASE \E uri \in OpenUris : openUri(uri, out)
    <2>1. PICK uri \in OpenUris : openUri(uri, out)
        BY <1>6
    <2>2. uri \in Uris
        BY DEF Uris
    <2>3. DeviceInv'
        BY <1>1, <2>1, <2>2, OpenKeepsTypes DEF openUri
    <2> QED BY <1>1, <2>1, <2>3 DEF openUri, ShownInv
<1>7. CASE pause(out, signals)
    BY <1>1, <1>4, <1>7, PauseKeepsTypes DEF DeviceInv
<1>8. CASE play(out) \/ playPause(out)
    <2>1. playbackStatus' = playbackStatus
        BY <1>8 DEF play, playPause
    <2>2. \/ Untouched(signals)
          \/ \E state \in RendererStates : Announce(state, renderer.uri, FALSE, signals, TRUE)
        <3>1. /\ "Playing" \in RendererStates
              /\ (IF renderer.state = "Playing" THEN "Paused" ELSE "Playing") \in RendererStates
            BY DEF RendererStates
        <3> QED BY <1>8, <3>1 DEF play, playPause
    <2>3. renderer.uri \in Uris
        BY <1>1 DEF DeviceInv, RendererTypes
    <2>4. DeviceInv'
        BY <1>1, <1>4, <2>2, <2>3, AnnounceKeepsTypes DEF Untouched, DeviceInv
    <2> QED BY <1>1, <2>1, <2>4 DEF ShownInv
<1>9. CASE touchTransport(out)
    BY <1>1, <1>4, <1>9 DEF touchTransport, DeviceInv, ShownInv
<1> QED BY <1>6, <1>7, <1>8, <1>9 DEF clientPause, stop

LEMMA QueueCallCorrect ==
    ASSUME Inv, QueueCall
    PROVE  Inv' /\ (Selected => Selected')
<1>1. DeviceInv' /\ ShownInv' /\ (Selected => Selected')
    BY DEF QueueCall, enqueueUri, dequeueAll, setRepeat, setShuffle, cursorVars, deviceVars,
           Selected, Inv, DeviceInv, ShownInv
<1>2. CASE \E item \in Items : enqueueUri(item)
    <2>1. PICK item \in Items : enqueueUri(item)
        BY <1>2
    <2>2. /\ playqueue' = Append(playqueue, item)
          /\ Len(playqueue) < MaxQueue
          /\ UNCHANGED <<m_repeat, m_shuffle, playQueuePosition, canGoNext, canGoPrevious, emptied>>
        BY <2>1 DEF enqueueUri, cursorVars
    <2>3. playqueue' \in Seq(Items) /\ Len(playqueue') = Len(playqueue) + 1
        BY <2>2 DEF Inv, QueueInv
    <2>4. QueueInv'
        BY <2>2, <2>3 DEF Inv, QueueInv
    <2>5. Len(playqueue) \in Nat /\ playQueuePosition \in Int
        BY WidthFacts DEF Inv, QueueInv, CursorInv
    <2>6. AttributesAgree'
        <3> DEFINE n == Len(playqueue)
                   p == playQueuePosition
        <3>1. n \in Nat /\ p \in Int /\ Len(playqueue') = n + 1
            BY <2>3, <2>5
        <3>2. (p < n => p < n + 1) /\ (p + 1 < n => p + 1 < n + 1)
            BY <3>1
        <3> QED BY <2>2, <3>1, <3>2 DEF Inv, CursorInv, AttributesAgree, Selected
    <2> QED BY <1>1, <2>2, <2>4, <2>6 DEF Inv, CursorInv, PositionNeverWraps
<1>3. CASE dequeueAll
    <2>1. QueueInv'
        BY <1>3 DEF dequeueAll, Inv, QueueInv
    <2>2. CursorInv'
        BY <1>3 DEF dequeueAll, Inv, CursorInv, PositionNeverWraps, AttributesAgree
    <2> QED BY <1>1, <2>1, <2>2 DEF Inv
<1>4. CASE (\E mode \in RepeatModes : setRepeat(mode)) \/ (\E on \in BOOLEAN : setShuffle(on))
    <2>1. QueueInv' /\ playqueue' = playqueue /\ UNCHANGED cursorVars
        BY <1>4 DEF setRepeat, setShuffle, Inv, QueueInv
    <2>2. CursorInv'
        BY <2>1, CursorUntouched
    <2> QED BY <1>1, <2>1, <2>2 DEF Inv
<1> QED BY <1>2, <1>3, <1>4 DEF QueueCall

LEMMA HandleSignalCorrect ==
    ASSUME Inv, HandleSignal
    PROVE  Inv' /\ (Selected => Selected')
<1>1. signals \in Seq(Signals) /\ signals # <<>>
    BY DEF HandleSignal, HandleOther, HandleStopped, Inv, DeviceInv
<1>2. Tail(signals) \in Seq(Signals)
    BY <1>1
<1>3. CASE \E out \in Outcomes : HandleStopped(out)
    <2>1. PICK out \in Outcomes : HandleStopped(out)
        BY <1>3
    <2>2. next(out, Tail(signals))
        BY <2>1 DEF HandleStopped
    <2>3. /\ QueueInv' /\ CursorInv' /\ DeviceInv'
          /\ playbackStatus' \in {"PLAYING", "PAUSED"}
          /\ Selected => Selected'
        BY <1>2, <2>2, NextCorrect
    <2>4. currentTrack' \in {playQueuePosition, playQueuePosition', currentTrack}
        BY <2>1 DEF HandleStopped
    <2>5. currentTrack' \in 0 .. Unset
        BY <2>3, <2>4 DEF Inv, CursorInv, ShownInv
    <2> QED BY <2>3, <2>5 DEF Inv, ShownInv
<1>4. CASE HandleOther
    <2>1. QueueInv' /\ CursorInv' /\ (Selected => Selected')
        <3>1. playqueue' = playqueue /\ UNCHANGED queueVars /\ UNCHANGED cursorVars
            BY <1>4 DEF HandleOther, queueVars
        <3> QED BY <3>1, QueueUntouched, CursorUntouched
    <2>2. DeviceInv'
        BY <1>2, <1>4 DEF HandleOther, Inv, DeviceInv
    <2>3. ShownInv'
        BY <1>4 DEF HandleOther, Inv, CursorInv, ShownInv
    <2> QED BY <2>1, <2>2, <2>3 DEF Inv
<1> QED BY <1>3, <1>4 DEF HandleSignal

LEMMA RendererStepCorrect ==
    ASSUME Inv, RendererStep
    PROVE  Inv' /\ (Selected => Selected')
<1>1. /\ UNCHANGED <<queueVars, cursorVars>>
      /\ UNCHANGED <<m_signalHandlerId, playbackStatus, currentTrack>>
    BY DEF RendererStep, RendererLeaves, RendererReturns, RendererMoves,
           TrackEnds, OtherControllerPauses, OtherControllerPlays, ForeignAnnounces
<1>2. QueueInv' /\ CursorInv' /\ (Selected => Selected')
    <2>1. playqueue' = playqueue /\ UNCHANGED queueVars /\ UNCHANGED cursorVars
        BY <1>1 DEF queueVars
    <2> QED BY <2>1, QueueUntouched, CursorUntouched
<1>3. ShownInv' /\ m_signalHandlerId' \in BOOLEAN
    BY <1>1 DEF Inv, DeviceInv, ShownInv
<1>4. CASE \E state \in RendererStates : RendererMoves(state)
    <2>1. PICK state \in RendererStates : RendererMoves(state)
        BY <1>4
    <2>2. renderer.uri \in Uris /\ signals \in Seq(Signals) /\ DeviceInv
        BY DEF Inv, DeviceInv, RendererTypes
    <2>3. Announce(state, renderer.uri, FALSE, signals, m_signalHandlerId)
        BY <2>1 DEF RendererMoves
    <2>4. DeviceInv'
        BY <1>3, <2>2, <2>3, AnnounceKeepsTypes DEF DeviceInv
    <2> QED BY <1>2, <1>3, <2>4 DEF Inv
<1>5. CASE RendererLeaves \/ RendererReturns
    <2>1. AwayRenderer \in RendererTypes
        BY DEF AwayRenderer, RendererTypes, RendererStates, Uris
    <2>2. /\ renderer \in RendererTypes
          /\ signals \in Seq(Signals)
        BY DEF Inv, DeviceInv
    <2>3. renderer' \in RendererTypes
        <3>1. CASE RendererLeaves
            BY <3>1, <2>1 DEF RendererLeaves
        <3>2. CASE RendererReturns
            BY <3>2, <2>2 DEF RendererReturns, RendererTypes
        <3> QED BY <1>5, <3>1, <3>2
    <2>4. signals' = signals
        BY <1>5 DEF RendererLeaves, RendererReturns
    <2>5. DeviceInv'
        BY <1>3, <2>2, <2>3, <2>4 DEF DeviceInv
    <2> QED BY <1>2, <1>3, <2>5 DEF Inv
<1>6. CASE ForeignAnnounces
    <2>1. PICK sig \in ForeignSignals :
            /\ signals' = Append(signals, sig)
            /\ renderer' = [renderer EXCEPT !.overheard = @ \/ sig.status = "Playing"]
        BY <1>6 DEF ForeignAnnounces
    <2>2. sig \in Signals
        OBVIOUS
    <2>3. signals \in Seq(Signals) /\ renderer \in RendererTypes
        BY DEF Inv, DeviceInv
    <2>4. renderer' \in RendererTypes
        <3> DEFINE heard == renderer.overheard \/ sig.status = "Playing"
        <3>1. heard \in BOOLEAN
            OBVIOUS
        <3>2. renderer' = [renderer EXCEPT !.overheard = heard]
            BY <2>1
        <3> HIDE DEF heard
        <3> QED BY <2>3, <3>1, <3>2 DEF RendererTypes
    <2>5. signals' \in Seq(Signals)
        BY <2>1, <2>2, <2>3
    <2> QED BY <1>2, <1>3, <2>4, <2>5 DEF Inv, DeviceInv
<1>7. "Stopped" \in RendererStates /\ "Paused" \in RendererStates /\ "Playing" \in RendererStates
    BY DEF RendererStates
<1> QED BY <1>4, <1>5, <1>6, <1>7
        DEF RendererStep, TrackEnds, OtherControllerPauses, OtherControllerPlays

LEMMA InitCorrect == Init => Inv
<1> SUFFICES ASSUME Init PROVE Inv
    OBVIOUS
<1>1. <<>> \in Seq(Items) /\ Len(<<>>) = 0 /\ <<>> \in Seq(Signals)
    OBVIOUS
<1>2. QueueInv
    <2>1. playqueue \in Seq(Items) /\ Len(playqueue) <= MaxQueue
        BY <1>1 DEF Init
    <2> QED BY <2>1 DEF Init, QueueInv, RepeatModes
<1>3. CursorInv
    <2>1. Unset \in 0 .. Unset
        BY WidthFacts
    <2>2. ~Selected /\ ~canGoNext /\ ~canGoPrevious
        BY DEF Init, Selected
    <2>3. AttributesAgree
        BY <2>2, Zenon DEF AttributesAgree
    <2> QED BY <2>1, <2>3 DEF Init, CursorInv, PositionNeverWraps
<1>4. DeviceInv
    <2>1. renderer \in RendererTypes
        BY DEF Init, AwayRenderer, RendererTypes, RendererStates, Uris
    <2>2. signals \in Seq(Signals) /\ m_signalHandlerId \in BOOLEAN
        BY <1>1 DEF Init
    <2> QED BY <2>1, <2>2 DEF DeviceInv
<1>5. ShownInv
    BY WidthFacts DEF Init, ShownInv
<1> QED BY <1>2, <1>3, <1>4, <1>5 DEF Inv

LEMMA StepCorrect == Inv /\ [Next]_vars => Inv' /\ (Selected => Selected')
<1> SUFFICES ASSUME Inv, [Next]_vars PROVE Inv' /\ (Selected => Selected')
    OBVIOUS
<1>1. ASSUME NEW out \in Outcomes, RendererCall(out)
      PROVE  Inv' /\ (Selected => Selected')
    <2>1. CASE clientNext(out)
        <3>1. signals \in Seq(Signals)
            BY DEF Inv, DeviceInv
        <3>2. /\ QueueInv' /\ CursorInv' /\ DeviceInv'
              /\ playbackStatus' \in {"PLAYING", "PAUSED"}
              /\ Selected => Selected'
            BY <2>1, <3>1, NextCorrect DEF clientNext
        <3> QED BY <2>1, <3>2 DEF clientNext, Inv, ShownInv
    <2>2. CASE previous(out)
        BY <2>2, PreviousCorrect
    <2>3. CASE \E list \in Playlists : openPlaylist(list, out)
        BY <2>3, OpenPlaylistCorrect
    <2> QED BY <1>1, <2>1, <2>2, <2>3, TransportCorrect DEF RendererCall
<1>2. CASE QueueCall
    BY <1>2, QueueCallCorrect
<1>3. CASE HandleSignal
    BY <1>3, HandleSignalCorrect
<1>4. CASE RendererStep
    BY <1>4, RendererStepCorrect
<1>5. CASE UNCHANGED vars
    BY <1>5 DEF vars, queueVars, cursorVars, deviceVars, Inv, QueueInv, CursorInv, DeviceInv,
                ShownInv, PositionNeverWraps, AttributesAgree, Selected
<1> QED BY <1>1, <1>2, <1>3, <1>4, <1>5 DEF Next

-------------------------------------------------------------------------------
(* The theorems. *)

\* Every variable of the player keeps its type, however handlers, renderer
\* and other controllers interleave.
THEOREM TypeCorrect == Spec => []TypeOK
<1>1. Inv => TypeOK
    BY DEF Inv, QueueInv, CursorInv, DeviceInv, ShownInv, TypeOK
<1>2. Spec => []Inv
    BY InitCorrect, StepCorrect, PTL DEF Spec
<1> QED BY <1>1, <1>2, PTL

\* playQueuePosition is UINT64_MAX or smaller than the longest queue, so the
\* sum stored in an int (playerprovider.cpp:599-617) never wraps.
THEOREM PositionCorrect == Spec => []PositionNeverWraps
<1>1. Inv => PositionNeverWraps
    BY DEF Inv, CursorInv
<1>2. Spec => []Inv
    BY InitCorrect, StepCorrect, PTL DEF Spec
<1> QED BY <1>1, <1>2, PTL

\* CanGoNext and CanGoPrevious agree with queue and position until the queue
\* is emptied (playerprovider.cpp:617-620, 576-579).
THEOREM AttributesCorrect == Spec => []AttributesAgree
<1>1. Inv => AttributesAgree
    BY DEF Inv, CursorInv
<1>2. Spec => []Inv
    BY InitCorrect, StepCorrect, PTL DEF Spec
<1> QED BY <1>1, <1>2, PTL

\* A selected track stays selected: no call or signal, failing or not, takes
\* the position back to UINT64_MAX.
THEOREM SelectionStays == Spec => PositionNeverUnset
<1>1. Inv /\ [Next]_vars => [Selected => Selected']_vars
    BY StepCorrect
<1>2. Spec => []Inv
    BY InitCorrect, StepCorrect, PTL DEF Spec
<1> QED BY <1>1, <1>2, PTL DEF Spec, PositionNeverUnset

-------------------------------------------------------------------------------
(* Refinement of PlayCursor. *)

LEMMA CursorValue ==
    ASSUME CursorInv
    PROVE  /\ AsInt(playQueuePosition) = IF Selected THEN playQueuePosition ELSE -1
           /\ AsInt(playQueuePosition) \in (-1) .. (MaxQueue - 1)
<1>1. CASE Selected
    <2>1. playQueuePosition \in 0 .. (MaxQueue - 1)
        BY <1>1, WidthFacts DEF Selected, CursorInv, PositionNeverWraps
    <2>2. playQueuePosition \in (-Half) .. (Half - 1)
        BY <2>1, WidthFacts
    <2>3. AsInt(playQueuePosition) = playQueuePosition
        BY <2>2, AsIntInRange
    <2> QED BY <1>1, <2>1, <2>3
<1>2. CASE ~Selected
    BY <1>2, UnsetAsInt DEF Selected
<1> QED BY <1>1, <1>2

\* A change of position by an increment moves the cursor, and a refused one
\* leaves it.
LEMMA MoveRefined ==
    ASSUME Inv, CursorInv', NEW increment \in Int, NEW i,
           i = AsInt(playQueuePosition) + increment, i \in (-2) .. MaxQueue,
           LET new == Target(playqueue, playQueuePosition, increment, m_repeat)
           IN  \/ new # NoTrack /\ playQueuePosition' = new
               \/ new = NoTrack /\ playQueuePosition' = playQueuePosition
    PROVE  Cursor!MoveTo(i)
<1> DEFINE new == Target(playqueue, playQueuePosition, increment, m_repeat)
           c == AsInt(playQueuePosition)
           n == Len(playqueue)
<1>1. /\ playqueue \in Seq(Items) /\ n \in Nat /\ n <= MaxQueue
      /\ playQueuePosition \in Int /\ CursorInv
    BY WidthFacts DEF Inv, QueueInv, CursorInv
<1>2. playqueue # <<>> <=> n > 0
    BY <1>1
<1>3. new = IF n - 1 < i
            THEN IF m_repeat = "REPEAT" /\ n - 1 >= 0 THEN 0 ELSE NoTrack
            ELSE IF i < 0 THEN NoTrack ELSE i
    <2>1. i \in (-Half) .. (Half - 1)
        BY WidthFacts
    <2> QED BY <1>1, <2>1, TargetAsInt
<1>4. new # NoTrack => new \in 0 .. (n - 1)
    BY <1>1, <1>3 DEF NoTrack
<1>5. AsInt(playQueuePosition') = IF new # NoTrack THEN new ELSE c
    <2>1. CASE new # NoTrack
        <3>1. new \in (-Half) .. (Half - 1)
            BY <1>1, <1>4, <2>1, WidthFacts
        <3>2. AsInt(new) = new
            BY <3>1, AsIntInRange
        <3>3. playQueuePosition' = new
            BY <2>1
        <3> QED BY <2>1, <3>2, <3>3
    <2>2. CASE new = NoTrack
        BY <2>2
    <2> QED BY <2>1, <2>2
<1> HIDE DEF new, c
<1>6. AsInt(playQueuePosition') =
        IF i \in 0 .. (n - 1) THEN i
        ELSE IF i >= n /\ m_repeat = "REPEAT" /\ playqueue # <<>> THEN 0
        ELSE c
    BY <1>1, <1>2, <1>3, <1>5 DEF NoTrack
<1> QED BY <1>6 DEF Cursor!MoveTo, c

LEMMA ForwardRefined ==
    ASSUME Inv, Inv', NEW out, NEW pending, next(out, pending)
    PROVE  Cursor!Forward
<1> DEFINE c == AsInt(playQueuePosition)
           n == Len(playqueue)
<1>1. UNCHANGED <<playqueue, m_repeat, m_shuffle>>
    BY DEF next, queueVars
<1>2. PICK increment \in NextIncrements(playqueue, playQueuePosition, m_repeat, m_shuffle) :
        LET new == Target(playqueue, playQueuePosition, increment, m_repeat)
        IN  \/ new # NoTrack /\ SelectTrack(playqueue, new, out, pending)
            \/ /\ new = NoTrack
               /\ connectMediaPlayer(out) /\ pause(out, pending)
               /\ UNCHANGED cursorVars
    BY DEF next
<1>3. LET new == Target(playqueue, playQueuePosition, increment, m_repeat)
      IN  \/ new # NoTrack /\ playQueuePosition' = new
          \/ new = NoTrack /\ playQueuePosition' = playQueuePosition
    BY <1>2 DEF SelectTrack, cursorVars
<1>4. /\ playqueue \in Seq(Items) /\ n \in Nat /\ n <= MaxQueue /\ n < Half
      /\ playQueuePosition \in Int /\ m_shuffle \in BOOLEAN
      /\ CursorInv /\ CursorInv'
    BY WidthFacts DEF Inv, QueueInv, CursorInv
<1>5. c \in (-1) .. (MaxQueue - 1)
    BY <1>4, CursorValue
<1>6. increment \in Int
    BY <1>2, <1>4, NextIncrementsType
<1> DEFINE i == c + increment
<1>7. i \in Cursor!Candidates /\ i \in (-2) .. MaxQueue
    <2>1. CASE m_shuffle
        <3>1. increment \in ShuffleIncrements(playqueue, playQueuePosition)
            BY <1>2, <2>1 DEF NextIncrements
        <3>2. c >= -1
            BY <1>5
        <3>3. i \in IF n >= 2 THEN 0 .. (n - 2) ELSE {0}
            BY <1>4, <3>1, <3>2, ShuffleDraws
        <3>4. i \in Cursor!Drawn
            BY <3>3 DEF Cursor!Drawn
        <3>5. i \in (-2) .. MaxQueue
            BY <1>4, <3>3
        <3> QED BY <2>1, <3>4, <3>5 DEF Cursor!Candidates
    <2>2. CASE ~m_shuffle
        <3>1. increment = IF m_repeat = "REPEAT_SINGLE" THEN 0 ELSE 1
            BY <1>2, <2>2 DEF NextIncrements
        <3>2. i = IF m_repeat = "REPEAT_SINGLE" THEN c ELSE c + 1
            BY <1>5, <3>1
        <3>3. i \in (-2) .. MaxQueue
            BY <1>5, <3>2
        <3> QED BY <2>2, <3>2, <3>3 DEF Cursor!Candidates
    <2> QED BY <2>1, <2>2
<1>8. Cursor!MoveTo(i)
    <2>1. i = AsInt(playQueuePosition) + increment
        OBVIOUS
    <2> HIDE DEF i, c, n
    <2> QED BY <1>3, <1>4, <1>6, <1>7, <2>1, MoveRefined
<1> HIDE DEF i
<1> QED BY <1>1, <1>7, <1>8 DEF Cursor!Forward

LEMMA BackwardRefined ==
    ASSUME Inv, Inv', NEW out, previous(out)
    PROVE  Cursor!Backward
<1> DEFINE i == AsInt(playQueuePosition) + -1
<1>1. UNCHANGED <<playqueue, m_repeat, m_shuffle>>
    BY DEF previous, queueVars
<1>2. LET new == Target(playqueue, playQueuePosition, -1, m_repeat)
      IN  \/ new # NoTrack /\ playQueuePosition' = new
          \/ new = NoTrack /\ playQueuePosition' = playQueuePosition
    BY DEF previous, SelectTrack, cursorVars
<1>3. CursorInv /\ CursorInv'
    BY DEF Inv
<1>4. AsInt(playQueuePosition) \in (-1) .. (MaxQueue - 1)
    BY <1>3, CursorValue
<1>5. i \in (-2) .. MaxQueue /\ -1 \in Int /\ i = AsInt(playQueuePosition) - 1
    BY <1>4
<1>6. Cursor!MoveTo(i)
    <2>1. i = AsInt(playQueuePosition) + -1
        OBVIOUS
    <2> HIDE DEF i
    <2> QED BY <1>2, <1>3, <1>5, <2>1, MoveRefined
<1> HIDE DEF i
<1> QED BY <1>1, <1>5, <1>6 DEF Cursor!Backward

LEMMA OpenRefined ==
    ASSUME NEW list \in Playlists, NEW out, openPlaylist(list, out)
    PROVE  Cursor!Open
<1>1. list \in Seq(Items) /\ Len(list) \in Nat /\ Len(list) <= MaxQueue
    OBVIOUS
<1>2. AsInt(0) = 0
    BY AsIntInRange, WidthFacts
<1>3. Target(list, 0, 0, m_repeat) \in {0, NoTrack}
    <2>1. AsInt(0) + 0 \in (-Half) .. (Half - 1)
        BY <1>2, WidthFacts
    <2>2. 0 \in Int /\ AsInt(0) + 0 = 0
        BY <1>2
    <2>3. Target(list, 0, 0, m_repeat) =
            IF Len(list) - 1 < AsInt(0) + 0
            THEN IF m_repeat = "REPEAT" /\ Len(list) - 1 >= 0 THEN 0 ELSE NoTrack
            ELSE IF AsInt(0) + 0 < 0 THEN NoTrack ELSE AsInt(0) + 0
        BY <2>1, <2>2, TargetAsInt
    <2> QED BY <1>1, <2>2, <2>3
<1>4. playQueuePosition' = 0 /\ playqueue' = list /\ UNCHANGED <<m_repeat, m_shuffle>>
    BY <1>3 DEF openPlaylist, SelectTrack
<1> QED BY <1>2, <1>4 DEF Cursor!Open

LEMMA CursorStepRefined ==
    ASSUME Inv, Inv', [Next]_vars
    PROVE  [Cursor!Next]_(Cursor!abstractVars)
<1>1. ASSUME NEW out \in Outcomes, RendererCall(out)
      PROVE  [Cursor!Next]_(Cursor!abstractVars)
    <2>1. CASE clientNext(out)
        BY <2>1, ForwardRefined DEF clientNext, Cursor!Next
    <2>2. CASE previous(out)
        BY <2>2, BackwardRefined DEF Cursor!Next
    <2>3. CASE \E list \in Playlists : openPlaylist(list, out)
        BY <2>3, OpenRefined DEF Cursor!Next
    <2>4. CASE UNCHANGED <<queueVars, cursorVars>>
        BY <2>4 DEF queueVars, cursorVars, Cursor!abstractVars
    <2> QED BY <1>1, <2>1, <2>2, <2>3, <2>4
            DEF RendererCall, openUri, clientPause, play, playPause, stop, touchTransport
<1>2. CASE QueueCall
    <2>1. playQueuePosition' = playQueuePosition
        BY <1>2 DEF QueueCall, enqueueUri, dequeueAll, setRepeat, setShuffle, cursorVars
    <2>2. CASE \E item \in Items : enqueueUri(item)
        BY <2>1, <2>2 DEF enqueueUri, Cursor!Next, Cursor!Extend
    <2>3. CASE dequeueAll
        BY <2>1, <2>3 DEF dequeueAll, Cursor!Next, Cursor!Empty
    <2>4. CASE (\E mode \in RepeatModes : setRepeat(mode)) \/ (\E on \in BOOLEAN : setShuffle(on))
        <3>1. UNCHANGED playqueue /\ m_repeat' \in RepeatModes /\ m_shuffle' \in BOOLEAN
            BY <2>4 DEF setRepeat, setShuffle, Inv, QueueInv
        <3> QED BY <2>1, <3>1 DEF RepeatModes, Cursor!Modes, Cursor!Next, Cursor!SetMode
    <2> QED BY <1>2, <2>2, <2>3, <2>4 DEF QueueCall
<1>3. CASE HandleSignal
    <2>1. CASE \E out \in Outcomes : HandleStopped(out)
        BY <2>1, ForwardRefined DEF HandleStopped, Cursor!Next
    <2>2. CASE HandleOther
        BY <2>2 DEF HandleOther, queueVars, cursorVars, Cursor!abstractVars
    <2> QED BY <1>3, <2>1, <2>2 DEF HandleSignal
<1>4. CASE RendererStep
    BY <1>4 DEF RendererStep, RendererLeaves, RendererReturns, RendererMoves, TrackEnds,
                OtherControllerPauses, OtherControllerPlays, ForeignAnnounces, queueVars, cursorVars,
                Cursor!abstractVars
<1>5. CASE UNCHANGED vars
    BY <1>5 DEF vars, queueVars, cursorVars, Cursor!abstractVars
<1> QED BY <1>1, <1>2, <1>3, <1>4, <1>5 DEF Next

LEMMA CursorInitRefined == Init => Cursor!Init
BY UnsetAsInt DEF Init, Cursor!Init, Cursor!None

\* The player, whatever its renderer does, is a play cursor: every handler
\* moves the position as PlayCursor allows, or not at all.
THEOREM CursorCorrect == Spec => CursorRefined
<1>1. Spec => []Inv
    BY InitCorrect, StepCorrect, PTL DEF Spec
<1>2. Inv /\ Inv' /\ [Next]_vars => [Cursor!Next]_(Cursor!abstractVars)
    BY CursorStepRefined
<1> QED BY <1>1, <1>2, CursorInitRefined, PTL DEF Spec, CursorRefined, Cursor!Spec
===============================================================================
