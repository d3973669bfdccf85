--------------------------- MODULE PlayerShownProofs ---------------------------
(***************************************************************************)
(* What a client of the player sees, built on Inv of PlayerProofs.         *)
(*                                                                         *)
(* What it is shown agrees with what the renderer does: PausedIsShown      *)
(* under every fault, NowPlaying where nothing fails.  Both depend on the  *)
(* signals still pending, so each has an invariant that says what they     *)
(* will make of the attributes.                                            *)
(*                                                                         *)
(* The two restrictions of Player are shown to be restrictions: a player   *)
(* left alone (Unattended), which then plays its queue in order, and the   *)
(* player behind its stub (PlayerStub).                                    *)
(***************************************************************************)
EXTENDS PlayerProofs, Unattended, PlayerStub

\* What PausedIsShown is about: paused, and nothing heard since that says else.
QuietlyPaused == renderer.state = "Paused" /\ ~renderer.overheard

\* Nothing is announced or shown before the player has subscribed, and a
\* renderer that is away is not paused.
StatusInv ==
    /\ ~m_signalHandlerId => signals = <<>> /\ playbackStatus = "PAUSED"
    /\ ~renderer.up => renderer.state = "Stopped"
    /\ PausedIsShown

-------------------------------------------------------------------------------
(* ShowsPaused and the pending signals. *)

LEMMA ShowsAfterPause ==
    ASSUME NEW pending \in Seq(Signals), NEW shown, ShowsPaused(pending, shown)
    PROVE  ShowsPaused(pending, "PAUSED")
BY DEF ShowsPaused

LEMMA ShowsBySignal ==
    ASSUME NEW pending \in Seq(Signals), NEW shown, NEW sig \in Signals,
           sig.status = "Paused"
    PROVE  ShowsPaused(Append(pending, sig), shown)
<1> DEFINE n == Len(pending) + 1
           longer == Append(pending, sig)
<1>1. Len(pending) \in Nat /\ Len(longer) = n /\ longer[n] = sig
    OBVIOUS
<1>2. n \in 0 .. Len(longer) /\ n # 0 /\ (n + 1) .. Len(longer) = {}
    BY <1>1
<1> HIDE DEF n, longer
<1>3. ShowsPaused(longer, shown)
    BY <1>1, <1>2 DEF ShowsPaused
<1> QED BY <1>3 DEF longer

LEMMA ShowsAfterSignal ==
    ASSUME NEW pending \in Seq(Signals), NEW shown, NEW sig \in Signals,
           sig.status # "Playing", ShowsPaused(pending, shown)
    PROVE  ShowsPaused(Append(pending, sig), shown)
<1> DEFINE n == Len(pending)
           longer == Append(pending, sig)
<1>1. /\ n \in Nat /\ Len(longer) = n + 1 /\ longer[n + 1] = sig
      /\ \A k \in 1 .. n : longer[k] = pending[k]
    OBVIOUS
<1>2. PICK i \in 0 .. n :
        /\ IF i = 0 THEN shown = "PAUSED" ELSE pending[i].status = "Paused"
        /\ \A k \in (i + 1) .. n : pending[k].status # "Playing"
    BY DEF ShowsPaused
<1> HIDE DEF n, longer
<1>3. i \in 0 .. (n + 1) /\ (i # 0 => i \in 1 .. n)
    BY <1>1, <1>2
<1>4. IF i = 0 THEN shown = "PAUSED" ELSE longer[i].status = "Paused"
    BY <1>1, <1>2, <1>3
<1>5. ASSUME NEW k \in (i + 1) .. (n + 1) PROVE longer[k].status # "Playing"
    <2>1. k = n + 1 \/ (k \in 1 .. n /\ k \in (i + 1) .. n)
        BY <1>1, <1>3
    <2> QED BY <1>1, <1>2, <2>1
<1>6. ShowsPaused(longer, shown)
    BY <1>1, <1>3, <1>4, <1>5 DEF ShowsPaused
<1> QED BY <1>6 DEF longer

\* Dispatching the first signal changes what is shown now, not what will be.
LEMMA ShowsAfterDispatch ==
    ASSUME NEW pending \in Seq(Signals), pending # <<>>, NEW shown,
           ShowsPaused(pending, shown)
    PROVE  ShowsPaused(Tail(pending),
                       CASE Head(pending).status = "Playing" -> "PLAYING"
                         [] Head(pending).status = "Paused"  -> "PAUSED"
                         [] OTHER                            -> shown)
<1> DEFINE n == Len(pending)
           rest == Tail(pending)
           next0 == CASE Head(pending).status = "Playing" -> "PLAYING"
                      [] Head(pending).status = "Paused"  -> "PAUSED"
                      [] OTHER                            -> shown
<1>1. /\ n \in Nat \ {0} /\ Len(rest) = n - 1 /\ Head(pending) = pending[1]
      /\ \A k \in 1 .. (n - 1) : rest[k] = pending[k + 1]
    OBVIOUS
<1>2. PICK i \in 0 .. n :
        /\ IF i = 0 THEN shown = "PAUSED" ELSE pending[i].status = "Paused"
        /\ \A k \in (i + 1) .. n : pending[k].status # "Playing"
    BY DEF ShowsPaused
<1>3. i = 0 => pending[1].status # "Playing"
    BY <1>1, <1>2
<1>4. i \in {0, 1} => next0 = "PAUSED"
    BY <1>1, <1>2, <1>3
<1> HIDE DEF n, rest, next0
<1> DEFINE j == IF i = 0 THEN 0 ELSE i - 1
<1>5. j \in 0 .. (n - 1) /\ (j = 0 => i \in {0, 1}) /\ (j # 0 => j \in 1 .. (n - 1) /\ j + 1 = i)
    BY <1>1
<1>6. ASSUME NEW k \in (j + 1) .. (n - 1) PROVE rest[k].status # "Playing"
    <2>1. k \in 1 .. (n - 1) /\ k + 1 \in (i + 1) .. n
        BY <1>1, <1>5
    <2> QED BY <1>1, <1>2, <2>1
<1>7. IF j = 0 THEN next0 = "PAUSED" ELSE rest[j].status = "Paused"
    BY <1>1, <1>2, <1>4, <1>5
<1> HIDE DEF j
<1>8. ShowsPaused(rest, next0)
    BY <1>1, <1>5, <1>6, <1>7 DEF ShowsPaused
<1> QED BY <1>8 DEF rest, next0

-------------------------------------------------------------------------------
(* What the handlers do to the renderer and to the shown status. *)

LEMMA CarriedIsDone ==
    ASSUME NEW able, NEW out \in Answers(able), Carried(out)
    PROVE  renderer.up /\ able
<1>1. Faults \cap {"unreachable", "refused"} \subseteq {"unreachable", "refused"}
    OBVIOUS
<1> QED BY <1>1 DEF Answers, Carried

\* Whatever the renderer announces, and whether or not a handler shows PAUSED
\* at the same time, a paused renderer stays shown as PAUSED.
LEMMA AnnouncedIsShown ==
    ASSUME DeviceInv, NEW state \in RendererStates, NEW uri \in Uris,
           NEW metadata \in BOOLEAN, NEW pending \in Seq(Signals), NEW subscribed \in BOOLEAN,
           renderer.up,
           QuietlyPaused => ShowsPaused(pending, playbackStatus),
           ~subscribed => pending = <<>> /\ playbackStatus = "PAUSED",
           Announce(state, uri, metadata, pending, subscribed),
           playbackStatus' \in {playbackStatus, "PAUSED"}
    PROVE  renderer'.up /\ PausedIsShown'
<1> DEFINE heard == renderer.overheard /\ state = renderer.state
<1>1. renderer'.up /\ renderer'.state = state /\ renderer'.overheard = heard
    <2>1. renderer' = [renderer EXCEPT !.state = state, !.uri = uri, !.overheard = heard]
        BY DEF Announce
    <2> HIDE DEF heard
    <2> QED BY <2>1 DEF DeviceInv, RendererTypes
<1>2. SUFFICES ASSUME state = "Paused", ~heard PROVE ShowsPaused(signals', playbackStatus')
    BY <1>1 DEF PausedIsShown
<1>3. SUFFICES ShowsPaused(signals', playbackStatus)
    <2>1. signals' \in Seq(Signals)
        BY AnnounceKeepsTypes
    <2> QED BY <1>3, <2>1, ShowsAfterPause
<1> DEFINE sig == [status |-> IF state = renderer.state THEN "Unchanged" ELSE state,
                   metadata |-> metadata]
<1>4. sig \in Signals
    BY DEF Signals
<1>5. CASE renderer.state = "Paused"
    <2>1. sig.status # "Playing" /\ (signals' = pending \/ signals' = Append(pending, sig))
        BY <1>2, <1>5 DEF Announce
    <2> HIDE DEF sig
    <2>2. ShowsPaused(pending, playbackStatus)
        BY <1>2, <1>5 DEF QuietlyPaused
    <2> QED BY <1>4, <2>1, <2>2, ShowsAfterSignal
<1>6. CASE renderer.state # "Paused" /\ subscribed
    <2>1. sig.status = "Paused" /\ signals' = Append(pending, sig)
        BY <1>2, <1>6 DEF Announce
    <2> HIDE DEF sig
    <2> QED BY <1>4, <2>1, ShowsBySignal
<1>7. CASE ~subscribed
    <2>1. signals' = <<>> /\ playbackStatus = "PAUSED"
        BY <1>7 DEF Announce
    <2>2. ShowsPaused(<<>>, "PAUSED")
        <3>1. Len(<<>>) = 0 /\ 0 \in 0 .. 0 /\ 1 .. 0 = {}
            OBVIOUS
        <3> QED BY <3>1 DEF ShowsPaused
    <2> QED BY <2>1, <2>2
<1> QED BY <1>5, <1>6, <1>7

LEMMA UntouchedIsShown ==
    ASSUME NEW pending \in Seq(Signals), StatusInv,
           QuietlyPaused => ShowsPaused(pending, playbackStatus),
           Untouched(pending), playbackStatus' \in {playbackStatus, "PAUSED"}
    PROVE  PausedIsShown' /\ (~renderer'.up => renderer'.state = "Stopped")
BY ShowsAfterPause DEF Untouched, PausedIsShown, QuietlyPaused, StatusInv

\* The renderer is there and carries out a call of a subscriber.
Reached(pending) ==
    /\ renderer.up
    /\ \E state \in RendererStates, uri \in Uris, metadata \in BOOLEAN :
          Announce(state, uri, metadata, pending, TRUE)

\* A handler that calls the renderer.  It has subscribed if it reaches it.
LEMMA CallIsShown ==
    ASSUME Inv, StatusInv, NEW pending \in Seq(Signals),
           QuietlyPaused => ShowsPaused(pending, playbackStatus),
           pending = signals \/ m_signalHandlerId,
           NEW out, m_signalHandlerId => m_signalHandlerId',
           out # "unreachable" => m_signalHandlerId',
           IF Carried(out) THEN Reached(pending) ELSE Untouched(pending),
           playbackStatus' \in {playbackStatus, "PAUSED"}
    PROVE  StatusInv'
<1>1. DeviceInv /\ m_signalHandlerId \in BOOLEAN
    BY DEF Inv, DeviceInv
<1>2. PausedIsShown' /\ (~renderer'.up => renderer'.state = "Stopped")
    <2>1. CASE Untouched(pending)
        BY <2>1, UntouchedIsShown
    <2>2. CASE Reached(pending)
        BY <1>1, <2>2, AnnouncedIsShown DEF Reached
    <2> QED BY <2>1, <2>2
<1>3. ~m_signalHandlerId' => signals' = <<>> /\ playbackStatus' = "PAUSED"
    <2> SUFFICES ASSUME ~m_signalHandlerId' PROVE signals' = <<>> /\ playbackStatus' = "PAUSED"
        OBVIOUS
    <2>1. ~m_signalHandlerId /\ ~Carried(out)
        BY DEF Carried
    <2> QED BY <2>1 DEF Untouched, StatusInv
<1> QED BY <1>2, <1>3 DEF StatusInv

LEMMA OpenReaches ==
    ASSUME NEW uri \in Uris, NEW out, NEW pending, openURI(uri, out, pending)
    PROVE  IF Carried(out) THEN Reached(pending) ELSE Untouched(pending)
<1> SUFFICES ASSUME Carried(out) PROVE Reached(pending)
    BY DEF openURI
<1>1. renderer.up
    BY CarriedIsDone DEF openURI, OpenAnswers
<1>2. (IF uri = NoUri THEN "Stopped" ELSE "Playing") \in RendererStates
    BY DEF RendererStates
<1> QED BY <1>1, <1>2 DEF openURI, Reached

LEMMA PauseReaches ==
    ASSUME DeviceInv, NEW out, NEW pending, pause(out, pending)
    PROVE  /\ IF Carried(out) THEN Reached(pending) ELSE Untouched(pending)
           /\ playbackStatus' \in {playbackStatus, "PAUSED"}
<1>1. Carried(out) => renderer.up
    BY CarriedIsDone DEF pause
<1>2. "Paused" \in RendererStates /\ renderer.uri \in Uris /\ FALSE \in BOOLEAN
    BY DEF RendererStates, RendererTypes, DeviceInv
<1> QED BY <1>1, <1>2 DEF pause, Reached

LEMMA SelectTrackIsShown ==
    ASSUME Inv, StatusInv, NEW queue \in Seq(Items), NEW new \in 0 .. (Len(queue) - 1),
           NEW out, NEW pending \in Seq(Signals),
           QuietlyPaused => ShowsPaused(pending, playbackStatus),
           pending = signals \/ m_signalHandlerId,
           SelectTrack(queue, new, out, pending)
    PROVE  StatusInv'
<1>1. getLocalURL(queue[new + 1]) \in Uris
    <2>1. new + 1 \in 1 .. Len(queue)
        OBVIOUS
    <2>2. queue[new + 1] \in Items
        BY <2>1
    <2> QED BY <2>2 DEF getLocalURL, Uris
<1>2. IF Carried(out) THEN Reached(pending) ELSE Untouched(pending)
    BY <1>1, OpenReaches DEF SelectTrack
<1>3. m_signalHandlerId' = (m_signalHandlerId \/ out # "unreachable")
    BY DEF SelectTrack, openURI, connectMediaPlayer
<1>4. playbackStatus' = playbackStatus
    BY DEF SelectTrack
<1> QED BY <1>2, <1>3, <1>4, CallIsShown

LEMMA NextIsShown ==
    ASSUME Inv, StatusInv, NEW out, NEW pending \in Seq(Signals),
           QuietlyPaused => ShowsPaused(pending, playbackStatus),
           pending = signals \/ m_signalHandlerId,
           next(out, pending)
    PROVE  StatusInv'
<1>1. PICK increment \in NextIncrements(playqueue, playQueuePosition, m_repeat, m_shuffle) :
        LET new == Target(playqueue, playQueuePosition, increment, m_repeat)
        IN  \/ new # NoTrack /\ SelectTrack(playqueue, new, out, pending)
            \/ /\ new = NoTrack
               /\ connectMediaPlayer(out) /\ pause(out, pending)
               /\ UNCHANGED cursorVars
    BY DEF next
<1> DEFINE new == Target(playqueue, playQueuePosition, increment, m_repeat)
<1>2. playqueue \in Seq(Items) /\ playQueuePosition \in Int
    BY WidthFacts DEF Inv, QueueInv, CursorInv
<1>3. CASE new # NoTrack /\ SelectTrack(playqueue, new, out, pending)
    <2>1. new \in 0 .. (Len(playqueue) - 1)
        BY <1>2, <1>3, NextIncrementsType, TargetInQueue
    <2> HIDE DEF new
    <2> QED BY <1>2, <1>3, <2>1, SelectTrackIsShown
<1>4. CASE connectMediaPlayer(out) /\ pause(out, pending)
    <2>1. DeviceInv
        BY DEF Inv
    <2>2. m_signalHandlerId' = (m_signalHandlerId \/ out # "unreachable")
        BY <1>4 DEF connectMediaPlayer
    <2> QED BY <1>4, <2>1, <2>2, PauseReaches, CallIsShown
<1> QED BY <1>1, <1>3, <1>4

-------------------------------------------------------------------------------
(* Each step keeps StatusInv. *)

LEMMA PausedUpTo ==
    ASSUME StatusInv
    PROVE  QuietlyPaused => ShowsPaused(signals, playbackStatus)
<1> SUFFICES ASSUME QuietlyPaused PROVE ShowsPaused(signals, playbackStatus)
    OBVIOUS
<1>1. renderer.up
    BY DEF QuietlyPaused, StatusInv
<1> QED BY <1>1 DEF QuietlyPaused, StatusInv, PausedIsShown

LEMMA UnchangedIsShown ==
    ASSUME StatusInv, UNCHANGED <<deviceVars, playbackStatus>>
    PROVE  StatusInv'
BY DEF StatusInv, PausedIsShown, deviceVars

LEMMA QueueMoveIsShown ==
    ASSUME Inv, StatusInv, NEW out,
           previous(out) \/ \E list \in Playlists : openPlaylist(list, out)
    PROVE  StatusInv'
<1>1. /\ signals \in Seq(Signals)
      /\ QuietlyPaused => ShowsPaused(signals, playbackStatus)
    BY PausedUpTo DEF Inv, DeviceInv
<1>2. CASE previous(out)
    <2> DEFINE new == Target(playqueue, playQueuePosition, -1, m_repeat)
    <2>1. playqueue \in Seq(Items) /\ playQueuePosition \in Int
        BY WidthFacts DEF Inv, QueueInv, CursorInv
    <2>2. CASE new # NoTrack /\ SelectTrack(playqueue, new, out, signals)
        <3>1. new \in 0 .. (Len(playqueue) - 1)
            BY <2>1, <2>2, TargetInQueue
        <3> HIDE DEF new
        <3> QED BY <1>1, <2>1, <2>2, <3>1, SelectTrackIsShown
    <2> QED BY <1>2, <2>2, UnchangedIsShown DEF previous
<1>3. ASSUME NEW list \in Playlists, openPlaylist(list, out) PROVE StatusInv'
    <2> DEFINE new == Target(list, 0, 0, m_repeat)
    <2>1. list \in Seq(Items)
        BY PlayerAssumption
    <2>2. CASE new # NoTrack /\ SelectTrack(list, new, out, signals)
        <3>1. new \in 0 .. (Len(list) - 1)
            BY <2>1, <2>2, TargetInQueue
        <3> HIDE DEF new
        <3> QED BY <1>1, <2>1, <2>2, <3>1, SelectTrackIsShown
    <2>3. CASE UNCHANGED <<deviceVars, playbackStatus>>
        BY <2>3, UnchangedIsShown
    <2> QED BY <1>3, <2>2, <2>3 DEF openPlaylist
<1> QED BY <1>2, <1>3

LEMMA TransportIsShown ==
    ASSUME Inv, StatusInv, NEW out \in Outcomes,
           \/ \E uri \in OpenUris : openUri(uri, out)
           \/ clientPause(out) \/ play(out) \/ playPause(out)
           \/ \E sought \in Outcomes : stop(out, sought)
           \/ touchTransport(out)
    PROVE  StatusInv'
<1>1. /\ signals \in Seq(Signals) /\ DeviceInv
      /\ QuietlyPaused => ShowsPaused(signals, playbackStatus)
    BY PausedUpTo DEF Inv, DeviceInv
<1>2. CASE \E uri \in OpenUris : openUri(uri, out)
    <2>1. PICK uri \in OpenUris : openUri(uri, out)
        BY <1>2
    <2>2. uri \in Uris /\ openURI(uri, out, signals) /\ playbackStatus' = playbackStatus
        BY <2>1 DEF Uris, openUri
    <2>3. m_signalHandlerId' = (m_signalHandlerId \/ out # "unreachable")
        BY <2>2 DEF openURI, connectMediaPlayer
    <2> QED BY <1>1, <2>2, <2>3, OpenReaches, CallIsShown
<1>3. CASE pause(out, signals) /\ (m_signalHandlerId \/ out # "unreachable" => m_signalHandlerId')
    BY <1>1, <1>3, PauseReaches, CallIsShown
<1>4. CASE play(out) \/ playPause(out)
    <2>1. m_signalHandlerId' = (m_signalHandlerId \/ out # "unreachable")
        BY <1>4 DEF play, playPause, connectMediaPlayer
    <2>2. Carried(out) => renderer.up
        BY <1>4, CarriedIsDone DEF play, playPause
    <2>3. /\ "Playing" \in RendererStates
          /\ (IF renderer.state = "Playing" THEN "Paused" ELSE "Playing") \in RendererStates
          /\ renderer.uri \in Uris /\ FALSE \in BOOLEAN
        BY <1>1 DEF RendererStates, RendererTypes, DeviceInv
    <2>4. IF Carried(out) THEN Reached(signals) ELSE Untouched(signals)
        BY <1>4, <2>2, <2>3 DEF play, playPause, Reached
    <2>5. playbackStatus' = playbackStatus
        BY <1>4 DEF play, playPause
    <2> QED BY <1>1, <2>1, <2>4, <2>5, CallIsShown
<1>5. CASE touchTransport(out)
    BY <1>5 DEF touchTransport, connectMediaPlayer, StatusInv, PausedIsShown
<1> QED BY <1>2, <1>3, <1>4, <1>5 DEF clientPause, stop, connectMediaPlayer

LEMMA SignalIsShown ==
    ASSUME Inv, StatusInv, HandleSignal
    PROVE  StatusInv'
<1>1. signals \in Seq(Signals) /\ signals # <<>>
    BY DEF HandleSignal, HandleOther, HandleStopped, Inv, DeviceInv
<1>2. Tail(signals) \in Seq(Signals) /\ m_signalHandlerId
    BY <1>1 DEF StatusInv
<1> DEFINE told == CASE Head(signals).status = "Playing" -> "PLAYING"
                     [] Head(signals).status = "Paused"  -> "PAUSED"
                     [] OTHER                            -> playbackStatus
<1>3. QuietlyPaused => ShowsPaused(Tail(signals), told)
    BY <1>1, PausedUpTo, ShowsAfterDispatch
<1>4. Head(signals).status \notin {"Playing", "Paused"} => told = playbackStatus
    OBVIOUS
<1>5. HandleOther => playbackStatus' = told
    BY DEF HandleOther
<1> HIDE DEF told
<1>6. CASE \E out \in Outcomes : HandleStopped(out)
    <2>1. PICK out \in Outcomes : HandleStopped(out)
        BY <1>6
    <2>2. next(out, Tail(signals)) /\ told = playbackStatus
        BY <1>4, <2>1 DEF HandleStopped
    <2> QED BY <1>2, <1>3, <2>2, NextIsShown
<1>7. CASE HandleOther
    <2>1. /\ renderer' = renderer /\ m_signalHandlerId' = m_signalHandlerId
          /\ signals' = Tail(signals) /\ playbackStatus' = told
        BY <1>5, <1>7 DEF HandleOther
    <2> QED BY <1>2, <1>3, <2>1 DEF StatusInv, PausedIsShown, QuietlyPaused
<1> QED BY <1>6, <1>7 DEF HandleSignal

LEMMA RendererIsShown ==
    ASSUME Inv, StatusInv, RendererStep
    PROVE  StatusInv'
<1>1. m_signalHandlerId' = m_signalHandlerId /\ playbackStatus' = playbackStatus
    BY DEF RendererStep, RendererLeaves, RendererReturns, RendererMoves,
           TrackEnds, OtherControllerPauses, OtherControllerPlays, ForeignAnnounces
<1>2. ASSUME NEW state \in RendererStates, RendererMoves(state) PROVE StatusInv'
    <2>1. /\ DeviceInv /\ renderer.uri \in Uris /\ signals \in Seq(Signals)
          /\ m_signalHandlerId \in BOOLEAN /\ renderer.up
          /\ Announce(state, renderer.uri, FALSE, signals, m_signalHandlerId)
        BY <1>2 DEF Inv, DeviceInv, RendererTypes, RendererMoves
    <2>2. ~m_signalHandlerId => signals = <<>> /\ playbackStatus = "PAUSED"
        BY DEF StatusInv
    <2>3. renderer'.up /\ PausedIsShown'
        BY <1>1, <2>1, <2>2, PausedUpTo, AnnouncedIsShown
    <2>4. ~m_signalHandlerId => signals' = signals
        BY <2>1 DEF Announce
    <2> QED BY <1>1, <2>2, <2>3, <2>4 DEF StatusInv
<1>3. CASE RendererLeaves
    BY <1>1, <1>3 DEF RendererLeaves, AwayRenderer, StatusInv, PausedIsShown
<1>4. CASE RendererReturns
    <2>1. renderer'.state = renderer.state /\ signals' = signals /\ renderer.state = "Stopped"
        BY <1>4 DEF RendererReturns, StatusInv, Inv, DeviceInv, RendererTypes
    <2> QED BY <1>1, <2>1 DEF StatusInv, PausedIsShown
<1>5. CASE ForeignAnnounces
    <2>1. PICK sig \in ForeignSignals :
            /\ m_signalHandlerId /\ signals' = Append(signals, sig)
            /\ renderer' = [renderer EXCEPT !.overheard = @ \/ sig.status = "Playing"]
        BY <1>5 DEF ForeignAnnounces
    <2> DEFINE heard == renderer.overheard \/ sig.status = "Playing"
    <2>2. /\ renderer'.up = renderer.up /\ renderer'.state = renderer.state
          /\ renderer'.overheard = heard
        <3>1. renderer' = [renderer EXCEPT !.overheard = heard]
            BY <2>1
        <3> HIDE DEF heard
        <3> QED BY <3>1 DEF Inv, DeviceInv, RendererTypes
    <2>3. sig \in Signals /\ signals \in Seq(Signals)
        BY PlayerAssumption DEF Inv, DeviceInv
    <2>4. ASSUME renderer.state = "Paused", ~heard PROVE ShowsPaused(signals', playbackStatus')
        <3>1. ShowsPaused(signals, playbackStatus)
            BY <2>4, PausedUpTo DEF QuietlyPaused
        <3> QED BY <1>1, <2>1, <2>3, <2>4, <3>1, ShowsAfterSignal
    <2> HIDE DEF heard
    <2> QED BY <1>1, <2>1, <2>2, <2>4 DEF StatusInv, PausedIsShown
<1>6. "Stopped" \in RendererStates /\ "Paused" \in RendererStates /\ "Playing" \in RendererStates
    BY DEF RendererStates
<1> QED BY <1>2, <1>3, <1>4, <1>5, <1>6
        DEF RendererStep, TrackEnds, OtherControllerPauses, OtherControllerPlays

LEMMA StatusStep == Inv /\ StatusInv /\ [Next]_vars => StatusInv'
<1> SUFFICES ASSUME Inv, StatusInv, [Next]_vars PROVE StatusInv'
    OBVIOUS
<1>1. ASSUME NEW out \in Outcomes, RendererCall(out) PROVE StatusInv'
    <2>1. CASE clientNext(out)
        <3>1. signals \in Seq(Signals)
            BY DEF Inv, DeviceInv
        <3> QED BY <2>1, <3>1, PausedUpTo, NextIsShown DEF clientNext
    <2> QED BY <1>1, <2>1, QueueMoveIsShown, TransportIsShown DEF RendererCall
<1>2. CASE QueueCall
    BY <1>2, UnchangedIsShown DEF QueueCall, enqueueUri, dequeueAll, setRepeat, setShuffle
<1>3. CASE UNCHANGED vars
    BY <1>3, UnchangedIsShown DEF vars
<1> QED BY <1>1, <1>2, <1>3, SignalIsShown, RendererIsShown DEF Next

LEMMA StatusInit == Init => StatusInv
BY DEF Init, AwayRenderer, StatusInv, PausedIsShown

\* A renderer paused by anyone, while connected, is shown as PAUSED once the
\* pending property changes are dispatched, whatever fails, however long the
\* signals wait and whatever other renderers announce, unless one of them
\* announced Playing since (playerprovider.cpp:73-75, 219-226, 260-261).
THEOREM PausedShown == Spec => []PausedIsShown
<1>1. StatusInv => PausedIsShown
    BY DEF StatusInv
<1>2. Spec => [](Inv /\ StatusInv)
    BY InitCorrect, StepCorrect, StatusInit, StatusStep, PTL DEF Spec
<1> QED BY <1>1, <1>2, PTL

-------------------------------------------------------------------------------
(* What plays where nothing fails. *)

Healthy == LocalItems = Items /\ OpenUris = {} /\ Faults = {}

MetadataPending(pending) == \E i \in DOMAIN pending : pending[i].metadata

\* CurrentTrack names the selected entry, or will once the pending metadata
\* is dispatched.
TrackToldAs(track, pending, position) == track = position \/ MetadataPending(pending)

\* Only the player opens something on the renderer, and what it opened last is
\* the selected entry.
NowInv ==
    /\ renderer.up
    /\ ~Selected => renderer.uri = NoUri /\ renderer.state = "Stopped"
    /\ Selected /\ ~emptied =>
          /\ renderer.uri = playqueue[playQueuePosition + 1]
          /\ TrackToldAs(currentTrack, signals, playQueuePosition)

LEMMA MetadataAfterSignal ==
    ASSUME NEW pending \in Seq(Signals), NEW sig \in Signals,
           MetadataPending(pending) \/ sig.metadata
    PROVE  MetadataPending(Append(pending, sig))
<1> DEFINE longer == Append(pending, sig)
           n == Len(pending)
<1>1. /\ n \in Nat /\ DOMAIN longer = 1 .. (n + 1) /\ DOMAIN pending = 1 .. n
      /\ longer[n + 1] = sig /\ \A k \in 1 .. n : longer[k] = pending[k]
    OBVIOUS
<1>2. n + 1 \in 1 .. (n + 1) /\ 1 .. n \subseteq 1 .. (n + 1)
    BY <1>1
<1> HIDE DEF longer, n
<1>3. MetadataPending(longer)
    BY <1>1, <1>2 DEF MetadataPending
<1> QED BY <1>3 DEF longer

LEMMA MetadataAfterDispatch ==
    ASSUME NEW pending \in Seq(Signals), pending # <<>>, ~Head(pending).metadata,
           MetadataPending(pending)
    PROVE  MetadataPending(Tail(pending))
<1>1. /\ Len(pending) \in Nat \ {0} /\ DOMAIN pending = 1 .. Len(pending)
      /\ DOMAIN Tail(pending) = 1 .. (Len(pending) - 1) /\ Head(pending) = pending[1]
      /\ \A k \in 1 .. (Len(pending) - 1) : Tail(pending)[k] = pending[k + 1]
    OBVIOUS
<1>2. PICK i \in 1 .. Len(pending) : pending[i].metadata
    BY <1>1 DEF MetadataPending
<1>3. i - 1 \in 1 .. (Len(pending) - 1) /\ (i - 1) + 1 = i
    BY <1>1, <1>2
<1> QED BY <1>1, <1>2, <1>3 DEF MetadataPending

\* An announcement of the renderer, and the metadata among the pending signals.
LEMMA AnnouncedNow ==
    ASSUME DeviceInv, NEW state \in RendererStates, NEW uri, NEW metadata \in BOOLEAN,
           NEW pending \in Seq(Signals), NEW subscribed \in BOOLEAN,
           Announce(state, uri, metadata, pending, subscribed)
    PROVE  /\ renderer'.up = renderer.up /\ renderer'.state = state /\ renderer'.uri = uri
           /\ MetadataPending(pending) \/ (metadata /\ subscribed) => MetadataPending(signals')
<1> DEFINE sig == [status |-> IF state = renderer.state THEN "Unchanged" ELSE state,
                   metadata |-> metadata]
<1>1. renderer'.up = renderer.up /\ renderer'.state = state /\ renderer'.uri = uri
    <2> DEFINE heard == renderer.overheard /\ state = renderer.state
    <2>1. renderer' = [renderer EXCEPT !.state = state, !.uri = uri, !.overheard = heard]
        BY DEF Announce
    <2> HIDE DEF heard
    <2> QED BY <2>1 DEF DeviceInv, RendererTypes
<1>2. sig \in Signals /\ sig.metadata = metadata
    BY DEF Signals
<1>3. signals' = IF subscribed /\ (metadata \/ state # renderer.state)
                 THEN Append(pending, sig) ELSE pending
    BY DEF Announce
<1> HIDE DEF sig
<1> QED BY <1>1, <1>2, <1>3, MetadataAfterSignal

\* A step that leaves the queue's entries and the cursor alone.
LEMMA QuietNow ==
    ASSUME Inv, NowInv, UNCHANGED cursorVars,
           playqueue' = playqueue \/ \E item \in Items : playqueue' = Append(playqueue, item),
           renderer'.up, renderer'.uri = renderer.uri,
           renderer.uri = NoUri /\ renderer.state = "Stopped" => renderer'.state = "Stopped",
           TrackToldAs(currentTrack, signals, playQueuePosition)
             => TrackToldAs(currentTrack', signals', playQueuePosition)
    PROVE  NowInv'
<1>1. UNCHANGED <<playQueuePosition, emptied>> /\ (Selected' <=> Selected)
    BY DEF cursorVars, Selected
<1>2. Selected /\ ~emptied => playqueue'[playQueuePosition + 1] = playqueue[playQueuePosition + 1]
    <2> SUFFICES ASSUME Selected, ~emptied
                 PROVE  playqueue'[playQueuePosition + 1] = playqueue[playQueuePosition + 1]
        OBVIOUS
    <2>1. /\ playqueue \in Seq(Items) /\ playQueuePosition \in Nat
          /\ playQueuePosition < Len(playqueue)
        BY WidthFacts DEF Inv, QueueInv, CursorInv, AttributesAgree
    <2>2. playQueuePosition + 1 \in 1 .. Len(playqueue)
        BY <2>1
    <2> QED BY <2>1, <2>2
<1> QED BY <1>1, <1>2 DEF NowInv

LEMMA HealthyAnswers ==
    ASSUME Healthy, renderer.up, NEW able, NEW out \in Answers(able)
    PROVE  Carried(out) <=> able
BY DEF Healthy, Answers, Carried

\* The entry selected is local, so it is what the renderer plays.
LEMMA SelectTrackNow ==
    ASSUME Healthy, Inv, NowInv, NEW queue \in Seq(Items), Len(queue) <= MaxQueue,
           NEW new \in 0 .. (Len(queue) - 1), NEW out, NEW pending \in Seq(Signals),
           playqueue' = queue, SelectTrack(queue, new, out, pending)
    PROVE  NowInv' /\ MetadataPending(signals')
<1>1. queue[new + 1] \in Items
    <2>1. new + 1 \in 1 .. Len(queue)
        OBVIOUS
    <2> QED BY <2>1
<1>2. getLocalURL(queue[new + 1]) = queue[new + 1] /\ queue[new + 1] # NoUri
    BY <1>1, PlayerAssumption DEF getLocalURL, Healthy
<1>3. openURI(queue[new + 1], out, pending)
    BY <1>2 DEF SelectTrack
<1>4. Carried(out)
    BY <1>2, <1>3, HealthyAnswers DEF openURI, OpenAnswers, NowInv
<1>5. Announce("Playing", queue[new + 1], TRUE, pending, TRUE)
    BY <1>2, <1>3, <1>4 DEF openURI
<1>6. /\ renderer'.up /\ renderer'.uri = queue[new + 1]
      /\ MetadataPending(signals')
    <2>1. "Playing" \in RendererStates /\ DeviceInv /\ renderer.up
        BY DEF RendererStates, Inv, NowInv
    <2> QED BY <1>5, <2>1, AnnouncedNow
<1>7. playQueuePosition' = new /\ Selected'
    BY SelectTrackCorrect DEF SelectTrack, Inv
<1> QED BY <1>6, <1>7 DEF NowInv, TrackToldAs

LEMMA PauseNow ==
    ASSUME DeviceInv, NEW out, NEW pending \in Seq(Signals), renderer.up, pause(out, pending)
    PROVE  /\ renderer'.up /\ renderer'.uri = renderer.uri
           /\ renderer.state = "Stopped" => renderer'.state = "Stopped"
           /\ MetadataPending(pending) => MetadataPending(signals')
<1>1. CASE Carried(out)
    <2>1. renderer.state = "Playing"
        BY <1>1, CarriedIsDone DEF pause
    <2>2. Announce("Paused", renderer.uri, FALSE, pending, TRUE) /\ "Paused" \in RendererStates
        BY <1>1 DEF pause, RendererStates
    <2> QED BY <2>1, <2>2, AnnouncedNow
<1>2. CASE ~Carried(out)
    BY <1>2 DEF pause, Untouched
<1> QED BY <1>1, <1>2

LEMMA NextNow ==
    ASSUME Healthy, Inv, NowInv, NEW out, NEW pending \in Seq(Signals), next(out, pending),
           playQueuePosition' = playQueuePosition /\ TrackToldAs(currentTrack, signals, playQueuePosition)
             => TrackToldAs(currentTrack', pending, playQueuePosition)
    PROVE  NowInv'
<1>1. PICK increment \in NextIncrements(playqueue, playQueuePosition, m_repeat, m_shuffle) :
        LET new == Target(playqueue, playQueuePosition, increment, m_repeat)
        IN  \/ new # NoTrack /\ SelectTrack(playqueue, new, out, pending)
            \/ /\ new = NoTrack
               /\ connectMediaPlayer(out) /\ pause(out, pending)
               /\ UNCHANGED cursorVars
    BY DEF next
<1> DEFINE new == Target(playqueue, playQueuePosition, increment, m_repeat)
<1>2. /\ playqueue \in Seq(Items) /\ playQueuePosition \in Int
      /\ Len(playqueue) <= MaxQueue /\ playqueue' = playqueue
    BY WidthFacts DEF Inv, QueueInv, CursorInv, next, queueVars
<1>3. CASE new # NoTrack /\ SelectTrack(playqueue, new, out, pending)
    <2>1. new \in 0 .. (Len(playqueue) - 1)
        BY <1>2, <1>3, NextIncrementsType, TargetInQueue
    <2> HIDE DEF new
    <2> QED BY <1>2, <1>3, <2>1, SelectTrackNow
<1>4. CASE pause(out, pending) /\ UNCHANGED cursorVars
    <2>1. DeviceInv /\ renderer.up
        BY DEF Inv, NowInv
    <2>2. /\ renderer'.up /\ renderer'.uri = renderer.uri
          /\ renderer.state = "Stopped" => renderer'.state = "Stopped"
          /\ MetadataPending(pending) => MetadataPending(signals')
        BY <1>4, <2>1, PauseNow
    <2>3. playQueuePosition' = playQueuePosition
        BY <1>4 DEF cursorVars
    <2> QED BY <1>2, <1>4, <2>2, <2>3, QuietNow DEF TrackToldAs
<1> QED BY <1>1, <1>3, <1>4

LEMMA QueueMoveNow ==
    ASSUME Healthy, Inv, NowInv, NEW out,
           previous(out) \/ \E list \in Playlists : openPlaylist(list, out)
    PROVE  NowInv'
<1>1. signals \in Seq(Signals)
    BY DEF Inv, DeviceInv
<1>2. CASE previous(out)
    <2> DEFINE new == Target(playqueue, playQueuePosition, -1, m_repeat)
    <2>1. /\ playqueue \in Seq(Items) /\ playQueuePosition \in Int
          /\ Len(playqueue) <= MaxQueue /\ playqueue' = playqueue /\ currentTrack' = currentTrack
        BY <1>2, WidthFacts DEF Inv, QueueInv, CursorInv, previous, queueVars
    <2>2. CASE new # NoTrack /\ SelectTrack(playqueue, new, out, signals)
        <3>1. new \in 0 .. (Len(playqueue) - 1)
            BY <2>1, <2>2, TargetInQueue
        <3> HIDE DEF new
        <3> QED BY <1>1, <2>1, <2>2, <3>1, SelectTrackNow
    <2>3. CASE UNCHANGED <<cursorVars, deviceVars>>
        <3>1. renderer' = renderer /\ signals' = signals /\ UNCHANGED cursorVars /\ renderer.up
            BY <2>3 DEF deviceVars, NowInv
        <3> QED BY <2>1, <3>1, QuietNow
    <2> QED BY <1>2, <2>2, <2>3 DEF previous
<1>3. ASSUME NEW list \in Playlists, openPlaylist(list, out) PROVE NowInv'
    <2> DEFINE new == Target(list, 0, 0, m_repeat)
    <2>1. list \in Seq(Items) /\ Len(list) <= MaxQueue /\ playqueue' = list
        BY <1>3, PlayerAssumption DEF openPlaylist
    <2>2. CASE new # NoTrack /\ SelectTrack(list, new, out, signals)
        <3>1. new \in 0 .. (Len(list) - 1)
            BY <2>1, <2>2, TargetInQueue
        <3> HIDE DEF new
        <3> QED BY <1>1, <2>1, <2>2, <3>1, SelectTrackNow
    <2>3. CASE playQueuePosition' = 0 /\ emptied' = TRUE /\ UNCHANGED deviceVars
        <3>1. Selected' /\ renderer' = renderer
            BY <2>3, WidthFacts DEF Selected, deviceVars
        <3> QED BY <2>3, <3>1 DEF NowInv
    <2> QED BY <1>3, <2>2, <2>3 DEF openPlaylist
<1> QED BY <1>2, <1>3

LEMMA TransportNow ==
    ASSUME Healthy, Inv, NowInv, NEW out \in Outcomes,
           \/ \E uri \in OpenUris : openUri(uri, out)
           \/ clientPause(out) \/ play(out) \/ playPause(out)
           \/ \E sought \in Outcomes : stop(out, sought)
           \/ touchTransport(out)
    PROVE  NowInv'
<1>1. /\ signals \in Seq(Signals) /\ DeviceInv /\ renderer.up
      /\ ~ \E uri \in OpenUris : openUri(uri, out)
    BY DEF Inv, DeviceInv, NowInv, Healthy
<1>2. playqueue' = playqueue /\ UNCHANGED cursorVars /\ currentTrack' = currentTrack
    BY <1>1 DEF clientPause, play, playPause, stop, touchTransport, queueVars
<1>3. CASE pause(out, signals)
    <2>1. /\ renderer'.up /\ renderer'.uri = renderer.uri
          /\ renderer.state = "Stopped" => renderer'.state = "Stopped"
          /\ MetadataPending(signals) => MetadataPending(signals')
        BY <1>1, <1>3, PauseNow
    <2> QED BY <1>2, <2>1, QuietNow DEF TrackToldAs
<1>4. CASE play(out) \/ playPause(out)
    <2>1. CASE Carried(out)
        <3>1. /\ "Playing" \in RendererStates
              /\ (IF renderer.state = "Playing" THEN "Paused" ELSE "Playing") \in RendererStates
            BY DEF RendererStates
        <3>2. PICK state \in RendererStates : Announce(state, renderer.uri, FALSE, signals, TRUE)
            BY <1>4, <2>1, <3>1 DEF play, playPause
        <3>3. renderer.uri # NoUri
            BY <1>4, <2>1, CarriedIsDone DEF play, playPause
        <3>4. /\ renderer'.up /\ renderer'.uri = renderer.uri
              /\ MetadataPending(signals) => MetadataPending(signals')
            BY <1>1, <3>2, AnnouncedNow
        <3> QED BY <1>2, <3>3, <3>4, QuietNow DEF TrackToldAs
    <2>2. CASE ~Carried(out)
        <3>1. renderer' = renderer /\ signals' = signals
            BY <1>4, <2>2 DEF play, playPause, Untouched
        <3> QED BY <1>1, <1>2, <3>1, QuietNow
    <2> QED BY <2>1, <2>2
<1>5. CASE touchTransport(out)
    <2>1. renderer' = renderer /\ signals' = signals
        BY <1>5 DEF touchTransport
    <2> QED BY <1>1, <1>2, <2>1, QuietNow
<1> QED BY <1>1, <1>3, <1>4, <1>5 DEF clientPause, stop

LEMMA SignalNow ==
    ASSUME Healthy, Inv, NowInv, HandleSignal
    PROVE  NowInv'
<1>1. signals \in Seq(Signals) /\ signals # <<>> /\ Tail(signals) \in Seq(Signals)
    BY DEF HandleSignal, HandleOther, HandleStopped, Inv, DeviceInv
<1>2. ~Head(signals).metadata /\ MetadataPending(signals) => MetadataPending(Tail(signals))
    BY <1>1, MetadataAfterDispatch
<1>3. ASSUME NEW out, HandleStopped(out) PROVE NowInv'
    <2>1. next(out, Tail(signals))
        BY <1>3 DEF HandleStopped
    <2>2. playQueuePosition' = playQueuePosition =>
            IF Head(signals).metadata THEN currentTrack' = playQueuePosition
                                      ELSE currentTrack' = currentTrack
        BY <1>3 DEF HandleStopped
    <2> QED BY <1>1, <1>2, <2>1, <2>2, NextNow DEF TrackToldAs
<1>4. CASE HandleOther
    <2>1. /\ playqueue' = playqueue /\ UNCHANGED cursorVars /\ renderer' = renderer
          /\ signals' = Tail(signals) /\ renderer.up
          /\ currentTrack' = IF Head(signals).metadata THEN playQueuePosition ELSE currentTrack
        BY <1>4 DEF HandleOther, queueVars, NowInv
    <2> QED BY <1>2, <2>1, QuietNow DEF TrackToldAs
<1> QED BY <1>3, <1>4 DEF HandleSignal

LEMMA RendererNow ==
    ASSUME Healthy, Inv, NowInv, RendererStep
    PROVE  NowInv'
<1>1. /\ signals \in Seq(Signals) /\ DeviceInv /\ renderer.up /\ m_signalHandlerId \in BOOLEAN
      /\ renderer \in RendererTypes
    BY DEF Inv, DeviceInv, NowInv
<1>2. CASE ForeignAnnounces
    <2>1. PICK sig \in ForeignSignals :
            /\ signals' = Append(signals, sig)
            /\ renderer' = [renderer EXCEPT !.overheard = @ \/ sig.status = "Playing"]
            /\ playqueue' = playqueue /\ UNCHANGED cursorVars /\ currentTrack' = currentTrack
        BY <1>2 DEF ForeignAnnounces, queueVars
    <2>2. MetadataPending(signals) => MetadataPending(signals')
        BY <1>1, <2>1, MetadataAfterSignal, PlayerAssumption
    <2>3. renderer'.up /\ renderer'.uri = renderer.uri /\ renderer'.state = renderer.state
        BY <1>1, <2>1 DEF RendererTypes
    <2> QED BY <2>1, <2>2, <2>3, QuietNow DEF TrackToldAs
<1>3. SUFFICES ASSUME ~ForeignAnnounces PROVE NowInv'
    BY <1>2
<1>4. PICK state \in RendererStates :
        RendererMoves(state) /\ (renderer.uri = NoUri => renderer.state # "Stopped")
    <2>1. "Stopped" \in RendererStates /\ "Paused" \in RendererStates /\ "Playing" \in RendererStates
        BY DEF RendererStates
    <2> QED BY <1>1, <1>3, <2>1 DEF RendererStep, TrackEnds, OtherControllerPauses,
                OtherControllerPlays, RendererLeaves, RendererReturns, Healthy
<1>5. /\ playqueue' = playqueue /\ UNCHANGED cursorVars /\ currentTrack' = currentTrack
      /\ Announce(state, renderer.uri, FALSE, signals, m_signalHandlerId)
    BY <1>4 DEF RendererMoves, queueVars
<1>6. /\ renderer'.up /\ renderer'.uri = renderer.uri
      /\ MetadataPending(signals) => MetadataPending(signals')
    BY <1>1, <1>5, AnnouncedNow
<1> QED BY <1>4, <1>5, <1>6, QuietNow DEF TrackToldAs

LEMMA NowStep == Healthy /\ Inv /\ NowInv /\ [Next]_vars => NowInv'
<1> SUFFICES ASSUME Healthy, Inv, NowInv, [Next]_vars PROVE NowInv'
    OBVIOUS
<1>1. ASSUME NEW out \in Outcomes, RendererCall(out) PROVE NowInv'
    <2>1. CASE clientNext(out)
        <3>1. signals \in Seq(Signals)
            BY DEF Inv, DeviceInv
        <3> QED BY <2>1, <3>1, NextNow DEF clientNext
    <2> QED BY <1>1, <2>1, QueueMoveNow, TransportNow DEF RendererCall
<1>2. CASE QueueCall
    <2>1. CASE dequeueAll
        BY <2>1 DEF dequeueAll, deviceVars, NowInv, Selected
    <2>2. CASE ~dequeueAll
        <3>1. /\ renderer' = renderer /\ signals' = signals /\ currentTrack' = currentTrack
              /\ UNCHANGED cursorVars /\ renderer.up
              /\ playqueue' = playqueue \/ \E item \in Items : playqueue' = Append(playqueue, item)
            BY <1>2, <2>2 DEF QueueCall, enqueueUri, setRepeat, setShuffle, deviceVars, NowInv
        <3> QED BY <3>1, QuietNow
    <2> QED BY <2>1, <2>2
<1>3. CASE UNCHANGED vars
    BY <1>3 DEF vars, queueVars, cursorVars, deviceVars, NowInv, Selected
<1> QED BY <1>1, <1>2, <1>3, SignalNow, RendererNow DEF Next

LEMMA NowInit == Init => NowInv
BY DEF Init, AwayRenderer, NowInv, Selected

\* Where every item is local, nothing fails and clients open no URI outside
\* the queue, a renderer that plays with no change pending plays the selected
\* entry and CurrentTrack names it, for every queue and any number of pending
\* signals (playerprovider.cpp:224-232, 617-640).
THEOREM NowPlayingCorrect ==
    ASSUME LocalItems = Items, OpenUris = {}, Faults = {}
    PROVE  Spec => []NowPlaying
<1>1. Healthy
    BY DEF Healthy
<1>2. NowInv => NowPlaying
    BY DEF NowInv, NowPlaying, TrackToldAs, MetadataPending
<1>3. Inv /\ NowInv /\ [Next]_vars => NowInv'
    BY <1>1, NowStep
<1>4. Spec => [](Inv /\ NowInv)
    BY <1>3, InitCorrect, StepCorrect, NowInit, PTL DEF Spec
<1> QED BY <1>2, <1>4, PTL

-------------------------------------------------------------------------------
(* The player left alone. *)

LEMMA UnattendedStep == UnattendedNext => Next
<1>1. ClientPrepares => QueueCall \/ (Room /\ \E out \in Outcomes : RendererCall(out))
    BY UnattendedAssumption DEF ClientPrepares, QueueCall, RendererCall, Outcomes
<1>2. ListenOn => RendererStep
    BY DEF ListenOn, RendererStep
<1> QED BY <1>1, <1>2 DEF UnattendedNext, Next

\* A player left alone is a player, down to the fairness of its main loop:
\* every theorem about Spec, and every property TLC finds of it, holds of it.
THEOREM UnattendedIsPlayer == UnattendedSpec => Spec
<1>1. [UnattendedNext]_vars => [Next]_vars
    BY UnattendedStep
<1> QED BY <1>1, PTL DEF UnattendedSpec, Spec

\* A queue that was opened is never emptied again, so its position is inside
\* it; under REPEAT_SINGLE it is the first.
AloneInv == ~emptied /\ RepeatSingleStays

EntryFollows ==
    InOrder /\ playQueuePosition' # playQueuePosition =>
        playQueuePosition' = IF playQueuePosition + 1 = Len(playqueue) THEN 0
                             ELSE playQueuePosition + 1

LEMMA SelectedValue == CursorInv /\ Selected => AsInt(playQueuePosition) = playQueuePosition
BY CursorValue

LEMMA SelectedValueNext ==
    (CursorInv /\ Selected)' => (AsInt(playQueuePosition) = playQueuePosition)'
BY SelectedValue, PTL

\* A track ended: the cursor's one candidate is the same entry or the next one.
LEMMA StopAlone ==
    ASSUME Inv, Inv', Selected => Selected', AloneInv, NEW out, HandleStopped(out)
    PROVE  AloneInv' /\ EntryFollows
<1> DEFINE n == Len(playqueue)
           p == playQueuePosition
<1>1. next(out, Tail(signals)) /\ UNCHANGED <<playqueue, m_repeat, m_shuffle>>
    BY DEF HandleStopped, next, queueVars
<1>2. ~emptied'
    BY <1>1 DEF next, SelectTrack, cursorVars, AloneInv
<1>3. Cursor!Forward
    BY <1>1, ForwardRefined
<1>4. CASE InOrder
    <2>1. Selected /\ Selected' /\ ~m_shuffle
        BY <1>4 DEF InOrder, Opened, Selected
    <2>2. n \in Nat /\ p \in 0 .. (n - 1)
        BY <2>1, WidthFacts DEF Inv, QueueInv, CursorInv, AttributesAgree, AloneInv
    <2>3. AsInt(p) = p /\ AsInt(p') = p'
        BY <2>1, SelectedValue, SelectedValueNext DEF Inv
    <2>4. PICK i \in Cursor!Candidates : Cursor!MoveTo(i)
        BY <1>3 DEF Cursor!Forward
    <2>5. i = IF m_repeat = "REPEAT_SINGLE" THEN p ELSE p + 1
        BY <2>1, <2>3, <2>4 DEF Cursor!Candidates
    <2>6. p' = IF i \in 0 .. (n - 1) THEN i
               ELSE IF i >= n /\ m_repeat = "REPEAT" /\ playqueue # <<>> THEN 0
               ELSE p
        BY <2>3, <2>4 DEF Cursor!MoveTo
    <2>7. EntryFollows
        BY <2>2, <2>5, <2>6 DEF EntryFollows
    <2>8. m_repeat = "REPEAT_SINGLE" => p' = p /\ p = 0
        BY <1>4, <2>2, <2>5, <2>6 DEF AloneInv, RepeatSingleStays
    <2> QED BY <1>1, <1>2, <2>7, <2>8 DEF AloneInv, RepeatSingleStays
<1>5. CASE ~Selected /\ ~m_shuffle
    <2>1. AsInt(p) = -1
        BY <1>5, CursorValue DEF Inv
    <2>2. PICK i \in Cursor!Candidates : Cursor!MoveTo(i)
        BY <1>3 DEF Cursor!Forward
    <2>3. m_repeat = "REPEAT_SINGLE" => AsInt(p') = -1
        <3>1. n \in Nat
            BY DEF Inv, QueueInv
        <3>2. m_repeat = "REPEAT_SINGLE" => i = -1
            BY <1>5, <2>1, <2>2 DEF Cursor!Candidates
        <3> QED BY <2>1, <2>2, <3>1, <3>2 DEF Cursor!MoveTo
    <2>4. Selected' => AsInt(p') # -1
        <3>1. p' \in 0 .. Unset
            BY DEF Inv, CursorInv
        <3>2. Selected' => AsInt(p') = p'
            BY SelectedValueNext DEF Inv
        <3> QED BY <3>1, <3>2
    <2>5. RepeatSingleStays'
        BY <1>1, <2>3, <2>4 DEF RepeatSingleStays, InOrder, Opened, Selected
    <2> QED BY <1>2, <1>5, <2>5 DEF AloneInv, EntryFollows, InOrder, Opened, Selected
<1>6. CASE m_shuffle
    BY <1>1, <1>2, <1>6 DEF AloneInv, RepeatSingleStays, EntryFollows, InOrder
<1> QED BY <1>4, <1>5, <1>6 DEF InOrder, Opened, Selected, Inv, QueueInv

\* The one list the client opens has entries, so its first one is selected.
LEMMA PreparationAlone ==
    ASSUME Inv, Inv', AloneInv, ClientPrepares
    PROVE  AloneInv' /\ EntryFollows
<1>1. EntryFollows
    BY DEF ClientPrepares, EntryFollows, InOrder
<1>2. CASE (\E mode \in RepeatModes : setRepeat(mode)) \/ \E on \in ShuffleChoices : setShuffle(on)
    <2>1. UNCHANGED cursorVars
        BY <1>2 DEF setRepeat, setShuffle
    <2>2. ~Opened' /\ ~emptied'
        BY <2>1 DEF ClientPrepares, Opened, AloneInv, cursorVars
    <2> QED BY <1>1, <2>2 DEF AloneInv, RepeatSingleStays, InOrder
<1>3. ASSUME NEW list \in Playlists \ {<<>>}, openPlaylist(list, "done")
      PROVE  AloneInv'
    <2>1. list \in Seq(Items) /\ Len(list) > 0
        BY PlayerAssumption
    <2>2. Target(list, 0, 0, m_repeat) = 0
        <3>1. 0 \in (-Half) .. (Half - 1)
            BY WidthFacts
        <3>2. AsInt(0) = 0
            BY <3>1, AsIntInRange
        <3>3. 0 \in Int /\ AsInt(0) + 0 \in (-Half) .. (Half - 1)
            BY <3>1, <3>2
        <3>4. Target(list, 0, 0, m_repeat) =
                IF Len(list) - 1 < AsInt(0) + 0
                THEN IF m_repeat = "REPEAT" /\ Len(list) - 1 >= 0 THEN 0 ELSE NoTrack
                ELSE IF AsInt(0) + 0 < 0 THEN NoTrack ELSE AsInt(0) + 0
            BY <2>1, <3>3, TargetAsInt
        <3> QED BY <2>1, <3>2, <3>4
    <2>3. playQueuePosition' = 0 /\ emptied' = FALSE
        BY <1>3, <2>2 DEF openPlaylist, SelectTrack, NoTrack
    <2> QED BY <2>3 DEF AloneInv, RepeatSingleStays
<1> QED BY <1>1, <1>2, <1>3 DEF ClientPrepares

LEMMA AloneStep ==
    ASSUME Inv, AloneInv, [UnattendedNext]_vars
    PROVE  AloneInv' /\ EntryFollows
<1>1. Inv' /\ (Selected => Selected')
    BY UnattendedStep, StepCorrect
<1>2. CASE ClientPrepares
    BY <1>1, <1>2, PreparationAlone
<1>3. CASE \E out \in Outcomes : HandleStopped(out)
    BY <1>1, <1>3, StopAlone
<1>4. CASE UNCHANGED <<queueVars, cursorVars>>
    BY <1>4 DEF queueVars, cursorVars, AloneInv, RepeatSingleStays, EntryFollows, InOrder, Opened
<1>5. HandleOther \/ ListenOn \/ UNCHANGED vars => UNCHANGED <<queueVars, cursorVars>>
    BY DEF HandleOther, ListenOn, TrackEnds, RendererMoves, vars
<1> QED BY <1>2, <1>3, <1>4, <1>5 DEF UnattendedNext, HandleSignal

LEMMA AloneAlways == UnattendedSpec => [](Inv /\ AloneInv)
<1>1. Init => Inv /\ AloneInv
    BY InitCorrect DEF Init, AloneInv, RepeatSingleStays
<1>2. Inv /\ AloneInv /\ [UnattendedNext]_vars => (Inv /\ AloneInv)'
    BY UnattendedStep, StepCorrect, AloneStep
<1> QED BY <1>1, <1>2, PTL DEF UnattendedSpec

\* Out of shuffle a player left alone goes through its queue entry by entry,
\* and after the last one only back to the first, whatever ends or fails on
\* the way (playerprovider.cpp:398-413, 601-617).
THEOREM EntriesCorrect == UnattendedSpec => EntriesInOrder
<1>1. Inv /\ AloneInv /\ [UnattendedNext]_vars => [EntryFollows]_vars
    BY AloneStep
<1> QED BY <1>1, AloneAlways, PTL DEF UnattendedSpec, EntriesInOrder, EntryFollows

\* REPEAT_SINGLE keeps a player left alone at the first entry.
THEOREM SingleStaysCorrect == UnattendedSpec => []RepeatSingleStays
<1>1. AloneInv => RepeatSingleStays
    BY DEF AloneInv
<1> QED BY <1>1, AloneAlways, PTL

-------------------------------------------------------------------------------
(* The player behind its stub. *)

LEMMA StubStep == [StubNext]_stubVars => [Next]_vars
<1>1. ASSUME NEW out \in Outcomes, RendererMethod(out) PROVE Next
    BY <1>1 DEF RendererMethod, RendererCall, Next
<1>2. QueueMethod => [Next]_vars
    BY DEF QueueMethod, QueueCall, Next
<1>3. ASSUME Attribute PROVE Next
    <2>1. CASE \E out \in Outcomes : Room /\ touchTransport(out)
        BY <2>1 DEF RendererCall, Next
    <2> QED BY <1>3, <2>1 DEF Attribute, QueueCall, Next
<1>4. StubHandleSignal \/ RendererStep => Next
    BY DEF StubHandleSignal, Next
<1>5. UNCHANGED stubVars => UNCHANGED vars
    BY DEF stubVars
<1> QED BY <1>1, <1>2, <1>3, <1>4, <1>5 DEF StubNext

\* What clients do through the stub is what Player's clients do: every method
\* and attribute maps to one step of the provider or to none, so its safety
\* theorems hold for the clients of the stub (playerstub.cpp:16-273).
THEOREM StubIsPlayer ==
    StubSpec => /\ Init /\ [][Next]_vars
                /\ [](TypeOK /\ PositionNeverWraps /\ AttributesAgree /\ PausedIsShown)
                /\ CursorRefined
<1>1. StubInit => Init
    BY DEF StubInit
<1>2. Init /\ [][Next]_vars => [](Inv /\ StatusInv)
    BY InitCorrect, StepCorrect, StatusInit, StatusStep, PTL
<1>3. Inv /\ StatusInv => TypeOK /\ PositionNeverWraps /\ AttributesAgree /\ PausedIsShown
    BY DEF Inv, QueueInv, CursorInv, DeviceInv, ShownInv, StatusInv, TypeOK
<1>4. Inv /\ Inv' /\ [Next]_vars => [Cursor!Next]_(Cursor!abstractVars)
    BY CursorStepRefined
<1>5. StubSpec => Init /\ [][Next]_vars
    BY <1>1, StubStep, PTL DEF StubSpec
<1>6. StubSpec => CursorRefined
    BY <1>2, <1>4, <1>5, CursorInitRefined, PTL DEF CursorRefined, Cursor!Spec
<1> QED BY <1>2, <1>3, <1>5, <1>6, PTL
===============================================================================
