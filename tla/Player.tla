-------------------------------- MODULE Player --------------------------------
(***************************************************************************)
(* The player component: class PlayerProvider (playerprovider.cpp), the    *)
(* attributes it publishes through its stub, and the renderer it drives    *)
(* over D-Bus (dLeyna renderer, external).                                 *)
(*                                                                         *)
(* Every handler of the provider (a client call, a property change of the  *)
(* renderer) is one atomic step.  What runs between the steps is what the  *)
(* code cannot prevent: the renderer ends tracks on its own, is driven by  *)
(* other controllers, disappears and returns, and its PropertiesChanged    *)
(* signals wait in the main loop while clients keep calling, among those   *)
(* of other renderers, which the player hears as well.                     *)
(***************************************************************************)
EXTENDS PlayQueue, FiniteSets

CONSTANTS
    Items,          \* media items
    LocalItems,     \* those with a file:// URL among their resources
    NoUri,          \* the empty URI
    Playlists,      \* contents of the playlists a client may open
    OpenUris,       \* URIs a client may open outside the play queue
    MaxQueue,       \* bound: length of the play queue
    MaxSignals,     \* bound: property changes waiting in the main loop
    ForeignSignals, \* property changes that other renderers on the bus announce
    Faults          \* what may go wrong, a subset of FaultKinds

FaultKinds == {"unreachable", "refused", "lost", "departure"}

RendererStates == {"Playing", "Paused", "Stopped"}
\* A PropertiesChanged signal carries a changed status, changed metadata, or
\* both.  It does not say which renderer it is from, and the subscription
\* names none (playerprovider.cpp:260-261).
Signals == [status : RendererStates \cup {"Unchanged"}, metadata : BOOLEAN]

ASSUME PlayerAssumption ==
    /\ LocalItems \subseteq Items
    /\ NoUri \notin Items \cup OpenUris
    /\ MaxQueue \in Nat \ {0} /\ MaxQueue < Half
    /\ Playlists \subseteq Seq(Items)
    /\ \A list \in Playlists : Len(list) <= MaxQueue
    /\ MaxSignals \in Nat
    /\ ForeignSignals \subseteq Signals
    /\ Faults \subseteq FaultKinds

VARIABLES
    playqueue,          \* a NULL play queue acts as an empty one
    playQueuePosition,
    m_repeat,
    m_shuffle,
    m_signalHandlerId,  \* TRUE once the property changes are subscribed to
    playbackStatus,     \* published attributes
    currentTrack,
    canGoNext,
    canGoPrevious,
    renderer,           \* the first renderer on the bus
    signals,            \* property changes, its own and others', not yet dispatched
    emptied             \* history: the play queue was emptied since a track was last selected

queueVars  == <<playqueue, m_repeat, m_shuffle>>
cursorVars == <<playQueuePosition, canGoNext, canGoPrevious, emptied>>
deviceVars == <<m_signalHandlerId, renderer, signals>>
vars == <<queueVars, cursorVars, deviceVars, playbackStatus, currentTrack>>

Uris == Items \cup OpenUris \cup {NoUri}
\* overheard is a history: another renderer announced "Playing" since this one
\* last changed its state.
RendererTypes == [up : BOOLEAN, state : RendererStates, uri : Uris, overheard : BOOLEAN]
AwayRenderer == [up |-> FALSE, state |-> "Stopped", uri |-> NoUri, overheard |-> FALSE]

\* Outcomes of a synchronous call on the renderer: connectMediaPlayer fails,
\* the call returns a GError, it is carried out but its reply comes too late
\* (a GError again), or it is carried out and answered.
Outcomes == {"unreachable", "refused", "lost", "done"}
Carried(out) == out \in {"lost", "done"}

Init ==
    /\ playqueue = <<>> /\ playQueuePosition = Unset
    /\ m_repeat = "REPEAT" /\ m_shuffle = FALSE
    /\ m_signalHandlerId = FALSE
    /\ playbackStatus = "PAUSED" /\ currentTrack = Unset
    /\ canGoNext = FALSE /\ canGoPrevious = FALSE
    /\ renderer = [AwayRenderer EXCEPT !.up = TRUE]
    /\ signals = <<>> /\ emptied = FALSE

-------------------------------------------------------------------------------
(* The renderer's side of a call. *)

\* The outcomes of a call that the renderer, if reached, can carry out or not.
Answers(able) ==
    (IF ~renderer.up THEN {"unreachable", "refused"}
     ELSE IF able    THEN {"done"} \cup (Faults \cap {"lost"})
     ELSE                 {"refused"})
    \cup (Faults \cap {"unreachable", "refused"})

\* Some renderers reject an empty URI, the others stop.
OpenAnswers(uri) ==
    Answers(TRUE) \cup (IF uri = NoUri THEN Answers(FALSE) ELSE {})

\* The renderer moves to a state and announces what changed to a subscriber.
Announce(state, uri, metadata, pending, subscribed) ==
    /\ renderer' = [renderer EXCEPT !.state = state, !.uri = uri,
                                    !.overheard = @ /\ state = renderer.state]
    /\ signals' =
         IF subscribed /\ (metadata \/ state # renderer.state)
         THEN Append(pending,
                     [status |-> IF state = renderer.state THEN "Unchanged" ELSE state,
                      metadata |-> metadata])
         ELSE pending

Untouched(pending) == UNCHANGED renderer /\ signals' = pending

-------------------------------------------------------------------------------
(* The handlers.  Each takes the outcome of its call on the renderer and   *)
(* the signals still pending when it makes the call.                       *)

\* Reaching the renderer subscribes to its property changes, once.
connectMediaPlayer(out) ==
    m_signalHandlerId' = (m_signalHandlerId \/ out # "unreachable")

openURI(uri, out, pending) ==
    /\ out \in OpenAnswers(uri)
    /\ connectMediaPlayer(out)
    /\ \/ /\ Carried(out)
          /\ Announce(IF uri = NoUri THEN "Stopped" ELSE "Playing", uri, TRUE, pending, TRUE)
       \/ ~Carried(out) /\ Untouched(pending)

\* Mutant: an error of the call goes unnoticed.
pauseShowsNothing(out, pending) ==
    /\ out \in Answers(renderer.state = "Playing")
    /\ \/ Carried(out) /\ Announce("Paused", renderer.uri, FALSE, pending, TRUE)
       \/ ~Carried(out) /\ Untouched(pending)
    /\ UNCHANGED playbackStatus

\* Only a playing renderer can pause.  When it reports an error the client
\* is shown PAUSED all the same.
pause(out, pending) ==
    /\ out \in Answers(renderer.state = "Playing")
    /\ \/ /\ Carried(out)
          /\ Announce("Paused", renderer.uri, FALSE, pending, TRUE)
       \/ ~Carried(out) /\ Untouched(pending)
    /\ playbackStatus' = IF out \in {"refused", "lost"} THEN "PAUSED" ELSE playbackStatus

play(out) ==
    /\ out \in Answers(renderer.uri # NoUri)
    /\ connectMediaPlayer(out)
    /\ \/ /\ Carried(out)
          /\ Announce("Playing", renderer.uri, FALSE, signals, TRUE)
       \/ ~Carried(out) /\ Untouched(signals)
    /\ UNCHANGED <<queueVars, cursorVars, playbackStatus, currentTrack>>

playPause(out) ==
    /\ out \in Answers(renderer.uri # NoUri)
    /\ connectMediaPlayer(out)
    /\ \/ /\ Carried(out)
          /\ Announce(IF renderer.state = "Playing" THEN "Paused" ELSE "Playing",
                      renderer.uri, FALSE, signals, TRUE)
       \/ ~Carried(out) /\ Untouched(signals)
    /\ UNCHANGED <<queueVars, cursorVars, playbackStatus, currentTrack>>

\* An item without a file:// URL is opened as the empty URI.
getLocalURL(item) == IF item \in LocalItems THEN item ELSE NoUri

\* Mutant: CanGoNext takes playQueueSize for the size it is not.
SelectTrackOffByOne(queue, new, out, pending) ==
    /\ playQueuePosition' = new
    /\ canGoNext' = (playQueueSize(queue) >= new)
    /\ canGoPrevious' = (new - 1 >= 0)
    /\ emptied' = FALSE
    /\ openURI(getLocalURL(queue[new + 1]), out, pending)
    /\ UNCHANGED playbackStatus

\* changePlayQueuePosition once the new position is accepted.  The position
\* and the attributes change before the renderer is asked, and stay changed
\* when it fails.
SelectTrack(queue, new, out, pending) ==
    /\ playQueuePosition' = new
    /\ canGoNext' = (playQueueSize(queue) >= new + 1)
    /\ canGoPrevious' = (new - 1 >= 0)
    /\ emptied' = FALSE
    /\ openURI(getLocalURL(queue[new + 1]), out, pending)
    /\ UNCHANGED playbackStatus

\* Mutants: the sum is stored before it is checked; a refused change is ignored.
nextStoresFirst(out, pending) ==
    /\ \E increment \in NextIncrements(playqueue, playQueuePosition, m_repeat, m_shuffle) :
          LET new == Target(playqueue, playQueuePosition, increment, m_repeat)
          IN  \/ new # NoTrack /\ SelectTrack(playqueue, new, out, pending)
              \/ /\ new = NoTrack
                 /\ connectMediaPlayer(out) /\ pause(out, pending)
                 /\ playQueuePosition' = AsUint64(playQueuePosition + increment)
                 /\ UNCHANGED <<canGoNext, canGoPrevious, emptied>>
    /\ UNCHANGED queueVars
nextNeverPauses(out, pending) ==
    /\ \E increment \in NextIncrements(playqueue, playQueuePosition, m_repeat, m_shuffle) :
          LET new == Target(playqueue, playQueuePosition, increment, m_repeat)
          IN  \/ new # NoTrack /\ SelectTrack(playqueue, new, out, pending)
              \/ /\ new = NoTrack /\ signals' = pending
                 /\ UNCHANGED <<cursorVars, m_signalHandlerId, renderer, playbackStatus>>
    /\ UNCHANGED queueVars

\* next(): pauses when the position cannot be changed.  previous() and
\* openPlaylist() then make no call on the renderer, so nothing can fail.
next(out, pending) ==
    /\ \E increment \in NextIncrements(playqueue, playQueuePosition, m_repeat, m_shuffle) :
          LET new == Target(playqueue, playQueuePosition, increment, m_repeat)
          IN  \/ new # NoTrack /\ SelectTrack(playqueue, new, out, pending)
              \/ /\ new = NoTrack
                 /\ connectMediaPlayer(out) /\ pause(out, pending)
                 /\ UNCHANGED cursorVars
    /\ UNCHANGED queueVars

\* Mutant: the new track is not opened.
previousNotOpened(out) ==
    /\ LET new == Target(playqueue, playQueuePosition, -1, m_repeat)
       IN  \/ /\ new # NoTrack /\ playQueuePosition' = new
              /\ canGoNext' = (playQueueSize(playqueue) >= new + 1)
              /\ canGoPrevious' = (new - 1 >= 0) /\ emptied' = FALSE
           \/ new = NoTrack /\ UNCHANGED cursorVars
    /\ UNCHANGED <<queueVars, deviceVars, playbackStatus, currentTrack>>

previous(out) ==
    /\ LET new == Target(playqueue, playQueuePosition, -1, m_repeat)
       IN  \/ new # NoTrack /\ SelectTrack(playqueue, new, out, signals)
           \/ /\ new = NoTrack /\ out = "done"
              /\ UNCHANGED <<cursorVars, deviceVars, playbackStatus>>
    /\ UNCHANGED <<queueVars, currentTrack>>

openUri(uri, out) ==
    /\ openURI(uri, out, signals)
    /\ UNCHANGED <<queueVars, cursorVars, playbackStatus, currentTrack>>

\* openPlaylist, once the container was listed (before that nothing changes).
\* An empty list replaces the queue and resets the position, and the
\* position change is then refused: nothing is stopped, no attribute changes.
openPlaylist(list, out) ==
    /\ playqueue' = list
    /\ LET new == Target(list, 0, 0, m_repeat)
       IN  \/ new # NoTrack /\ SelectTrack(list, new, out, signals)
           \/ /\ new = NoTrack /\ out = "done"
              /\ playQueuePosition' = 0 /\ emptied' = TRUE
              /\ UNCHANGED <<canGoNext, canGoPrevious, deviceVars, playbackStatus>>
    /\ UNCHANGED <<m_repeat, m_shuffle, currentTrack>>

\* stop(): pause, then a relative seek by 0; each call has its own outcome.
stop(out, sought) ==
    /\ pause(out, signals)
    /\ sought \in Answers(renderer.uri # NoUri)
    /\ m_signalHandlerId' =
         (m_signalHandlerId \/ out # "unreachable" \/ sought # "unreachable")
    /\ UNCHANGED <<queueVars, cursorVars, currentTrack>>

\* seek, setPosition, setRate, getPosition and getDuration: of the state kept
\* here they change the subscription only.
touchTransport(out) ==
    /\ out \in Answers(renderer.uri # NoUri)
    /\ connectMediaPlayer(out)
    /\ UNCHANGED <<queueVars, cursorVars, renderer, signals, playbackStatus, currentTrack>>

\* enqueueUri, when the item is among the first 100 of its parent container
\* (otherwise nothing changes).  No attribute follows the longer queue.
enqueueUri(item) ==
    /\ Len(playqueue) < MaxQueue
    /\ playqueue' = Append(playqueue, item)
    /\ UNCHANGED <<m_repeat, m_shuffle, cursorVars, deviceVars, playbackStatus, currentTrack>>

\* Mutants: the position is reset to -1, or to its initial value.
dequeueAllToMinusOne ==
    /\ playqueue' = <<>> /\ emptied' = TRUE /\ playQueuePosition' = -1
    /\ UNCHANGED <<m_repeat, m_shuffle, canGoNext, canGoPrevious>>
    /\ UNCHANGED <<deviceVars, playbackStatus, currentTrack>>
dequeueAllToUnset ==
    /\ playqueue' = <<>> /\ emptied' = TRUE /\ playQueuePosition' = Unset
    /\ UNCHANGED <<m_repeat, m_shuffle, canGoNext, canGoPrevious>>
    /\ UNCHANGED <<deviceVars, playbackStatus, currentTrack>>

\* dequeueAll clears the queue and leaves position and attributes alone.
dequeueAll ==
    /\ playqueue' = <<>> /\ emptied' = TRUE
    /\ UNCHANGED <<m_repeat, m_shuffle, playQueuePosition, canGoNext, canGoPrevious>>
    /\ UNCHANGED <<deviceVars, playbackStatus, currentTrack>>

setRepeat(mode) ==
    /\ m_repeat' = mode
    /\ UNCHANGED <<playqueue, m_shuffle, cursorVars, deviceVars, playbackStatus, currentTrack>>

setShuffle(on) ==
    /\ m_shuffle' = on
    /\ UNCHANGED <<playqueue, m_repeat, cursorVars, deviceVars, playbackStatus, currentTrack>>

\* The main loop dispatches one PropertiesChanged signal.  "Stopped" is taken
\* for the end of the track, whatever stopped.  The keys of the signal come in
\* any order, so Metadata may publish the position before or after the move.
HandleStopped(out) ==
    /\ signals # <<>> /\ Head(signals).status = "Stopped"
    /\ next(out, Tail(signals))
    /\ currentTrack' \in IF Head(signals).metadata
                         THEN {playQueuePosition, playQueuePosition'}
                         ELSE {currentTrack}

\* Mutant: "Paused" is an unhandled playback state.
HandleOtherNoPaused ==
    /\ signals # <<>> /\ Head(signals).status # "Stopped"
    /\ signals' = Tail(signals)
    /\ playbackStatus' = IF Head(signals).status = "Playing" THEN "PLAYING" ELSE playbackStatus
    /\ currentTrack' = IF Head(signals).metadata THEN playQueuePosition ELSE currentTrack
    /\ UNCHANGED <<queueVars, cursorVars, m_signalHandlerId, renderer>>

HandleOther ==
    /\ signals # <<>> /\ Head(signals).status # "Stopped"
    /\ signals' = Tail(signals)
    /\ playbackStatus' = CASE Head(signals).status = "Playing" -> "PLAYING"
                           [] Head(signals).status = "Paused"  -> "PAUSED"
                           [] OTHER                            -> playbackStatus
    /\ currentTrack' = IF Head(signals).metadata THEN playQueuePosition ELSE currentTrack
    /\ UNCHANGED <<queueVars, cursorVars, m_signalHandlerId, renderer>>

-------------------------------------------------------------------------------
(* The renderer on its own. *)

RendererMoves(state) ==
    /\ renderer.up
    /\ Announce(state, renderer.uri, FALSE, signals, m_signalHandlerId)
    /\ UNCHANGED <<queueVars, cursorVars, m_signalHandlerId, playbackStatus, currentTrack>>

TrackEnds            == renderer.state = "Playing" /\ RendererMoves("Stopped")
OtherControllerPauses == renderer.state = "Playing" /\ RendererMoves("Paused")
OtherControllerPlays ==
    renderer.state # "Playing" /\ renderer.uri # NoUri /\ RendererMoves("Playing")

\* The device leaves the network and comes back without a track.
RendererLeaves ==
    /\ "departure" \in Faults /\ renderer.up
    /\ renderer' = AwayRenderer
    /\ UNCHANGED <<queueVars, cursorVars, m_signalHandlerId, signals, playbackStatus, currentTrack>>

RendererReturns ==
    /\ ~renderer.up
    /\ renderer' = [renderer EXCEPT !.up = TRUE]
    /\ UNCHANGED <<queueVars, cursorVars, m_signalHandlerId, signals, playbackStatus, currentTrack>>

\* Another renderer on the bus announces a change: a subscriber hears it as if
\* it were the change of the one it drives.
ForeignAnnounces ==
    \E sig \in ForeignSignals :
        /\ m_signalHandlerId
        /\ signals' = Append(signals, sig)
        /\ renderer' = [renderer EXCEPT !.overheard = @ \/ sig.status = "Playing"]
        /\ UNCHANGED <<queueVars, cursorVars, m_signalHandlerId, playbackStatus, currentTrack>>

-------------------------------------------------------------------------------
\* A call on the renderer may announce one more change.
Room == Len(signals) < MaxSignals

clientNext(out) == next(out, signals) /\ UNCHANGED currentTrack
clientPause(out) ==
    /\ pause(out, signals) /\ connectMediaPlayer(out)
    /\ UNCHANGED <<queueVars, cursorVars, currentTrack>>

RendererCall(out) ==
    \/ clientNext(out)
    \/ previous(out)
    \/ \E uri \in OpenUris : openUri(uri, out)
    \/ \E list \in Playlists : openPlaylist(list, out)
    \/ clientPause(out)
    \/ play(out)
    \/ playPause(out)
    \/ \E sought \in Outcomes : stop(out, sought)
    \/ touchTransport(out)

QueueCall ==
    \/ \E item \in Items : enqueueUri(item)
    \/ dequeueAll
    \/ \E mode \in RepeatModes : setRepeat(mode)
    \/ \E on \in BOOLEAN : setShuffle(on)

HandleSignal == HandleOther \/ \E out \in Outcomes : HandleStopped(out)

RendererStep ==
    \/ Room /\ (TrackEnds \/ OtherControllerPauses \/ OtherControllerPlays)
    \/ Room /\ ForeignAnnounces
    \/ RendererLeaves
    \/ RendererReturns

Next ==
    \/ Room /\ \E out \in Outcomes : RendererCall(out)
    \/ QueueCall
    \/ HandleSignal
    \/ RendererStep

\* The main loop runs for as long as the process does (main.cpp:105), so a
\* signal that was received is dispatched.  Nothing else is promised.
Spec == Init /\ [][Next]_vars /\ WF_vars(HandleSignal)

-------------------------------------------------------------------------------
\* The fields of the provider, its published attributes, and the renderer with
\* its pending signals keep their types; the position keeps its width.
TypeOK ==
    /\ playqueue \in Seq(Items)
    /\ playQueuePosition \in 0 .. Unset
    /\ m_repeat \in RepeatModes /\ m_shuffle \in BOOLEAN
    /\ m_signalHandlerId \in BOOLEAN
    /\ playbackStatus \in {"PLAYING", "PAUSED"}
    /\ currentTrack \in 0 .. Unset
    /\ canGoNext \in BOOLEAN /\ canGoPrevious \in BOOLEAN
    /\ renderer \in RendererTypes
    /\ signals \in Seq(Signals)
    /\ emptied \in BOOLEAN

-------------------------------------------------------------------------------
(* Safety. *)

\* Once a track was selected, playQueuePosition is never again the initial
\* UINT64_MAX or another huge value: the int arithmetic of
\* changePlayQueuePosition (playerprovider.cpp:599-617) stores no negative sum.
PositionNeverWraps == playQueuePosition = Unset \/ playQueuePosition < MaxQueue

Selected == playQueuePosition # Unset

\* The attributes a client steers by agree with the queue and the position
\* (playerprovider.cpp:617-620) until the queue is emptied behind their back:
\* CanGoNext only if there is a next entry, CanGoPrevious exactly if there is
\* a previous one.
AttributesAgree ==
    ~emptied => /\ Selected => playQueuePosition < Len(playqueue)
                /\ canGoNext => Selected /\ playQueuePosition + 1 < Len(playqueue)
                /\ canGoPrevious <=> (Selected /\ playQueuePosition > 0)

\* Once a track was selected one stays selected, whatever is opened, emptied
\* or refused afterwards.
PositionNeverUnset == [][Selected => Selected']_vars

\* A renderer that plays on with no change pending plays the selected entry,
\* and CurrentTrack names it.  Holds while every item is local, nothing fails
\* and clients open no URI outside the queue.
NowPlaying ==
    (renderer.state = "Playing" /\ signals = <<>> /\ ~emptied) =>
        /\ Selected
        /\ renderer.uri = playqueue[playQueuePosition + 1]
        /\ currentTrack = playQueuePosition

\* PAUSED is the last status a client was told or, once the pending signals
\* are dispatched, will have been told.
ShowsPaused(pending, shown) ==
    \E i \in 0 .. Len(pending) :
        /\ IF i = 0 THEN shown = "PAUSED" ELSE pending[i].status = "Paused"
        /\ \A k \in (i + 1) .. Len(pending) : pending[k].status # "Playing"

\* A renderer paused by anyone, while connected, is shown as PAUSED once the
\* pending property changes are dispatched (playerprovider.cpp:219-226).  One
\* thing makes the player show PLAYING for it: the "Playing" of a renderer it
\* does not drive, whose signal it takes for its own (260-261).
PausedIsShown ==
    renderer.up /\ renderer.state = "Paused" /\ ~renderer.overheard =>
        ShowsPaused(signals, playbackStatus)

(* Liveness. *)

\* If the renderer stays paused and no other one is announced as playing, the
\* client is eventually shown PAUSED for good.
PausedIsShownForGood ==
    <>[](renderer.state = "Paused" /\ ~renderer.overheard) => <>[](playbackStatus = "PAUSED")

StopPending == \E i \in DOMAIN signals : signals[i].status = "Stopped"

\* The end of a track never leaves the player silent and shown as PLAYING: the
\* next entry is started, or the client is shown PAUSED
\* (playerprovider.cpp:224-225, 410-412, 73-75).
StopIsAnswered ==
    StopPending ~> (renderer.state = "Playing" \/ playbackStatus = "PAUSED")

(* A statement of the documentation that the player does not keep. *)

\* setRepeat (playerprovider.h:108-111) lets playback continue with the first
\* item "when the last item has finished playing": a Stopped signal that wraps
\* from the last entry never finds the renderer playing it.
AtLast == Len(playqueue) > 1 /\ playQueuePosition = Len(playqueue) - 1

WrapsAfterLastFinished ==
    [][HandleSignal /\ AtLast /\ ~m_shuffle /\ playQueuePosition' = 0 =>
         renderer.state # "Playing"]_vars

(* Refinement. *)

\* The queue and its position, as an int, behave as the play cursor clients
\* are promised.
Cursor == INSTANCE PlayCursor WITH
    Entries <- Items, Contents <- Playlists,
    queue <- playqueue, cursor <- AsInt(playQueuePosition),
    repeat <- m_repeat, shuffle <- m_shuffle

CursorRefined == Cursor!Spec

===============================================================================
