------------------------------- MODULE Renderers -------------------------------
(***************************************************************************)
(* Which renderer the player drives and listens to.  Every call discovers  *)
(* the renderers anew and goes to the first of our own (findFirstPlayer,   *)
(* connectMediaPlayer), while the one subscription to PropertiesChanged    *)
(* names no object (registerSignalListener), so that a Stopped of any      *)
(* renderer on the bus moves the play queue.  One handler runs at a time;  *)
(* the queue is fixed, and a renderer's track is an entry of it.           *)
(***************************************************************************)
EXTENDS Discovery, PlayQueue

CONSTANTS
    Queue,          \* the play queue
    MaxStops        \* bound: Stopped signals waiting in the main loop

ASSUME RenderersAssumption ==
    Queue \in Seq(Range(Queue)) /\ Len(Queue) > 0 /\ Len(Queue) < Half /\ MaxStops \in Nat

VARIABLES
    playQueuePosition,
    m_repeat,
    op,             \* the call the handler makes: "open", "pause" or "none"
    subscribed,     \* m_signalHandlerId is set
    device,         \* the renderers: their state, the entry they play, whether we ever drove them
    stops,          \* the renderers whose Stopped signals wait
    missed          \* history: the last change of the position reached no renderer

playerVars == <<playQueuePosition, m_repeat, op, subscribed, missed>>
deviceVars == <<device, stops>>
vars == <<discoveryVars, playerVars, deviceVars>>

Entries == 0 .. (Len(Queue) - 1)

Init ==
    /\ DiscoveryInit
    /\ playQueuePosition = Unset /\ m_repeat \in {"REPEAT", "NO_REPEAT"}
    /\ op = "none" /\ subscribed = FALSE /\ missed = FALSE
    /\ device = [r \in Backends |-> [state |-> "Stopped", entry |-> 0, driven |-> FALSE]]
    /\ stops = <<>>

-------------------------------------------------------------------------------
\* Mutants: the position is stored before it is checked; the end of the queue rewinds it.
StartNextStoresFirst ==
    /\ Discover
    /\ LET new == Target(Queue, playQueuePosition, 1, m_repeat)
       IN  \/ new # NoTrack /\ playQueuePosition' = new /\ op' = "open" /\ missed' = TRUE
           \/ /\ new = NoTrack /\ op' = "pause" /\ UNCHANGED missed
              /\ playQueuePosition' = AsUint64(playQueuePosition + 1)
    /\ UNCHANGED <<m_repeat, subscribed, device>>
StartNextRewinds ==
    /\ Discover
    /\ LET new == Target(Queue, playQueuePosition, 1, m_repeat)
       IN  \/ new # NoTrack /\ playQueuePosition' = new /\ op' = "open" /\ missed' = TRUE
           \/ new = NoTrack /\ op' = "pause" /\ playQueuePosition' = 0 /\ UNCHANGED missed
    /\ UNCHANGED <<m_repeat, subscribed, device>>

\* next(), up to its call on the renderer.
StartNext ==
    /\ Discover
    /\ LET new == Target(Queue, playQueuePosition, 1, m_repeat)
       IN  \/ new # NoTrack /\ playQueuePosition' = new /\ op' = "open" /\ missed' = TRUE
           \/ new = NoTrack /\ op' = "pause" /\ UNCHANGED <<playQueuePosition, missed>>
    /\ UNCHANGED <<m_repeat, subscribed, device>>

clientNext  == StartNext /\ UNCHANGED stops
clientPause == Discover /\ op' = "pause"
               /\ UNCHANGED <<playQueuePosition, m_repeat, subscribed, missed, deviceVars>>

\* A Stopped is answered by next(), whichever renderer it comes from.
HandleStopped == stops # <<>> /\ stops' = Tail(stops) /\ StartNext

DiscoveryStep == (GetObjects \/ AskNext) /\ UNCHANGED <<playerVars, deviceVars>>

\* findFirstPlayer found none: the call is not made.
NoPlayer ==
    /\ Discovered /\ found = <<>> /\ Forget
    /\ op' = "none"
    /\ UNCHANGED <<playQueuePosition, m_repeat, subscribed, missed, deviceVars>>

\* The call goes to the first renderer found.  If that has left meanwhile it
\* fails; a renderer that is not playing refuses to pause; and any call may be
\* refused.  One whose answer is lost was carried out all the same.
CallRenderer ==
    /\ Discovered /\ found # <<>> /\ Forget
    /\ subscribed' = TRUE /\ op' = "none"
    /\ LET r == Head(found)
       IN  \/ /\ r \in present
              /\ device' = [device EXCEPT
                      ![r].driven = TRUE,
                      ![r].state  = IF op = "open" THEN "Playing"
                                    ELSE IF @ = "Playing" THEN "Paused" ELSE @,
                      ![r].entry  = IF op = "open" THEN playQueuePosition ELSE @]
              /\ missed' = (missed /\ op # "open")
           \/ /\ r \in present /\ "call" \in Faults
              /\ device' = [device EXCEPT ![r].driven = TRUE] /\ UNCHANGED missed
           \/ r \notin present /\ UNCHANGED <<device, missed>>
    /\ UNCHANGED <<playQueuePosition, m_repeat, stops>>

-------------------------------------------------------------------------------
(* The renderers on their own. *)

TrackEnds(r) ==
    /\ r \in present /\ device[r].state = "Playing" /\ Len(stops) < MaxStops
    /\ device' = [device EXCEPT ![r].state = "Stopped"]
    /\ stops' = IF subscribed THEN Append(stops, r) ELSE stops
    /\ UNCHANGED <<discoveryVars, playerVars>>

\* Renderers that are not ours are played on by others.
OthersPlay(r) ==
    /\ r \in present \ Own /\ device[r].state # "Playing"
    /\ device' = [device EXCEPT ![r].state = "Playing"]
    /\ UNCHANGED <<discoveryVars, playerVars, stops>>

\* A device that leaves stops without a word.
Leaves(r) ==
    /\ DeviceLeaves(r)
    /\ device' = [device EXCEPT ![r].state = "Stopped"]
    /\ UNCHANGED <<playerVars, stops>>

Comes(r) == DeviceComes(r) /\ UNCHANGED <<playerVars, deviceVars>>

Next ==
    \/ clientNext \/ clientPause \/ HandleStopped
    \/ DiscoveryStep \/ NoPlayer \/ CallRenderer
    \/ \E r \in Backends : TrackEnds(r) \/ OthersPlay(r) \/ Leaves(r) \/ Comes(r)

Spec == Init /\ [][Next]_vars

-------------------------------------------------------------------------------
\* The fields, the devices and the pending signals keep their types.
TypeOK ==
    /\ present \subseteq Backends /\ pc \in {"idle", "list", "ask", "crashed"}
    /\ Range(asking) \cup Range(found) \cup answered \subseteq Backends
    /\ playQueuePosition \in Entries \cup {Unset} /\ op \in {"open", "pause", "none"}
    /\ {subscribed, missed} \subseteq BOOLEAN
    /\ device \in [Backends -> [state : {"Playing", "Paused", "Stopped"}, entry : Entries,
                                driven : BOOLEAN]]
    /\ stops \in Seq(Backends) /\ Len(stops) <= MaxStops

\* A renderer of somebody else is listened to but never driven, not even when
\* devices leave, come or fail to answer while they are being asked
\* (playerprovider.cpp:37-46, common.cpp:274-280).
OnlyOwnDriven == \A r \in Backends : device[r].driven => r \in Own

\* The renderer of our own, if there is one only, plays the selected entry
\* whenever it plays, also when it was the end of a foreign track that moved
\* the queue (playerprovider.cpp:255-266), unless no renderer was found or
\* reached, or it refused, when the entry was selected.
OwnPlaysSelected ==
    pc = "idle" /\ ~missed =>
        \A r \in Own : device[r].state = "Playing" => device[r].entry = playQueuePosition
===============================================================================
