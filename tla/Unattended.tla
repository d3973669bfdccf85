------------------------------ MODULE Unattended ------------------------------
(***************************************************************************)
(* A client sets the modes, opens one playlist and leaves: from then on    *)
(* only the renderer's signals drive the player.  This is the behaviour    *)
(* the comments on setRepeat and next promise (playerprovider.h:85-114):   *)
(* a healthy renderer plays the queue entry by entry, wraps under REPEAT,  *)
(* and ends in PAUSED otherwise.                                           *)
(***************************************************************************)
EXTENDS Player

CONSTANT ShuffleChoices     \* the shuffle settings the client chooses from

ASSUME UnattendedAssumption == ShuffleChoices \subseteq BOOLEAN

Opened == playQueuePosition # Unset

ClientPrepares ==
    /\ ~Opened
    /\ \/ \E mode \in RepeatModes : setRepeat(mode)
       \/ \E on \in ShuffleChoices : setShuffle(on)
       \/ Room /\ \E list \in Playlists \ {<<>>} : openPlaylist(list, "done")

ListenOn == Room /\ TrackEnds

UnattendedNext == ClientPrepares \/ HandleSignal \/ ListenOn

\* Every track ends (an assumption on the media); the client's preparations
\* are not fair, it may never open anything.
UnattendedSpec ==
    /\ Init /\ [][UnattendedNext]_vars
    /\ WF_vars(HandleSignal) /\ WF_vars(ListenOn)

-------------------------------------------------------------------------------
InOrder == Opened /\ ~m_shuffle

PlaysEntry(i) == playQueuePosition = i - 1 /\ renderer.state = "Playing" /\ renderer.uri = playqueue[i]

\* Under REPEAT every entry of the queue is played again and again.
RepeatPlaysAll ==
    \A i \in 1 .. MaxQueue :
        (InOrder /\ m_repeat = "REPEAT" /\ i <= Len(playqueue)) ~> PlaysEntry(i)

\* Under REPEAT_SINGLE no entry but the first is ever selected
\* (playerprovider.cpp:398-402) ...
RepeatSingleStays == InOrder /\ m_repeat = "REPEAT_SINGLE" => playQueuePosition = 0

\* ... and it is played again whenever it ended.
RepeatSingleReplays ==
    (InOrder /\ m_repeat = "REPEAT_SINGLE" /\ StopPending) ~> PlaysEntry(1)

\* Without repeat every entry up to the last is played, and then the player
\* stays at the last one, stopped and shown as PAUSED.
QueueEnds ==
    (InOrder /\ m_repeat = "NO_REPEAT") ~>
        [](playQueuePosition = Len(playqueue) - 1
           /\ renderer.state = "Stopped" /\ playbackStatus = "PAUSED")

\* No entry is skipped or repeated on the way.
EntriesInOrder ==
    [][InOrder /\ playQueuePosition' # playQueuePosition =>
         playQueuePosition' = IF playQueuePosition + 1 = Len(playqueue) THEN 0
                              ELSE playQueuePosition + 1]_vars

\* Shuffled playback never settles: a stop is answered by another track, even
\* without repeat, so the queue never ends.
ShuffleNeverEnds ==
    (Opened /\ m_shuffle) ~> [](renderer.state = "Stopped" => StopPending)
===============================================================================
