----------------------------- MODULE PlayCursor -----------------------------
(***************************************************************************)
(* What the play queue promises its clients, in plain integers and without *)
(* renderer, signals or attributes: a queue, a cursor into it, and the     *)
(* only ways in which a step may move the cursor.  It is the promise of    *)
(* the comments on next, previous, openPlaylist, enqueueUri, dequeueAll,   *)
(* setRepeat and setShuffle (playerprovider.h:77-176), corrected where the *)
(* program does something else: no step removes one entry, and a shuffled  *)
(* step never selects the last of several entries.                         *)
(***************************************************************************)
EXTENDS Integers, Sequences

CONSTANTS
    Entries,        \* what a queue holds
    Contents        \* the queues that may be opened as a whole

VARIABLES queue, cursor, repeat, shuffle

abstractVars == <<queue, cursor, repeat, shuffle>>

\* No entry selected yet.
None == -1

Modes == {"REPEAT", "REPEAT_SINGLE", "NO_REPEAT"}

Init == queue = <<>> /\ cursor = None /\ repeat = "REPEAT" /\ shuffle = FALSE

\* A shuffled step draws among all entries but the last.
Drawn == IF Len(queue) >= 2 THEN 0 .. (Len(queue) - 2) ELSE {0}

\* The entries a step forward aims at.
Candidates ==
    IF shuffle                       THEN Drawn
    ELSE IF repeat = "REPEAT_SINGLE" THEN {cursor}
    ELSE {cursor + 1}

\* Past the end the cursor wraps under REPEAT; otherwise it stays.
MoveTo(i) ==
    cursor' = IF i \in 0 .. (Len(queue) - 1) THEN i
              ELSE IF i >= Len(queue) /\ repeat = "REPEAT" /\ queue # <<>> THEN 0
              ELSE cursor

Forward  == (\E i \in Candidates : MoveTo(i)) /\ UNCHANGED <<queue, repeat, shuffle>>
Backward == MoveTo(cursor - 1) /\ UNCHANGED <<queue, repeat, shuffle>>
Open     == queue' \in Contents /\ cursor' = 0 /\ UNCHANGED <<repeat, shuffle>>
Extend   == /\ \E entry \in Entries : queue' = Append(queue, entry)
            /\ UNCHANGED <<cursor, repeat, shuffle>>
Empty    == queue' = <<>> /\ UNCHANGED <<cursor, repeat, shuffle>>
SetMode  == repeat' \in Modes /\ shuffle' \in BOOLEAN /\ UNCHANGED <<queue, cursor>>

Next == Forward \/ Backward \/ Open \/ Extend \/ Empty \/ SetMode

Spec == Init /\ [][Next]_abstractVars
==============================================================================
