------------------------------ MODULE PlayQueue ------------------------------
(***************************************************************************)
(* The index arithmetic of PlayerProvider (playerprovider.cpp): which      *)
(* entry of the play queue next(), previous() and openPlaylist() select.   *)
(*                                                                         *)
(* playQueuePosition is a uint64_t that starts at UINT64_MAX, the          *)
(* increment is an int, and the sum is truncated to an int.  The widths    *)
(* matter: the first next() relies on UINT64_MAX + 1 wrapping to 0.  They  *)
(* are parameters here, Half = 2^31 and High = 2^32 in the program, so     *)
(* that TLC can use small ones and the proofs hold for all of them.        *)
(***************************************************************************)
EXTENDS Integers, Sequences

CONSTANTS
    Half,       \* half the range of an int
    High        \* ranges of an int in the range of a uint64_t

ASSUME WidthAssumption == Half \in Nat /\ Half > 1 /\ High \in Nat \ {0}

IntMod == 2 * Half
Uint64Mod == High * IntMod

\* Conversion to uint64_t and to int (two's complement).
AsUint64(x) == x % Uint64Mod
AsInt(x) == LET low == x % IntMod
            IN  IF low < Half THEN low ELSE low - IntMod

\* The initial playQueuePosition, UINT64_MAX: no entry was ever selected.
Unset == Uint64Mod - 1

\* Result of a position change that changePlayQueuePosition refuses.
NoTrack == -1

RepeatModes == {"REPEAT", "REPEAT_SINGLE", "NO_REPEAT"}

\* The local variable playQueueSize, which is the size minus one.
playQueueSize(q) == Len(q) - 1

\* GLib's g_random_int_range: the end is exclusive; a range that is not
\* one fails its precondition check, which returns the begin.
RandomRange(begin, end) == IF begin < end THEN begin .. (end - 1) ELSE {begin}

\* Mutant: the random increment is not taken relative to the position.
ShuffleIncrementsAbsolute(q, pos) == RandomRange(1, Len(q))

ShuffleIncrements(q, pos) ==
    RandomRange(AsInt(AsUint64(-pos)), AsInt(AsUint64(playQueueSize(q) - pos)))

\* Mutants: REPEAT_SINGLE is forgotten; the position is advanced twice.
NextIncrementsNoSingle(q, pos, repeat, shuffle) ==
    IF shuffle THEN ShuffleIncrements(q, pos) ELSE {1}
NextIncrementsTwice(q, pos, repeat, shuffle) ==
    IF shuffle THEN ShuffleIncrements(q, pos)
    ELSE IF repeat = "REPEAT_SINGLE" THEN {0}
    ELSE {2}

\* The increments next() may pass on: shuffle overrides REPEAT_SINGLE.
NextIncrements(q, pos, repeat, shuffle) ==
    IF shuffle                     THEN ShuffleIncrements(q, pos)
    ELSE IF repeat = "REPEAT_SINGLE" THEN {0}
    ELSE {1}

\* Mutants: the repeat mode is not asked; the queue is never restarted.
TargetAlwaysWraps(q, pos, increment, repeat) ==
    LET new == AsInt(AsUint64(pos + increment))
    IN  IF playQueueSize(q) < new THEN IF playQueueSize(q) >= 0 THEN 0 ELSE NoTrack
        ELSE IF new < 0 THEN NoTrack ELSE new
TargetNeverWraps(q, pos, increment, repeat) ==
    LET new == AsInt(AsUint64(pos + increment))
    IN  IF playQueueSize(q) < new \/ new < 0 THEN NoTrack ELSE new

\* The position that is accepted for a sum of position and increment, where
\* size is playQueueSize.
Accepted(size, sum, repeat) ==
    IF size < sum THEN IF repeat = "REPEAT" /\ size >= 0 THEN 0 ELSE NoTrack
    ELSE IF sum < 0 THEN NoTrack ELSE sum

\* The position changePlayQueuePosition(increment) moves to, or NoTrack.
Target(q, pos, increment, repeat) ==
    Accepted(playQueueSize(q), AsInt(AsUint64(pos + increment)), repeat)
==============================================================================
