----------------------------- MODULE TrackPosition -----------------------------
(***************************************************************************)
(* The position within a track: seek, setPosition, getPosition,            *)
(* getDuration and stop of PlayerProvider (playerprovider.cpp 442-515)     *)
(* with the stub's methods and attributes on top of them.                  *)
(*                                                                         *)
(* The renderer (external) only seeks by a difference, so setPosition      *)
(* reads the position, subtracts, connects anew and seeks: the track plays *)
(* on, or changes, in between.  The numbers are a uint64_t and a gint64;   *)
(* their width is the constant Half, 2^63 in the program.                  *)
(***************************************************************************)
EXTENDS Integers

CONSTANTS
    Half,           \* half the range of a 64-bit number
    Tracks,
    Duration        \* length of each track

ASSUME PositionAssumption ==
    /\ Half \in Nat /\ Half > 1
    /\ Duration \in [Tracks -> 1 .. (Half - 1)]

VARIABLES
    track,          \* what the renderer has loaded
    position,       \* where it is in the track
    playing,
    call,           \* the setPosition or stop under way
    shown           \* the last Position and Duration clients got, and of which track

vars == <<track, position, playing, call, shown>>

AsUint64(x) == x % (2 * Half)
AsInt64(x) == LET low == x % (2 * Half) IN IF low < Half THEN low ELSE low - 2 * Half

NoTrack == "no track"
Length == IF track = NoTrack THEN 0 ELSE Duration[track]

\* pos: the position asked for; read: the renderer's as it was read; elapsed:
\* time played since, in the same track; same: the track has not changed since.
NoCall == [pc |-> "idle", pos |-> 0, read |-> 0, elapsed |-> 0, same |-> TRUE]

NothingShown == [position |-> 0, positionOf |-> NoTrack, duration |-> 0, durationOf |-> NoTrack]

Init ==
    /\ track = NoTrack /\ position = 0 /\ playing = FALSE
    /\ call = NoCall /\ shown = NothingShown

-------------------------------------------------------------------------------
(* The renderer. *)

\* The Position property; some renderers report -1 without a track.
ReportedPositions == IF track = NoTrack THEN {-1, 0} ELSE {position}

\* Where a seek by offset leads: to the start at the least, and beyond the end
\* nowhere or to the end.
SeekTargets(offset) ==
    IF position + offset < 0           THEN {0}
    ELSE IF position + offset > Length THEN {position, Length}
    ELSE {position + offset}

Plays ==
    /\ playing /\ position < Length
    /\ position' = position + 1
    /\ call' = IF ~call.same \/ call.pc = "idle" THEN call ELSE [call EXCEPT !.elapsed = @ + 1]
    /\ UNCHANGED <<track, playing, shown>>

\* The track ends, or another one is opened by anyone.
Changes ==
    /\ track' \in Tracks \cup {NoTrack} /\ position' = 0 /\ playing' = (track' # NoTrack)
    /\ call' = IF call.pc = "idle" THEN call ELSE [call EXCEPT !.same = FALSE, !.elapsed = 0]
    /\ UNCHANGED shown

Resumes == track # NoTrack /\ ~playing /\ playing' = TRUE /\ UNCHANGED <<track, position, call, shown>>

-------------------------------------------------------------------------------
(* The provider and its stub. *)

Idle == call.pc = "idle"

\* A client's seek: its int64_t becomes a uint64_t and that a gint64.
seek(pos) ==
    /\ Idle
    /\ position' \in SeekTargets(AsInt64(AsUint64(pos)))
    /\ UNCHANGED <<track, playing, call, shown>>

\* setPosition, up to the position it reads with the first proxy.
setPosition(pos) ==
    /\ Idle
    /\ \E read \in ReportedPositions :
          call' = [NoCall EXCEPT !.pc = "seek", !.pos = pos, !.read = read]
    /\ UNCHANGED <<track, position, playing, shown>>

\* Mutants: the position is taken for a difference; the difference is taken the wrong way round.
offsetAbsolute(pos, read) == AsInt64(pos)
offsetReversed(pos, read) == AsInt64(AsUint64(read - pos))
\* The argument of seek, a uint64_t, as the gint64 it is passed on as.
offset(pos, read) == AsInt64(AsUint64(pos - read))

\* ... and its seek, through a second proxy.
setPositionSeeks ==
    /\ call.pc = "seek"
    /\ position' \in SeekTargets(offset(call.pos, call.read))
    /\ call' = NoCall
    /\ UNCHANGED <<track, playing, shown>>

\* Either proxy cannot be made, or the renderer refuses.
CallFails == ~Idle /\ call' = NoCall /\ UNCHANGED <<track, position, playing, shown>>

\* stop: pause, obeyed or not, then a seek by 0.
stop ==
    /\ Idle /\ playing' \in {FALSE, playing}
    /\ call' = [NoCall EXCEPT !.pc = "stop", !.read = position]
    /\ UNCHANGED <<track, position, shown>>

stopSeeks ==
    /\ call.pc = "stop"
    /\ position' \in SeekTargets(0) /\ call' = NoCall
    /\ UNCHANGED <<track, playing, shown>>

\* Mutants: a negative position becomes a huge one; it is passed on as it is.
positionAnswerUnchecked(reported) == AsUint64(reported)
positionAnswerSigned(reported) == reported
positionAnswer(reported) == IF reported >= 0 THEN reported ELSE 0

\* 0 is also the answer when the renderer cannot be reached.
getPosition ==
    /\ Idle
    /\ \E reported \in ReportedPositions :
          shown' \in {[shown EXCEPT !.position = positionAnswer(reported), !.positionOf = track],
                      [shown EXCEPT !.position = 0, !.positionOf = NoTrack]}
    /\ UNCHANGED <<track, position, playing, call>>

\* mpris:length of the metadata, 0 where there is none.
getDuration ==
    /\ Idle
    /\ shown' \in {[shown EXCEPT !.duration = Length, !.durationOf = track],
                   [shown EXCEPT !.duration = 0, !.durationOf = NoTrack]}
    /\ UNCHANGED <<track, position, playing, call>>

Uint64 == 0 .. (2 * Half - 1)
Int64  == -Half .. (Half - 1)

Next ==
    \/ Plays \/ Changes \/ Resumes
    \/ \E pos \in Int64 : seek(pos)
    \/ \E pos \in Uint64 : setPosition(pos)
    \/ setPositionSeeks \/ CallFails \/ stop \/ stopSeeks
    \/ getPosition \/ getDuration

Spec == Init /\ [][Next]_vars

-------------------------------------------------------------------------------
\* The renderer stays within its track; the numbers keep their width.
TypeOK ==
    /\ track \in Tracks \cup {NoTrack} /\ position \in 0 .. Length /\ playing \in BOOLEAN
    /\ call.pc \in {"idle", "seek", "stop"} /\ call.pos \in Uint64 /\ call.read \in -1 .. (Half - 1)
    /\ shown.position \in Uint64 /\ shown.duration \in Uint64

\* A position within the track that is set while the track stays the same is
\* reached, off by no more than the time played between reading the position
\* and seeking, for every width of the numbers (playerprovider.cpp:468-470).
SetPositionLands ==
    [][setPositionSeeks /\ call.same /\ call.pos + call.elapsed <= Length /\ track # NoTrack
         => position' = call.pos + call.elapsed]_vars

\* Asking for a later position never leads to an earlier one in the same track,
\* however far beyond the end it is, as long as the distance fits an int64_t;
\* and stop goes nowhere.
ForwardNeverRewinds ==
    [][(setPositionSeeks \/ stopSeeks) /\ call.same
         /\ (call.pc = "stop" \/ call.pos - call.read \in 0 .. (Half - 1))
         => position' >= position]_vars

\* A client that reads position and duration of one track gets a position
\* within it: no answer is a negative number in disguise
\* (playerprovider.cpp:475-488, 490-515).
AnswersFit ==
    shown.positionOf = shown.durationOf => shown.position <= shown.duration
===============================================================================
