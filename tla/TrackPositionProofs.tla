-------------------------- MODULE TrackPositionProofs --------------------------
(***************************************************************************)
(* The properties of TrackPosition for every width, all tracks and all     *)
(* positions.  While setPosition is under way in one track, the renderer   *)
(* is where it was read plus the time played since (UnderWay); and the     *)
(* difference goes through the unsigned argument of seek unharmed as long  *)
(* as it fits a signed number (ReadsAsSigned).                             *)
(***************************************************************************)
EXTENDS TrackPosition, TLAPS

LEMMA HalfType == Half \in Nat /\ Half > 1 /\ 2 * Half \in Nat \ {0}
    BY PositionAssumption

LEMMA ModOfSmall ==
    ASSUME NEW m \in Nat \ {0}, NEW r \in 0 .. (m - 1)
    PROVE  r % m = r /\ (r - m) % m = r
    OBVIOUS

\* A difference that fits a signed number survives the way through uint64_t
\* (playerprovider.cpp:470, 455).
LEMMA ReadsAsSigned ==
    ASSUME NEW x \in (-Half) .. (Half - 1)
    PROVE  AsInt64(AsUint64(x)) = x
<1> DEFINE m == 2 * Half
<1>1. m \in Nat \ {0} /\ m = 2 * Half /\ Half \in Nat /\ Half > 1
    BY HalfType
<1>2. CASE x >= 0
    <2>1. x % m = x
        <3>1. x \in 0 .. (m - 1)
            BY <1>1, <1>2
        <3> HIDE DEF m
        <3> QED BY <1>1, <3>1, ModOfSmall
    <2> HIDE DEF m
    <2> QED BY <1>1, <1>2, <2>1 DEF AsInt64, AsUint64
<1>3. CASE x < 0
    <2> DEFINE r == x + m
    <2>1. r \in 0 .. (m - 1) /\ r - m = x /\ r >= Half
        BY <1>1, <1>3
    <2>2. x % m = r /\ r % m = r
        <3> HIDE DEF m, r
        <3>1. r % m = r /\ (r - m) % m = r
            BY <1>1, <2>1, ModOfSmall
        <3> QED BY <2>1, <3>1
    <2>3. AsUint64(x) = r
        BY <2>2 DEF AsUint64
    <2>4. AsInt64(r) = r - m
        <3>1. r % (2 * Half) = r
            BY <2>2
        <3> HIDE DEF r
        <3>2. ~(r < Half)
            BY <1>1, <2>1
        <3> QED BY <3>1, <3>2 DEF AsInt64
    <2> QED BY <2>1, <2>3, <2>4
<1> QED BY <1>1, <1>2, <1>3

LEMMA SignedType == ASSUME NEW x \in Int PROVE AsInt64(AsUint64(x)) \in Int
    BY HalfType DEF AsInt64, AsUint64

-------------------------------------------------------------------------------
LengthOf(t) == IF t = NoTrack THEN 0 ELSE Duration[t]

Calls == [pc : {"idle", "seek", "stop"}, pos : Uint64, read : -1 .. (Half - 1),
          elapsed : Nat, same : BOOLEAN]
Answers == [position : Uint64, positionOf : Tracks \cup {NoTrack},
            duration : Uint64, durationOf : Tracks \cup {NoTrack}]

\* The renderer is where it was read, plus the time played since.
UnderWay ==
    call.pc = "seek" /\ call.same /\ track # NoTrack =>
        call.read >= 0 /\ position = call.read + call.elapsed

\* Each answer fits the track it is about.
AnswersOfTracks ==
    /\ shown.position <= LengthOf(shown.positionOf)
    /\ shown.duration = LengthOf(shown.durationOf)

Inv ==
    /\ track \in Tracks \cup {NoTrack} /\ position \in 0 .. Length /\ playing \in BOOLEAN
    /\ call \in Calls /\ shown \in Answers
    /\ UnderWay /\ AnswersOfTracks

LEMMA LengthType ==
    ASSUME NEW t \in Tracks \cup {NoTrack}
    PROVE  LengthOf(t) \in 0 .. (Half - 1)
    BY PositionAssumption DEF LengthOf

\* A seek stays within the track, and within it goes where it is told to.
LEMMA SeekLands ==
    ASSUME Inv, NEW d \in Int, NEW p \in SeekTargets(d)
    PROVE  /\ p \in 0 .. Length
           /\ d >= 0 => p >= position
           /\ position + d \in 0 .. Length => p = position + d
<1>1. Length \in 0 .. (Half - 1) /\ position \in 0 .. Length
    BY LengthType DEF Inv, Length, LengthOf
<1>2. Half \in Nat
    BY HalfType
<1> QED BY <1>1, <1>2 DEF SeekTargets

LEMMA InitCorrect == Init => Inv
<1> SUFFICES ASSUME Init PROVE Inv
    OBVIOUS
<1>1. 0 \in Uint64 /\ 0 \in -1 .. (Half - 1)
    BY HalfType DEF Uint64
<1>2. call \in Calls /\ shown \in Answers
    BY <1>1 DEF Init, NoCall, NothingShown, Calls, Answers
<1>3. UnderWay
    BY DEF Init, NoCall, UnderWay
<1>4. AnswersOfTracks
    BY DEF Init, NothingShown, AnswersOfTracks, LengthOf
<1>5. position \in 0 .. Length
    BY DEF Init, Length
<1> QED BY <1>2, <1>3, <1>4, <1>5 DEF Init, Inv

LEMMA StepCorrect == Inv /\ [Next]_vars => Inv'
<1> SUFFICES ASSUME Inv, [Next]_vars PROVE Inv'
    OBVIOUS
<1> USE DEF Inv
<1>0. /\ Half \in Nat /\ Half > 1 /\ 0 \in Uint64 /\ 0 \in -1 .. (Half - 1)
      /\ Length \in 0 .. (Half - 1) /\ NoCall \in Calls
    <2>1. Half \in Nat /\ Half > 1 /\ 0 \in Uint64 /\ 0 \in -1 .. (Half - 1)
        BY HalfType DEF Uint64
    <2> QED BY <2>1, LengthType DEF Length, LengthOf, NoCall, Calls
<1>1. CASE Plays
    <2>1. position' \in 0 .. Length' /\ UNCHANGED <<track, playing, shown>>
        BY <1>0, <1>1 DEF Plays, Length
    <2>2. call' \in Calls
        BY <1>1 DEF Plays, Calls
    <2>3. UnderWay'
        BY <1>0, <1>1 DEF Plays, UnderWay, Calls
    <2> QED BY <2>1, <2>2, <2>3 DEF AnswersOfTracks
<1>2. CASE Changes
    <2>1. track' \in Tracks \cup {NoTrack} /\ position' = 0 /\ playing' \in BOOLEAN /\ shown' = shown
        BY <1>2 DEF Changes
    <2>2. Length' \in 0 .. (Half - 1)
        BY <2>1, LengthType DEF Length, LengthOf
    <2>3. call' \in Calls /\ UnderWay'
        BY <1>2 DEF Changes, Calls, UnderWay
    <2> QED BY <1>0, <2>1, <2>2, <2>3 DEF AnswersOfTracks
<1>3. CASE Resumes
    BY <1>3 DEF Resumes, Length, UnderWay, AnswersOfTracks
<1>4. ASSUME NEW pos \in Int64, seek(pos) PROVE Inv'
    <2>1. pos \in Int
        BY <1>0 DEF Int64
    <2>2. position' \in 0 .. Length
        BY <1>4, <2>1, SignedType, SeekLands DEF seek
    <2> QED BY <1>4, <2>2 DEF seek, Idle, Length, UnderWay, AnswersOfTracks
<1>5. ASSUME NEW pos \in Uint64, setPosition(pos) PROVE Inv'
    <2>1. PICK read \in ReportedPositions :
              call' = [NoCall EXCEPT !.pc = "seek", !.pos = pos, !.read = read]
        BY <1>5 DEF setPosition
    <2>2. read \in -1 .. (Half - 1) /\ (track # NoTrack => read = position /\ read >= 0)
        BY <1>0 DEF ReportedPositions
    <2> DEFINE new == [pc |-> "seek", pos |-> pos, read |-> read, elapsed |-> 0, same |-> TRUE]
    <2>3. call' = new
        BY <2>1 DEF NoCall
    <2>4. new \in Calls
        BY <2>2 DEF Calls
    <2>5. UnderWay'
        <3>1. call'.read = read /\ call'.elapsed = 0
            BY <2>3
        <3>2. track' # NoTrack => read >= 0 /\ position' = read /\ position \in Int
            BY <1>0, <1>5, <2>2 DEF setPosition
        <3>3. track' # NoTrack => read >= 0 /\ position' = read + 0
            BY <1>5, <3>2 DEF setPosition
        <3> QED BY <3>1, <3>3 DEF UnderWay
    <2> QED BY <1>5, <2>3, <2>4, <2>5 DEF setPosition, Length, AnswersOfTracks
<1>6. CASE setPositionSeeks \/ stopSeeks
    <2>1. call.pos - call.read \in Int /\ 0 \in Int
        BY <1>0 DEF Calls, Uint64
    <2>2. position' \in 0 .. Length
        BY <1>6, <2>1, SignedType, SeekLands DEF setPositionSeeks, stopSeeks, offset
    <2>3. call' = NoCall /\ UNCHANGED <<track, playing, shown>>
        BY <1>6 DEF setPositionSeeks, stopSeeks
    <2> QED BY <1>0, <2>2, <2>3 DEF Length, UnderWay, AnswersOfTracks, NoCall
<1>7. CASE CallFails
    BY <1>0, <1>7 DEF CallFails, Length, UnderWay, AnswersOfTracks, NoCall
<1>8. CASE stop
    <2> DEFINE new == [pc |-> "stop", pos |-> 0, read |-> position, elapsed |-> 0, same |-> TRUE]
    <2>1. call' = new
        BY <1>8 DEF stop, NoCall
    <2>2. position \in -1 .. (Half - 1)
        BY <1>0
    <2>3. call' \in Calls /\ call'.pc = "stop"
        BY <1>0, <2>1, <2>2 DEF Calls
    <2> QED BY <1>8, <2>3 DEF stop, Length, UnderWay, AnswersOfTracks
<1>9. CASE getPosition
    <2>1. PICK reported \in ReportedPositions :
              shown' \in {[shown EXCEPT !.position = positionAnswer(reported), !.positionOf = track],
                          [shown EXCEPT !.position = 0, !.positionOf = NoTrack]}
        BY <1>9 DEF getPosition
    <2>2. positionAnswer(reported) \in 0 .. Length /\ positionAnswer(reported) \in Uint64
        BY <1>0 DEF ReportedPositions, positionAnswer, Uint64, Length
    <2>3. shown' \in Answers
        BY <1>0, <2>1, <2>2 DEF Answers
    <2>4. AnswersOfTracks'
        <3>1. shown'.duration = shown.duration /\ shown'.durationOf = shown.durationOf
            BY <2>1 DEF Answers
        <3>2. \/ shown'.position = positionAnswer(reported) /\ shown'.positionOf = track
              \/ shown'.position = 0 /\ shown'.positionOf = NoTrack
            BY <2>1 DEF Answers
        <3>3. shown'.position <= LengthOf(shown'.positionOf)
            BY <1>0, <2>2, <3>2 DEF Length, LengthOf
        <3> QED BY <3>1, <3>3 DEF AnswersOfTracks
    <2> QED BY <1>9, <2>3, <2>4 DEF getPosition, UnderWay, Length
<1>10. CASE getDuration
    <2>1. Length \in Uint64
        BY <1>0 DEF Uint64
    <2>2. shown' \in Answers
        BY <1>0, <1>10, <2>1 DEF getDuration, Answers
    <2>3. AnswersOfTracks'
        BY <1>0, <1>10 DEF getDuration, AnswersOfTracks, Answers, Length, LengthOf
    <2> QED BY <1>10, <2>2, <2>3 DEF getDuration, UnderWay, Length
<1>11. CASE UNCHANGED vars
    BY <1>11 DEF vars, Length, UnderWay, AnswersOfTracks
<1> QED BY <1>1, <1>2, <1>3, <1>4, <1>5, <1>6, <1>7, <1>8, <1>9, <1>10, <1>11 DEF Next

LEMMA InvCorrect == Spec => []Inv
<1> QED BY InitCorrect, StepCorrect, PTL DEF Spec

-------------------------------------------------------------------------------
\* TypeOK: the renderer stays within its track and every number within its
\* width, whatever is asked for (playerprovider.cpp:442-515).
THEOREM PositionTypeCorrect == Spec => []TypeOK
<1>1. Inv => TypeOK
    BY DEF Inv, TypeOK, Calls, Answers
<1> QED BY <1>1, InvCorrect, PTL

\* AnswersFit: position and duration of one track that a client reads agree
\* (playerprovider.cpp:475-488, 490-515).
THEOREM AnswersCorrect == Spec => []AnswersFit
<1>1. Inv => AnswersFit
    BY DEF Inv, AnswersFit, AnswersOfTracks
<1> QED BY <1>1, InvCorrect, PTL

\* SetPositionLands: a position within the track is reached, off by the time
\* played, for every width and every track (playerprovider.cpp:468-470).
THEOREM SetPositionCorrect == Spec => SetPositionLands
<1>1. Inv => [setPositionSeeks /\ call.same /\ call.pos + call.elapsed <= Length
                 /\ track # NoTrack => position' = call.pos + call.elapsed]_vars
    <2> SUFFICES ASSUME Inv, setPositionSeeks, call.same, track # NoTrack,
                        call.pos + call.elapsed <= Length
                 PROVE  position' = call.pos + call.elapsed
        OBVIOUS
    <2> DEFINE d == call.pos - call.read
    <2>1. /\ Half \in Nat /\ Length \in 0 .. (Half - 1) /\ position \in 0 .. Length
          /\ call.pos \in Nat /\ call.elapsed \in Nat /\ call.read \in 0 .. (Half - 1)
          /\ position = call.read + call.elapsed
        BY HalfType, LengthType DEF Inv, Length, LengthOf, UnderWay, setPositionSeeks, Calls, Uint64
    <2>2. d \in (-Half) .. (Half - 1) /\ d \in Int /\ position + d = call.pos + call.elapsed
        BY <2>1
    <2>3. position' \in SeekTargets(d)
        BY <2>2, ReadsAsSigned DEF setPositionSeeks, offset
    <2>4. position + d \in 0 .. Length
        BY <2>1, <2>2
    <2> HIDE DEF d
    <2> QED BY <2>2, <2>3, <2>4, SeekLands
<1> QED BY <1>1, InvCorrect, PTL DEF SetPositionLands

\* ForwardNeverRewinds: asking for a later position never leads to an earlier
\* one, nor does stop (playerprovider.cpp:445, 468-470).
THEOREM ForwardCorrect == Spec => ForwardNeverRewinds
<1>1. Inv => [(setPositionSeeks \/ stopSeeks) /\ call.same
                 /\ (call.pc = "stop" \/ call.pos - call.read \in 0 .. (Half - 1))
                 => position' >= position]_vars
    <2> SUFFICES ASSUME Inv, setPositionSeeks \/ stopSeeks,
                        call.pc = "stop" \/ call.pos - call.read \in 0 .. (Half - 1)
                 PROVE  position' >= position
        OBVIOUS
    <2>1. CASE stopSeeks
        BY <2>1, SeekLands DEF stopSeeks
    <2>2. CASE setPositionSeeks
        <3> DEFINE d == call.pos - call.read
        <3>1. d \in 0 .. (Half - 1) /\ d \in Int /\ d >= 0 /\ d \in (-Half) .. (Half - 1)
            BY <2>2, HalfType DEF setPositionSeeks
        <3>2. position' \in SeekTargets(d)
            BY <2>2, <3>1, ReadsAsSigned DEF setPositionSeeks, offset
        <3> HIDE DEF d
        <3> QED BY <3>1, <3>2, SeekLands
    <2> QED BY <2>1, <2>2
<1> QED BY <1>1, InvCorrect, PTL DEF ForwardNeverRewinds
===============================================================================
