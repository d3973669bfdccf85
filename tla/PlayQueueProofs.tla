--------------------------- MODULE PlayQueueProofs ---------------------------
(***************************************************************************)
(* What the position arithmetic of PlayQueue computes, for every width:    *)
(* as long as positions stay below Half, the uint64_t sums and int         *)
(* truncations of changePlayQueuePosition and next are the plain integer   *)
(* ones with UINT64_MAX read as -1.                                        *)
(***************************************************************************)
EXTENDS PlayQueue, TLAPS

LEMMA DivMod ==
    ASSUME NEW m \in Nat \ {0}, NEW x \in Int
    PROVE  x \div m \in Int /\ x % m \in 0 .. (m - 1) /\ x = (x \div m) * m + (x % m)
    OBVIOUS

\* The remainder ignores multiples of the modulus.
LEMMA ModShift ==
    ASSUME NEW m \in Nat \ {0}, NEW k \in Int, NEW x \in Int
    PROVE  (k * m + x) % m = x % m
<1> DEFINE d == x \div m
           r == x % m
<1>1. d \in Int /\ r \in 0 .. (m - 1) /\ x = d * m + r
    BY DivMod
<1>2. k * m + x = (k + d) * m + r
    BY <1>1
<1>3. ((k + d) * m + r) % m = r
    <2> HIDE DEF d, r
    <2>1. k + d \in Int
        BY <1>1
    <2>2. \A c \in Int : (c * m + r) % m = r
        BY <1>1
    <2> QED BY <2>1, <2>2
<1> QED BY <1>2, <1>3

\* The moduli are positive, and UINT64_MAX is no int.
LEMMA WidthFacts ==
    /\ Half \in Nat /\ Half > 1
    /\ IntMod \in Nat \ {0} /\ IntMod = 2 * Half
    /\ Uint64Mod \in Nat \ {0} /\ Uint64Mod >= IntMod
    /\ Unset \in Nat /\ Unset >= Half
<1>1. Half \in Nat /\ Half > 1 /\ High \in Nat /\ High >= 1
    BY WidthAssumption
<1>2. IntMod \in Nat \ {0} /\ IntMod = 2 * Half /\ IntMod >= Half + 1
    BY <1>1 DEF IntMod
<1>3. \A h \in Nat, m \in Nat : h >= 1 => h * m \in Nat /\ h * m >= m
    OBVIOUS
<1>4. Uint64Mod \in Nat /\ Uint64Mod >= IntMod
    BY <1>1, <1>2, <1>3 DEF Uint64Mod
<1> QED BY <1>1, <1>2, <1>4 DEF Unset

LEMMA AsUint64Type == ASSUME NEW x \in Int PROVE AsUint64(x) \in 0 .. Unset
    BY WidthFacts DEF AsUint64, Unset

LEMMA AsIntType == ASSUME NEW x \in Int PROVE AsInt(x) \in (-Half) .. (Half - 1)
    BY WidthFacts DEF AsInt

\* Truncating to an int forgets the earlier reduction to 64 bits.
LEMMA AsIntAsUint64 == ASSUME NEW x \in Int PROVE AsInt(AsUint64(x)) = AsInt(x)
<1> DEFINE k == x \div Uint64Mod
           r == x % Uint64Mod
<1>1. k \in Int /\ r \in Int /\ x = k * Uint64Mod + r
    <2>1. Uint64Mod \in Nat \ {0}
        BY WidthFacts
    <2>2. k \in Int /\ r \in 0 .. (Uint64Mod - 1) /\ x = k * Uint64Mod + r
        BY <2>1, DivMod
    <2> HIDE DEF k, r
    <2> QED BY <2>1, <2>2
<1>2. k * High \in Int /\ k * Uint64Mod = (k * High) * IntMod
    <2>1. k \in Int /\ High \in Int /\ IntMod \in Int
        BY <1>1, WidthFacts, WidthAssumption
    <2>2. \A i, h, m \in Int : i * h \in Int /\ i * (h * m) = (i * h) * m
        OBVIOUS
    <2> QED BY <2>1, <2>2 DEF Uint64Mod
<1>3. x % IntMod = r % IntMod
    <2> HIDE DEF k, r
    <2> DEFINE j == k * High
    <2>1. j \in Int /\ r \in Int /\ IntMod \in Nat \ {0}
        BY <1>1, <1>2, WidthFacts
    <2>2. x = j * IntMod + r
        BY <1>1, <1>2
    <2> HIDE DEF j
    <2>3. (j * IntMod + r) % IntMod = r % IntMod
        BY <2>1, ModShift
    <2> QED BY <2>2, <2>3
<1> QED BY <1>3 DEF AsInt, AsUint64

LEMMA AsIntInRange == ASSUME NEW x \in (-Half) .. (Half - 1) PROVE AsInt(x) = x
<1>1. CASE x >= 0
    BY <1>1, WidthFacts DEF AsInt
<1>2. CASE x < 0
    <2>1. x + IntMod \in 0 .. (IntMod - 1) /\ x + IntMod >= Half
        BY <1>2, WidthFacts
    <2>2. (x + IntMod) % IntMod = x + IntMod
        BY <2>1, WidthFacts
    <2>3. x % IntMod = x + IntMod
        <3>1. (1 * IntMod + x) % IntMod = x % IntMod
            <4>1. x \in Int /\ 1 \in Int /\ IntMod \in Nat \ {0}
                BY WidthFacts
            <4> QED BY <4>1, ModShift
        <3>2. 1 * IntMod + x = x + IntMod
            BY WidthFacts
        <3> QED BY <3>1, <3>2, <2>2
    <2> QED BY <2>1, <2>3, WidthFacts DEF AsInt
<1> QED BY <1>1, <1>2, WidthFacts

\* UINT64_MAX reads as -1.
LEMMA UnsetAsInt == AsInt(Unset) = -1
<1>1. -1 \in (-Half) .. (Half - 1)
    BY WidthFacts
<1>2. AsUint64(-1) = Unset
    <2>1. (1 * Uint64Mod + (-1)) % Uint64Mod = (-1) % Uint64Mod
        BY ModShift, WidthFacts
    <2>2. (Uint64Mod - 1) % Uint64Mod = Uint64Mod - 1
        BY WidthFacts
    <2>3. 1 * Uint64Mod + (-1) = Uint64Mod - 1
        BY WidthFacts
    <2> QED BY <2>1, <2>2, <2>3 DEF AsUint64, Unset
<1> QED BY <1>1, <1>2, AsIntAsUint64, AsIntInRange

-------------------------------------------------------------------------------
(* Positions read as ints. *)

\* An integer and its int reading differ by a multiple of 2^32.
LEMMA AsIntMultiple ==
    ASSUME NEW pos \in Int
    PROVE  \E j \in Int : pos = j * IntMod + AsInt(pos)
<1> DEFINE d == pos \div IntMod
           low == pos % IntMod
<1>1. d \in Int /\ low \in Int /\ pos = d * IntMod + low
    <2>1. IntMod \in Nat \ {0}
        BY WidthFacts
    <2>2. d \in Int /\ low \in 0 .. (IntMod - 1) /\ pos = d * IntMod + low
        BY <2>1, DivMod
    <2> HIDE DEF d, low
    <2> QED BY <2>1, <2>2
<1>2. AsInt(pos) = low \/ AsInt(pos) = low - IntMod
    BY DEF AsInt
<1> HIDE DEF d, low
<1>3. CASE AsInt(pos) = low
    BY <1>1, <1>3
<1>4. CASE AsInt(pos) = low - IntMod
    <2>1. d + 1 \in Int
        BY <1>1
    <2>2. pos = (d + 1) * IntMod + (low - IntMod)
        BY <1>1, WidthFacts
    <2> QED BY <2>1, <2>2, <1>4
<1> QED BY <1>2, <1>3, <1>4

\* playQueuePosition + increment, stored in an int (playerprovider.cpp:599).
LEMMA SumAsInt ==
    ASSUME NEW pos \in Int, NEW s \in Int,
           AsInt(pos) + s \in (-Half) .. (Half - 1)
    PROVE  AsInt(AsUint64(pos + s)) = AsInt(pos) + s
<1> DEFINE c == AsInt(pos)
<1>1. c \in Int
    BY AsIntType, WidthFacts
<1>2. PICK j \in Int : pos = j * IntMod + c
    BY AsIntMultiple
<1>3. AsInt(c + s) = c + s
    BY AsIntInRange
<1> HIDE DEF c
<1>4. c + s \in Int /\ pos + s \in Int /\ IntMod \in Nat \ {0}
    BY <1>1, WidthFacts
<1>5. pos + s = j * IntMod + (c + s)
    BY <1>1, <1>2, WidthFacts
<1>6. (pos + s) % IntMod = (c + s) % IntMod
    BY <1>4, <1>5, ModShift
<1>7. AsInt(pos + s) = AsInt(c + s)
    BY <1>6 DEF AsInt
<1> QED BY <1>3, <1>4, <1>7, AsIntAsUint64 DEF c

\* s - playQueuePosition, passed as a gint32 (playerprovider.cpp:407).
LEMMA DifferenceAsInt ==
    ASSUME NEW pos \in Int, NEW s \in Int,
           s - AsInt(pos) \in (-Half) .. (Half - 1)
    PROVE  AsInt(AsUint64(s - pos)) = s - AsInt(pos)
<1> DEFINE c == AsInt(pos)
<1>1. c \in Int
    BY AsIntType, WidthFacts
<1>2. PICK j \in Int : pos = j * IntMod + c
    BY AsIntMultiple
<1>3. AsInt(s - c) = s - c
    BY AsIntInRange
<1> HIDE DEF c
<1>4. s - c \in Int /\ s - pos \in Int /\ IntMod \in Nat \ {0} /\ -j \in Int
    BY <1>1, WidthFacts
<1>5. s - pos = (-j) * IntMod + (s - c)
    <2>1. \A i, m \in Int : (-i) * m = -(i * m) /\ i * m \in Int
        OBVIOUS
    <2>2. (-j) * IntMod = -(j * IntMod) /\ j * IntMod \in Int
        BY <2>1, WidthFacts
    <2> QED BY <1>1, <1>2, <2>2
<1>6. (s - pos) % IntMod = (s - c) % IntMod
    <2> DEFINE k == -j
    <2>1. k \in Int /\ s - pos = k * IntMod + (s - c)
        BY <1>4, <1>5
    <2> HIDE DEF k
    <2> QED BY <1>4, <2>1, ModShift
<1>7. AsInt(s - pos) = AsInt(s - c)
    BY <1>6 DEF AsInt
<1> QED BY <1>3, <1>4, <1>7, AsIntAsUint64 DEF c

-------------------------------------------------------------------------------
(* The navigation operators. *)

\* A position change that is accepted ends inside the queue, whatever the
\* position, the increment and the widths.
LEMMA TargetInQueue ==
    ASSUME NEW S, NEW q \in Seq(S), NEW pos \in Int, NEW increment \in Int, NEW repeat,
           Target(q, pos, increment, repeat) # NoTrack
    PROVE  /\ Target(q, pos, increment, repeat) \in 0 .. (Len(q) - 1)
           /\ Len(q) > 0
<1> DEFINE new == AsInt(AsUint64(pos + increment))
<1>1. AsUint64(pos + increment) \in Int
    BY AsUint64Type, WidthFacts
<1>2. new \in Int
    BY <1>1, AsIntType, WidthFacts
<1>3. Len(q) \in Nat
    OBVIOUS
<1> HIDE DEF new
<1>4. Target(q, pos, increment, repeat) =
        IF Len(q) - 1 < new
        THEN IF repeat = "REPEAT" /\ Len(q) - 1 >= 0 THEN 0 ELSE -1
        ELSE IF new < 0 THEN -1 ELSE new
    BY DEF Target, Accepted, NoTrack, playQueueSize, new
<1> QED BY <1>2, <1>3, <1>4 DEF NoTrack

LEMMA NextIncrementsType ==
    ASSUME NEW S, NEW q \in Seq(S), NEW pos \in Int, NEW repeat, NEW shuffle
    PROVE  NextIncrements(q, pos, repeat, shuffle) \subseteq Int
<1> DEFINE begin == AsInt(AsUint64(-pos))
           end == AsInt(AsUint64(playQueueSize(q) - pos))
<1>1. playQueueSize(q) - pos \in Int /\ -pos \in Int
    BY DEF playQueueSize
<1>2. AsUint64(-pos) \in Int /\ AsUint64(playQueueSize(q) - pos) \in Int
    BY <1>1, AsUint64Type, WidthFacts
<1>3. begin \in Int /\ end \in Int
    BY <1>2, AsIntType, WidthFacts
<1> HIDE DEF begin, end
<1>4. RandomRange(begin, end) \subseteq Int
    BY <1>3 DEF RandomRange
<1> QED BY <1>4 DEF NextIncrements, ShuffleIncrements, begin, end

\* Position changes in plain integers.
LEMMA TargetAsInt ==
    ASSUME NEW q, NEW pos \in Int, NEW increment \in Int, NEW repeat,
           AsInt(pos) + increment \in (-Half) .. (Half - 1)
    PROVE  Target(q, pos, increment, repeat) =
             LET i == AsInt(pos) + increment
             IN  IF Len(q) - 1 < i
                 THEN IF repeat = "REPEAT" /\ Len(q) - 1 >= 0 THEN 0 ELSE NoTrack
                 ELSE IF i < 0 THEN NoTrack ELSE i
    BY SumAsInt DEF Target, Accepted, playQueueSize

\* A shuffled next() draws exactly from the entries before the last one, or
\* the first one if there are not two.
LEMMA ShuffleDraws ==
    ASSUME NEW S, NEW q \in Seq(S), Len(q) < Half,
           NEW pos \in Int, AsInt(pos) >= -1,
           NEW increment
    PROVE  increment \in ShuffleIncrements(q, pos) <=>
             /\ increment \in Int
             /\ AsInt(pos) + increment \in IF Len(q) >= 2 THEN 0 .. (Len(q) - 2) ELSE {0}
<1> DEFINE c == AsInt(pos)
<1>1. c \in Int /\ c >= -1 /\ c <= Half - 1
    BY AsIntType, WidthFacts
<1>2. Len(q) \in Nat
    OBVIOUS
<1>3. AsInt(AsUint64(-pos)) = -c
    <2>1. 0 - c \in (-Half) .. (Half - 1)
        BY <1>1, WidthFacts
    <2>2. AsInt(AsUint64(0 - pos)) = 0 - c
        BY <2>1, DifferenceAsInt
    <2>3. 0 - pos = -pos /\ 0 - c = -c
        BY <1>1
    <2> QED BY <2>2, <2>3
<1>4. AsInt(AsUint64(playQueueSize(q) - pos)) = Len(q) - 1 - c
    <2>1. Len(q) - 1 - c \in (-Half) .. (Half - 1) /\ Len(q) - 1 \in Int
        BY <1>1, <1>2, WidthFacts
    <2> QED BY <2>1, DifferenceAsInt DEF playQueueSize
<1> HIDE DEF c
<1>5. ShuffleIncrements(q, pos) =
        IF -c < Len(q) - 1 - c THEN (-c) .. (Len(q) - 1 - c - 1) ELSE {-c}
    BY <1>3, <1>4 DEF ShuffleIncrements, RandomRange
<1>6. increment \in ShuffleIncrements(q, pos) <=>
        /\ increment \in Int
        /\ c + increment \in IF Len(q) >= 2 THEN 0 .. (Len(q) - 2) ELSE {0}
    BY <1>1, <1>2, <1>5
<1> QED BY <1>6 DEF c
==============================================================================
