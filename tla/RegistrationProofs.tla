-------------------------- MODULE RegistrationProofs --------------------------
(***************************************************************************)
(* Proofs about Registration as the indexer extends it, for every number   *)
(* of reports and stubs and every set of faults: no appearance makes two   *)
(* stubs, and what is published has its connection.  That the number of    *)
(* stubs stays within its bound needs the number of appearances waiting in *)
(* the main loop, which the lemmas count.                                  *)
(***************************************************************************)
EXTENDS Indexer, Integers, FiniteSetTheorems, SequenceTheorems, TLAPS

USE RegistrationAssumption

Words == {"appeared", "vanished"}
AppearancesIn(s) == {i \in DOMAIN s : s[i] = "appeared"}

-------------------------------------------------------------------------------
(* Counting appearances. *)

LEMMA AppearancesFinite ==
    ASSUME NEW s \in Seq(Words)
    PROVE  IsFiniteSet(AppearancesIn(s)) /\ Cardinality(AppearancesIn(s)) \in Nat
<1>1. DOMAIN s = 1 .. Len(s) /\ Len(s) \in Nat
    OBVIOUS
<1>2. IsFiniteSet(1 .. Len(s))
    BY <1>1, FS_Interval
<1>3. AppearancesIn(s) \in SUBSET (1 .. Len(s))
    BY <1>1 DEF AppearancesIn
<1> QED BY <1>2, <1>3, FS_Subset, FS_CardinalityType

\* A report that is received adds an appearance or none.
LEMMA AppendCounts ==
    ASSUME NEW s \in Seq(Words), NEW w \in Words
    PROVE  Cardinality(AppearancesIn(Append(s, w))) =
               Cardinality(AppearancesIn(s)) + IF w = "appeared" THEN 1 ELSE 0
<1> DEFINE t == Append(s, w)
           n == Len(s) + 1
<1>1. /\ Len(s) \in Nat /\ DOMAIN s = 1 .. Len(s) /\ DOMAIN t = 1 .. n
      /\ t[n] = w /\ \A i \in 1 .. Len(s) : t[i] = s[i]
    BY AppendProperties
<1>2. n \notin AppearancesIn(s)
    BY <1>1 DEF AppearancesIn
<1>3. CASE w = "appeared"
    <2>1. AppearancesIn(t) = AppearancesIn(s) \cup {n}
        BY <1>1, <1>3 DEF AppearancesIn
    <2> QED BY <1>2, <1>3, <2>1, AppearancesFinite, FS_AddElement
<1>4. CASE w # "appeared"
    <2>1. AppearancesIn(t) = AppearancesIn(s)
        BY <1>1, <1>4 DEF AppearancesIn
    <2> QED BY <1>4, <2>1, AppearancesFinite
<1> QED BY <1>3, <1>4

\* A report that is dispatched takes an appearance away, if it was one.
LEMMA TailCounts ==
    ASSUME NEW s \in Seq(Words), s # <<>>
    PROVE  Cardinality(AppearancesIn(s)) =
               Cardinality(AppearancesIn(Tail(s))) + IF Head(s) = "appeared" THEN 1 ELSE 0
<1> DEFINE t == Tail(s)
           A == AppearancesIn(s) \ {1}
           B == AppearancesIn(t)
           f == [i \in A |-> i - 1]
<1>1. /\ Len(s) \in Nat \ {0} /\ DOMAIN s = 1 .. Len(s) /\ Head(s) = s[1]
      /\ t \in Seq(Words) /\ DOMAIN t = 1 .. (Len(s) - 1)
      /\ \A i \in 1 .. (Len(s) - 1) : t[i] = s[i + 1]
    BY HeadTailProperties, EmptySeq
<1>2. f \in Bijection(A, B)
    <2>1. f \in [A -> B]
        <3>1. \A i \in A : i - 1 \in B
            BY <1>1 DEF AppearancesIn
        <3> QED BY <3>1
    <2>2. \A i, j \in A : f[i] = f[j] => i = j
        BY <1>1 DEF AppearancesIn
    <2>3. \A k \in B : \E i \in A : f[i] = k
        <3> SUFFICES ASSUME NEW k \in B PROVE \E i \in A : f[i] = k
            OBVIOUS
        <3>1. k + 1 \in A /\ k \in Nat
            BY <1>1 DEF AppearancesIn
        <3>2. f[k + 1] = k
            BY <3>1
        <3> QED BY <3>1, <3>2
    <2> QED BY <2>1, <2>2, <2>3 DEF Bijection, Injection, Surjection, IsInjective
<1>3. IsFiniteSet(A) /\ Cardinality(A) =
          IF 1 \in AppearancesIn(s) THEN Cardinality(AppearancesIn(s)) - 1
          ELSE Cardinality(AppearancesIn(s))
    BY AppearancesFinite, FS_RemoveElement
<1>4. Cardinality(B) = Cardinality(A)
    BY <1>2, <1>3, FS_Bijection DEF ExistsBijection
<1>5. 1 \in AppearancesIn(s) <=> Head(s) = "appeared"
    BY <1>1 DEF AppearancesIn
<1>6. Cardinality(AppearancesIn(s)) \in Nat
    BY AppearancesFinite
<1> QED BY <1>3, <1>4, <1>5, <1>6
-------------------------------------------------------------------------------
(* The inductive invariant. *)

\* Stubs made and appearances that will make one stay within the bound together,
\* and nothing is reported before the name is watched.
RegInv ==
    /\ RegTypeOK
    /\ made + Cardinality(AppearancesIn(reports)) <= MaxStubs
    /\ pc # "watching" => reports = <<>> /\ made = 0
    /\ PublishedHasConnection

Inv == RegInv /\ alive \in BOOLEAN

LEMMA RegInitCorrect == RegInit => RegInv
<1> SUFFICES ASSUME RegInit PROVE RegInv
    OBVIOUS
<1>1. reports \in Seq(Words) /\ Len(reports) = 0 /\ AppearancesIn(reports) = {}
    BY DEF RegInit, AppearancesIn
<1>2. MaxReports \in Nat /\ MaxStubs \in Nat
    BY RegistrationAssumption DEF RegistrationAssumption
<1>3. RegTypeOK
    <2>1. reports \in Seq({"appeared", "vanished"}) /\ Len(reports) <= MaxReports
        BY <1>1, <1>2 DEF Words
    <2>2. trouble \subseteq Faults /\ owned \in BOOLEAN /\ connection \in BOOLEAN
          /\ pc \in {"start", "watching", "unwatched"}
        BY DEF RegInit
    <2>3. made \in 0 .. MaxStubs /\ stub \in 0 .. made /\ published \in 0 .. made
        BY <1>2 DEF RegInit
    <2> QED BY <2>1, <2>2, <2>3 DEF RegTypeOK
<1>4. made + Cardinality(AppearancesIn(reports)) <= MaxStubs
    <2>1. Cardinality(AppearancesIn(reports)) = 0
        BY <1>1, FS_EmptySet
    <2> QED BY <1>2, <2>1 DEF RegInit
<1> QED BY <1>3, <1>4 DEF RegInv, RegInit, PublishedHasConnection

LEMMA ConnectCorrect == RegInv /\ Connect => RegInv'
<1> SUFFICES ASSUME RegInv, Connect PROVE RegInv'
    OBVIOUS
<1>1. CASE pc' = "unwatched" /\ UNCHANGED <<owned, reports>>
    BY <1>1 DEF Connect, RegInv, RegTypeOK, PublishedHasConnection
<1>2. CASE pc' = "watching" /\ owned' \in {owned, TRUE}
           /\ reports' = <<IF owned' THEN "appeared" ELSE "vanished">>
    <2> DEFINE w == IF owned' THEN "appeared" ELSE "vanished"
    <2>1. w \in Words /\ reports' = <<w>> /\ owned' \in BOOLEAN
          /\ (w = "appeared") = owned'
        BY <1>2 DEF Words, RegInv, RegTypeOK
    <2> HIDE DEF w
    <2>2. reports' \in Seq(Words) /\ Len(reports') = 1 /\ reports'[1] = w
        BY <2>1
    <2>3. Cardinality(AppearancesIn(reports')) \in Nat
          /\ Cardinality(AppearancesIn(reports')) <= 1
        <3>1. AppearancesIn(reports') \in SUBSET {1}
            BY <2>2 DEF AppearancesIn
        <3>2. IsFiniteSet({1}) /\ Cardinality({1}) = 1
            BY FS_Singleton
        <3> QED BY <2>2, <3>1, <3>2, FS_Subset, AppearancesFinite
    <2>4. made' = 0 /\ UNCHANGED <<trouble, connection, made, stub, published>>
        BY DEF Connect, RegInv
    <2>5. RegTypeOK'
        BY <1>2, <2>1, <2>2, <2>4 DEF RegInv, RegTypeOK, Words
    <2>6. PublishedHasConnection'
        BY <2>4 DEF RegInv, PublishedHasConnection
    <2> QED BY <1>2, <2>3, <2>4, <2>5, <2>6 DEF RegInv
<1> QED BY <1>1, <1>2 DEF Connect

\* The backend starts or stops, and the watcher is told if there is one.
LEMMA BackendCorrect == RegInv /\ (BackendStarts \/ BackendStops) => RegInv'
<1> SUFFICES ASSUME RegInv, BackendStarts \/ BackendStops PROVE RegInv'
    OBVIOUS
<1> DEFINE w == IF BackendStarts THEN "appeared" ELSE "vanished"
<1>1. /\ w \in Words /\ UNCHANGED <<trouble, pc, connection, made, stub, published>>
      /\ owned' \in BOOLEAN /\ (w = "appeared") = owned'
      /\ reports' = IF pc = "watching" THEN Append(reports, w) ELSE reports
      /\ Len(reports) < MaxReports
      /\ w = "appeared" => made + Cardinality(AppearancesIn(reports)) < MaxStubs
    BY DEF BackendStarts, BackendStops, Report, Words, Appearances, AppearancesIn
<1> HIDE DEF w
<1>2. reports \in Seq(Words) /\ made \in Nat /\ Len(reports) \in Nat
    BY DEF RegInv, RegTypeOK, Words
<1>3. CASE pc = "watching"
    <2>1. /\ reports' \in Seq(Words) /\ Len(reports') = Len(reports) + 1
          /\ reports'[Len(reports')] = w
        BY <1>1, <1>2, <1>3, AppendProperties
    <2>2. Cardinality(AppearancesIn(reports')) =
              Cardinality(AppearancesIn(reports)) + IF w = "appeared" THEN 1 ELSE 0
        BY <1>1, <1>2, <1>3, AppendCounts
    <2>3. made' + Cardinality(AppearancesIn(reports')) <= MaxStubs
        BY <1>1, <1>2, <2>2, AppearancesFinite DEF RegInv
    <2>4. RegTypeOK'
        BY <1>1, <1>2, <2>1 DEF RegInv, RegTypeOK, Words
    <2> QED BY <1>1, <1>3, <2>1, <2>3, <2>4
            DEF RegInv, PublishedHasConnection
<1>4. CASE pc # "watching"
    BY <1>1, <1>4 DEF RegInv, RegTypeOK, PublishedHasConnection
<1> QED BY <1>3, <1>4

LEMMA DispatchCorrect == RegInv /\ Dispatch => RegInv'
<1> SUFFICES ASSUME RegInv, Dispatch PROVE RegInv'
    OBVIOUS
<1>1. /\ reports # <<>> /\ reports' = Tail(reports) /\ pc = "watching"
      /\ UNCHANGED <<trouble, owned, pc>>
    BY DEF Dispatch, onNameAppeared, onNameVanished, RegInv
<1>2. reports \in Seq(Words) /\ made \in 0 .. MaxStubs /\ Len(reports) \in Nat \ {0}
    BY <1>1, EmptySeq DEF RegInv, RegTypeOK, Words
<1>3. /\ reports' \in Seq(Words) /\ Len(reports') = Len(reports) - 1
      /\ \A i \in 1 .. Len(reports') : reports'[i] = reports[i + 1]
    BY <1>1, <1>2, HeadTailProperties
<1>4. /\ Cardinality(AppearancesIn(reports')) \in Nat
      /\ Cardinality(AppearancesIn(reports)) =
             Cardinality(AppearancesIn(reports')) + IF Head(reports) = "appeared" THEN 1 ELSE 0
    BY <1>1, <1>2, <1>3, TailCounts, AppearancesFinite
<1>5. CASE onNameVanished
    <2>1. UNCHANGED <<connection, made, stub, published>> /\ Head(reports) = "vanished"
        BY <1>5 DEF onNameVanished
    <2>2. RegTypeOK'
        BY <1>1, <1>2, <1>3, <2>1 DEF RegInv, RegTypeOK, Words
    <2> QED BY <1>1, <1>2, <1>4, <2>1, <2>2 DEF RegInv, PublishedHasConnection
<1>6. CASE onNameAppeared
    <2>1. Head(reports) = "appeared" /\ connection' = TRUE /\ registerService
        BY <1>6 DEF onNameAppeared
    <2>2. made + 1 <= MaxStubs
        BY <1>2, <1>4, <2>1 DEF RegInv
    <2>3. /\ made' \in {made, made + 1} /\ made' \in 0 .. MaxStubs
          /\ stub' \in 0 .. made' /\ published' \in 0 .. made'
          /\ published' # 0 => stub' # 0
        BY <1>2, <2>1, <2>2 DEF registerService, RegInv, RegTypeOK, PublishedHasConnection
    <2>4. made' + Cardinality(AppearancesIn(reports')) <= MaxStubs
        BY <1>2, <1>4, <2>1, <2>3 DEF RegInv
    <2>5. RegTypeOK'
        BY <1>1, <1>2, <1>3, <2>1, <2>3 DEF RegInv, RegTypeOK, Words
    <2> QED BY <1>1, <2>1, <2>3, <2>4, <2>5 DEF RegInv, PublishedHasConnection
<1> QED BY <1>5, <1>6 DEF Dispatch

LEMMA RegStepCorrect == RegInv /\ [RegNext]_regVars => RegInv'
<1>1. RegInv /\ UNCHANGED regVars => RegInv'
    BY DEF RegInv, regVars, RegTypeOK, PublishedHasConnection
<1> QED BY <1>1, ConnectCorrect, BackendCorrect, DispatchCorrect DEF RegNext

LEMMA InitCorrect == IndexerInit => Inv
BY RegInitCorrect DEF IndexerInit, Inv

LEMMA StepCorrect == Inv /\ [IndexerNext]_indexerVars => Inv'
<1> SUFFICES ASSUME Inv, [IndexerNext]_indexerVars PROVE Inv'
    OBVIOUS
<1>1. [RegNext]_regVars
    BY DEF IndexerNext, IndexerCall, RegistrationStep, OfProcess, indexerVars
<1>2. RegInv'
    BY <1>1, RegStepCorrect DEF Inv
<1>3. alive' \in BOOLEAN
    <2>1. CASE IndexerCall
        BY <2>1 DEF IndexerCall, startIndexing, stopIndexing, getDatabasePath, isConnected,
                    Inv, RegInv, RegTypeOK
    <2>2. CASE UNCHANGED alive
        BY <2>2 DEF Inv
    <2> QED BY <2>1, <2>2 DEF IndexerNext, RegistrationStep, OfProcess, indexerVars
<1> QED BY <1>2, <1>3 DEF Inv

-------------------------------------------------------------------------------
\* No more stubs are made than the backend appeared, and everything keeps its
\* type, whatever fails.
THEOREM RegTypeCorrect == IndexerSpec => []RegTypeOK
<1>1. Inv => RegTypeOK
    BY DEF Inv, RegInv
<1> QED BY <1>1, InitCorrect, StepCorrect, PTL DEF IndexerSpec

\* What is published has a connection and a stub, for good.
THEOREM PublishedCorrect == IndexerSpec => []PublishedHasConnection
<1>1. Inv => PublishedHasConnection
    BY DEF Inv, RegInv
<1> QED BY <1>1, InitCorrect, StepCorrect, PTL DEF IndexerSpec
===============================================================================
