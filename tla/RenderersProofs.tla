---------------------------- MODULE RenderersProofs ----------------------------
(***************************************************************************)
(* What holds of the discovery and of the renderers for any number of      *)
(* devices, every queue and all failures.  DiscoveryInv says what has been *)
(* asked and what is still to be asked; RendererInv what the player knows  *)
(* of the devices.                                                         *)
(***************************************************************************)
EXTENDS Renderers, PlayQueueProofs, FiniteSetTheorems, TLAPS

\* Each device is either still to be asked, or was asked once.
DiscoveryInv ==
    /\ present \subseteq Backends /\ answered \subseteq Backends
    /\ asking \in Seq(Backends) /\ found \in Seq(Own)
    /\ pc \in {"idle", "list", "ask", "crashed"}
    /\ pc = "ask" => /\ IsInjective(asking) /\ IsInjective(found)
                     /\ Range(asking) \cap Range(found) = {}
                     /\ answered \cap Own \subseteq Range(asking) \cup Range(found)

States == {"Playing", "Paused", "Stopped"}
Devices == [state : States, entry : Entries, driven : BOOLEAN]

\* An entry that will be opened is one of the queue.
RendererInv ==
    /\ playQueuePosition \in Entries \cup {Unset} /\ op \in {"open", "pause", "none"}
    /\ op = "open" => playQueuePosition \in Entries
    /\ subscribed \in BOOLEAN /\ missed \in BOOLEAN
    /\ device \in [Backends -> Devices]
    /\ stops \in Seq(Backends) /\ Len(stops) <= MaxStops
    /\ OnlyOwnDriven

\* OwnPlaysSelected holds in the middle of a handler as well, where the player
\* is not about to open something.
OneOwn == \A r, s \in Own : r = s
SelectedInv ==
    OneOwn /\ ~missed =>
        \A r \in Own : device[r].state = "Playing" => device[r].entry = playQueuePosition

Inv == DiscoveryInv /\ RendererInv /\ SelectedInv

-------------------------------------------------------------------------------
(* Sequences of distinct elements. *)

LEMMA TailTakesHead ==
    ASSUME NEW S, NEW s \in Seq(S), s # <<>>, IsInjective(s)
    PROVE  /\ Tail(s) \in Seq(S) /\ Head(s) \in S /\ IsInjective(Tail(s))
           /\ Head(s) \in Range(s)
           /\ Range(Tail(s)) = Range(s) \ {Head(s)}
<1>1. /\ Len(s) \in Nat \ {0} /\ DOMAIN s = 1 .. Len(s) /\ Head(s) = s[1]
      /\ Tail(s) \in Seq(S) /\ Head(s) \in S
      /\ DOMAIN Tail(s) = 1 .. (Len(s) - 1)
      /\ \A i \in 1 .. (Len(s) - 1) : Tail(s)[i] = s[i + 1]
    OBVIOUS
<1>2. IsInjective(Tail(s))
    BY <1>1 DEF IsInjective
<1>3. Head(s) \in Range(s)
    BY <1>1 DEF Range
<1>4. Range(Tail(s)) \subseteq Range(s) \ {Head(s)}
    BY <1>1 DEF Range, IsInjective
<1>5. ASSUME NEW x \in Range(s) \ {Head(s)} PROVE x \in Range(Tail(s))
    <2>1. PICK i \in 1 .. Len(s) : s[i] = x
        BY <1>1, <1>5 DEF Range
    <2>2. i # 1 /\ i - 1 \in 1 .. (Len(s) - 1)
        BY <1>1, <1>5, <2>1
    <2>3. Tail(s)[i - 1] = s[i]
        BY <1>1, <2>2
    <2> QED BY <1>1, <2>1, <2>2, <2>3 DEF Range
<1> QED BY <1>1, <1>2, <1>3, <1>4, <1>5

LEMMA AppendAdds ==
    ASSUME NEW S, NEW s \in Seq(S), NEW x \in S
    PROVE  /\ Append(s, x) \in Seq(S)
           /\ Range(Append(s, x)) = Range(s) \cup {x}
           /\ IsInjective(s) /\ x \notin Range(s) => IsInjective(Append(s, x))
<1>1. /\ Append(s, x) \in Seq(S) /\ Len(s) \in Nat
      /\ DOMAIN s = 1 .. Len(s) /\ DOMAIN Append(s, x) = 1 .. (Len(s) + 1)
      /\ \A i \in 1 .. Len(s) : Append(s, x)[i] = s[i]
      /\ Append(s, x)[Len(s) + 1] = x
    OBVIOUS
<1>2. \A i \in 1 .. (Len(s) + 1) : i = Len(s) + 1 \/ i \in 1 .. Len(s)
    BY <1>1
<1>3. Len(s) + 1 \in 1 .. (Len(s) + 1) /\ 1 .. Len(s) \subseteq 1 .. (Len(s) + 1)
    BY <1>1
<1>4. Range(Append(s, x)) = Range(s) \cup {x}
    BY <1>1, <1>2, <1>3 DEF Range
<1>5. IsInjective(s) /\ x \notin Range(s) => IsInjective(Append(s, x))
    BY <1>1, <1>2 DEF Range, IsInjective
<1> QED BY <1>1, <1>4, <1>5

\* Listing a finite set gives each of its elements once.
LEMMA ListedOnce ==
    ASSUME NEW S, IsFiniteSet(S), NEW s \in SetToSeqs(S)
    PROVE  s \in Seq(S) /\ IsInjective(s) /\ Range(s) = S
<1> DEFINE D == 1 .. Cardinality(S)
<1>1. Cardinality(S) \in Nat
    BY FS_CardinalityType
<1>2. s \in [D -> S] /\ \A i, j \in D : i # j => s[i] # s[j]
    BY DEF SetToSeqs
<1>3. s \in Seq(S)
    BY <1>1, <1>2
<1>4. IsInjective(s) /\ s \in Injection(D, S)
    BY <1>2 DEF IsInjective, Injection
<1>5. Cardinality(D) = Cardinality(S)
    BY <1>1, FS_Interval
<1>6. s \in Surjection(D, S)
    BY <1>4, <1>5, FS_Injection
<1>7. Range(s) = S
    BY <1>2, <1>6 DEF Range, Surjection
<1> QED BY <1>3, <1>4, <1>7

LEMMA DistinctCount ==
    ASSUME NEW S, NEW s \in Seq(S), IsInjective(s)
    PROVE  Len(s) = Cardinality(Range(s))
<1> DEFINE D == 1 .. Len(s)
<1>1. Len(s) \in Nat /\ s \in [D -> S] /\ DOMAIN s = D
    OBVIOUS
<1>2. IsFiniteSet(D) /\ Cardinality(D) = Len(s)
    BY <1>1, FS_Interval
<1>3. s \in Surjection(D, Range(s))
    BY <1>1 DEF Range, Surjection
<1>4. IsFiniteSet(Range(s))
    BY <1>2, <1>3, FS_Surjection
<1>5. s \in Injection(D, Range(s))
    BY <1>1, <1>3 DEF Injection, Surjection
<1>6. Cardinality(D) = Cardinality(Range(s))
    BY <1>3, <1>4, <1>5, FS_Injection
<1> QED BY <1>2, <1>6

-------------------------------------------------------------------------------
(* The discovery. *)

LEMMA OwnAreBackends == Own \subseteq Backends /\ IsFiniteSet(Backends)
    BY DiscoveryAssumption

LEMMA DiscoverCorrect == DiscoveryInv /\ Discover => DiscoveryInv'
    BY DEF DiscoveryInv, Discover

LEMMA ForgetCorrect == DiscoveryInv /\ Forget => DiscoveryInv'
<1> SUFFICES ASSUME DiscoveryInv, Forget PROVE DiscoveryInv'
    OBVIOUS
<1> QED BY DEF DiscoveryInv, Forget

LEMMA GetObjectsCorrect == DiscoveryInv /\ GetObjects => DiscoveryInv'
<1> SUFFICES ASSUME DiscoveryInv, GetObjects PROVE DiscoveryInv'
    OBVIOUS
<1>1. /\ present' \subseteq Backends /\ found' = <<>> /\ answered' \subseteq Backends
      /\ pc' \in {"ask", "crashed"}
      /\ found' \in Seq(Own) /\ IsInjective(found') /\ Range(found') = {}
    BY DEF DiscoveryInv, GetObjects, IsInjective, Range
<1>2. /\ asking' \in Seq(Backends) /\ IsInjective(asking')
      /\ answered' \subseteq Range(asking')
    <2>1. CASE asking' = <<>> /\ answered' = {}
        BY <2>1 DEF IsInjective
    <2>2. CASE asking' \in SetToSeqs(present) /\ answered' = present
        <3>1. IsFiniteSet(present)
            BY OwnAreBackends, FS_Subset DEF DiscoveryInv
        <3>2. asking' \in Seq(present) /\ IsInjective(asking') /\ Range(asking') = present
            BY <2>2, <3>1, ListedOnce
        <3>3. asking' \in Seq(Backends)
            BY <3>2 DEF DiscoveryInv
        <3> QED BY <2>2, <3>2, <3>3
    <2> QED BY <2>1, <2>2 DEF GetObjects
<1> QED BY <1>1, <1>2 DEF DiscoveryInv

LEMMA AskNextCorrect == DiscoveryInv /\ AskNext => DiscoveryInv'
<1> SUFFICES ASSUME DiscoveryInv, AskNext PROVE DiscoveryInv'
    OBVIOUS
<1> DEFINE path == Head(asking)
<1>1. /\ pc = "ask" /\ asking # <<>> /\ asking' = Tail(asking) /\ UNCHANGED <<present, pc>>
      /\ asking \in Seq(Backends) /\ found \in Seq(Own) /\ IsInjective(asking) /\ IsInjective(found)
      /\ Range(asking) \cap Range(found) = {}
      /\ answered \cap Own \subseteq Range(asking) \cup Range(found)
    BY DEF DiscoveryInv, AskNext
<1>2. /\ asking' \in Seq(Backends) /\ path \in Backends /\ IsInjective(asking')
      /\ path \in Range(asking) /\ Range(asking') = Range(asking) \ {path}
    BY <1>1, TailTakesHead
<1>3. PICK gone \in BOOLEAN :
        /\ found' = IF pathIsMediaManager(path, gone) THEN Append(found, path) ELSE found
        /\ answered' = IF gone THEN answered \ {path} ELSE answered
    BY DEF AskNext
<1> HIDE DEF path
<1>4. /\ found' \in Seq(Own) /\ IsInjective(found')
      /\ Range(found') = IF ~gone /\ path \in Own THEN Range(found) \cup {path} ELSE Range(found)
    <2>1. CASE ~gone /\ path \in Own
        <3>1. found' = Append(found, path) /\ path \notin Range(found)
            BY <1>1, <1>2, <1>3, <2>1 DEF pathIsMediaManager
        <3> QED BY <1>1, <2>1, <3>1, AppendAdds
    <2>2. CASE ~(~gone /\ path \in Own)
        BY <1>1, <1>3, <2>2 DEF pathIsMediaManager
    <2> QED BY <2>1, <2>2
<1>5. answered' \cap Own \subseteq Range(asking') \cup Range(found')
    BY <1>1, <1>2, <1>3, <1>4
<1>6. Range(asking') \cap Range(found') = {} /\ answered' \subseteq Backends
    BY <1>1, <1>2, <1>3, <1>4 DEF DiscoveryInv
<1> QED BY <1>1, <1>2, <1>4, <1>5, <1>6 DEF DiscoveryInv

\* A device that comes or leaves does not disturb a discovery.
LEMMA DevicesMove ==
    ASSUME DiscoveryInv, NEW path \in Backends, DeviceLeaves(path) \/ DeviceComes(path)
    PROVE  DiscoveryInv'
<1>1. /\ UNCHANGED <<pc, asking, found>> /\ present' \subseteq Backends
      /\ answered' \subseteq answered
    BY DEF DiscoveryInv, DeviceLeaves, DeviceComes
<1> QED BY <1>1 DEF DiscoveryInv

-------------------------------------------------------------------------------
(* The player. *)

LEMMA EntriesFacts ==
    /\ Len(Queue) \in Nat \ {0} /\ Entries = 0 .. (Len(Queue) - 1) /\ 0 \in Entries
    /\ Unset \in Nat /\ Entries \subseteq Int /\ MaxStops \in Nat
    BY RenderersAssumption, WidthFacts DEF Entries

LEMMA InitCorrect == Init => Inv
<1> SUFFICES ASSUME Init PROVE Inv
    OBVIOUS
<1>1. DiscoveryInv
    BY DEF Init, DiscoveryInit, DiscoveryInv
<1>2. RendererInv
    <2>1. device \in [Backends -> Devices] /\ \A r \in Backends : ~device[r].driven
        BY EntriesFacts DEF Init, Devices, States
    <2>2. OnlyOwnDriven
        BY <2>1 DEF OnlyOwnDriven
    <2>3. stops \in Seq(Backends) /\ Len(stops) <= MaxStops
        BY EntriesFacts DEF Init
    <2>4. /\ playQueuePosition \in Entries \cup {Unset} /\ op = "none"
          /\ subscribed \in BOOLEAN /\ missed \in BOOLEAN
        BY DEF Init
    <2> QED BY <2>1, <2>2, <2>3, <2>4 DEF RendererInv
<1>3. SelectedInv
    BY OwnAreBackends DEF Init, SelectedInv
<1> QED BY <1>1, <1>2, <1>3 DEF Inv

\* next() selects an entry and is about to open it, or selects nothing.
LEMMA StartNextCorrect ==
    ASSUME Inv, StartNext, stops' \in Seq(Backends), Len(stops') <= MaxStops
    PROVE  Inv'
<1> DEFINE new == Target(Queue, playQueuePosition, 1, m_repeat)
<1>1. /\ Discover /\ UNCHANGED <<m_repeat, subscribed, device>>
      /\ \/ new # NoTrack /\ playQueuePosition' = new /\ op' = "open" /\ missed' = TRUE
         \/ new = NoTrack /\ op' = "pause" /\ UNCHANGED <<playQueuePosition, missed>>
    BY DEF StartNext
<1>2. new # NoTrack => new \in Entries
    BY EntriesFacts, RenderersAssumption, TargetInQueue DEF Inv, RendererInv
<1> HIDE DEF new
<1>3. DiscoveryInv'
    BY <1>1, DiscoverCorrect DEF Inv
<1>4. RendererInv'
    BY <1>1, <1>2 DEF Inv, RendererInv, OnlyOwnDriven
<1>5. SelectedInv'
    BY <1>1 DEF Inv, SelectedInv
<1> QED BY <1>3, <1>4, <1>5 DEF Inv

LEMMA ClientsCorrect == Inv /\ (clientNext \/ clientPause \/ HandleStopped) => Inv'
<1> SUFFICES ASSUME Inv PROVE clientNext \/ clientPause \/ HandleStopped => Inv'
    OBVIOUS
<1>1. stops \in Seq(Backends) /\ Len(stops) <= MaxStops
    BY DEF Inv, RendererInv
<1>2. ASSUME clientNext PROVE Inv'
    BY <1>1, <1>2, StartNextCorrect DEF clientNext
<1>3. ASSUME clientPause PROVE Inv'
    <2>1. DiscoveryInv'
        BY <1>3, DiscoverCorrect DEF Inv, clientPause
    <2>2. RendererInv' /\ SelectedInv'
        BY <1>3 DEF Inv, RendererInv, OnlyOwnDriven, SelectedInv, clientPause, deviceVars
    <2> QED BY <2>1, <2>2 DEF Inv
<1>4. ASSUME HandleStopped PROVE Inv'
    <2>1. stops' = Tail(stops) /\ stops # <<>> /\ StartNext
        BY <1>4 DEF HandleStopped
    <2>2. stops' \in Seq(Backends) /\ Len(stops') <= MaxStops
        BY <1>1, <2>1, EntriesFacts
    <2> QED BY <2>1, <2>2, StartNextCorrect
<1> QED BY <1>2, <1>3, <1>4

LEMMA DiscoveryStepCorrect == Inv /\ DiscoveryStep => Inv'
<1> SUFFICES ASSUME Inv, DiscoveryStep PROVE Inv'
    OBVIOUS
<1>1. DiscoveryInv'
    BY GetObjectsCorrect, AskNextCorrect DEF Inv, DiscoveryStep
<1>2. RendererInv' /\ SelectedInv'
    BY DEF Inv, RendererInv, OnlyOwnDriven, SelectedInv, DiscoveryStep, playerVars, deviceVars
<1> QED BY <1>1, <1>2 DEF Inv

LEMMA NoPlayerCorrect == Inv /\ NoPlayer => Inv'
<1> SUFFICES ASSUME Inv, NoPlayer PROVE Inv'
    OBVIOUS
<1>1. DiscoveryInv'
    BY ForgetCorrect DEF Inv, NoPlayer
<1>2. RendererInv' /\ SelectedInv'
    BY DEF Inv, RendererInv, OnlyOwnDriven, SelectedInv, NoPlayer, deviceVars
<1> QED BY <1>1, <1>2 DEF Inv

LEMMA CallRendererCorrect == Inv /\ CallRenderer => Inv'
<1> SUFFICES ASSUME Inv, CallRenderer PROVE Inv'
    OBVIOUS
<1> DEFINE r == Head(found)
<1>1. /\ Forget /\ found # <<>> /\ found \in Seq(Own) /\ subscribed' = TRUE /\ op' = "none"
      /\ UNCHANGED <<playQueuePosition, m_repeat, stops>>
    BY DEF Inv, DiscoveryInv, CallRenderer
<1>2. r \in Own /\ r \in Backends
    <2>1. r \in Own
        BY <1>1
    <2> QED BY <2>1, OwnAreBackends
<1>3. DiscoveryInv'
    BY <1>1, ForgetCorrect DEF Inv
<1>4. CASE UNCHANGED <<device, missed>>
    <2>1. UNCHANGED <<device, missed>>
        BY <1>4
    <2>2. RendererInv' /\ SelectedInv'
        BY <1>1, <2>1 DEF Inv, RendererInv, OnlyOwnDriven, SelectedInv
    <2> QED BY <1>3, <2>2 DEF Inv
<1>5. CASE /\ device' = [device EXCEPT
                    ![r].driven = TRUE,
                    ![r].state  = IF op = "open" THEN "Playing"
                                  ELSE IF @ = "Playing" THEN "Paused" ELSE @,
                    ![r].entry  = IF op = "open" THEN playQueuePosition ELSE @]
           /\ missed' = (missed /\ op # "open")
    <2> DEFINE was == device[r]
               state == IF op = "open" THEN "Playing"
                        ELSE IF was.state = "Playing" THEN "Paused" ELSE was.state
               entry == IF op = "open" THEN playQueuePosition ELSE was.entry
               d == [was EXCEPT !.driven = TRUE, !.state = state, !.entry = entry]
    <2>1. device \in [Backends -> Devices] /\ was \in Devices
        BY <1>2 DEF Inv, RendererInv
    <2>2. device' = [device EXCEPT ![r] = d] /\ missed' = (missed /\ op # "open")
        BY <1>2, <1>5, <2>1
    <2>3. state \in States /\ entry \in Entries
        BY <2>1 DEF Inv, RendererInv, Devices, States
    <2>4. d \in Devices /\ d.state = state /\ d.entry = entry
        <3> HIDE DEF was, state, entry
        <3> QED BY <2>1, <2>3 DEF Devices
    <2> HIDE DEF d, r
    <2>5. /\ device' \in [Backends -> Devices] /\ device'[r] = d
          /\ \A u \in Backends : u # r => device'[u] = device[u]
        BY <1>2, <2>1, <2>2, <2>4
    <2>6. OnlyOwnDriven'
        BY <1>2, <2>5 DEF Inv, RendererInv, OnlyOwnDriven
    <2>7. missed' \in BOOLEAN
        BY <2>2
    <2>8. RendererInv'
        BY <1>1, <2>5, <2>6, <2>7 DEF Inv, RendererInv
    <2>9. SelectedInv'
        <3> SUFFICES ASSUME OneOwn, ~missed', NEW u \in Own, device'[u].state = "Playing"
                     PROVE  device'[u].entry = playQueuePosition'
            BY DEF SelectedInv
        <3>1. u = r /\ device'[u] = d
            BY <1>2, <2>5 DEF OneOwn
        <3>2. CASE op = "open"
            BY <1>1, <2>4, <3>1, <3>2
        <3>3. CASE op # "open"
            <4>1. ~missed /\ state # "Playing"
                BY <2>2, <3>3 DEF Inv, RendererInv
            <4> QED BY <2>4, <3>1, <4>1
        <3> QED BY <3>2, <3>3
    <2> QED BY <1>3, <2>8, <2>9 DEF Inv
<1>6. CASE device' = [device EXCEPT ![r].driven = TRUE] /\ UNCHANGED missed
    <2> DEFINE d == [device[r] EXCEPT !.driven = TRUE]
    <2>1. device \in [Backends -> Devices] /\ device[r] \in Devices
        BY <1>2 DEF Inv, RendererInv
    <2>2. d \in Devices /\ d.state = device[r].state /\ d.entry = device[r].entry
        BY <2>1 DEF Devices
    <2>3. device' = [device EXCEPT ![r] = d]
        BY <1>6
    <2> HIDE DEF d, r
    <2>4. /\ device' \in [Backends -> Devices] /\ device'[r] = d
          /\ \A u \in Backends : u # r => device'[u] = device[u]
        BY <1>2, <2>1, <2>2, <2>3
    <2>5. OnlyOwnDriven'
        BY <1>2, <2>4 DEF Inv, RendererInv, OnlyOwnDriven
    <2>6. RendererInv'
        BY <1>1, <1>6, <2>4, <2>5 DEF Inv, RendererInv
    <2>7. SelectedInv'
        BY <1>1, <1>2, <1>6, <2>2, <2>4, OwnAreBackends DEF Inv, SelectedInv
    <2> QED BY <1>3, <2>6, <2>7 DEF Inv
<1> QED BY <1>4, <1>5, <1>6 DEF CallRenderer

\* A device that stops, or a foreign one that plays.
LEMMA DeviceChanges ==
    ASSUME Inv, NEW r \in Backends, NEW state \in States, state = "Playing" => r \notin Own,
           device' = [device EXCEPT ![r].state = state], UNCHANGED playerVars,
           stops' \in Seq(Backends), Len(stops') <= MaxStops
    PROVE  RendererInv' /\ SelectedInv'
<1> DEFINE d == [device[r] EXCEPT !.state = state]
<1>1. device \in [Backends -> Devices] /\ device[r] \in Devices
    BY DEF Inv, RendererInv
<1>2. d \in Devices /\ d.state = state /\ d.entry = device[r].entry /\ d.driven = device[r].driven
    BY <1>1 DEF Devices
<1>3. device' = [device EXCEPT ![r] = d]
    OBVIOUS
<1> HIDE DEF d
<1>4. /\ device' \in [Backends -> Devices] /\ device'[r] = d
      /\ \A u \in Backends : u # r => device'[u] = device[u]
    BY <1>1, <1>2, <1>3
<1>5. OnlyOwnDriven'
    BY <1>2, <1>4 DEF Inv, RendererInv, OnlyOwnDriven
<1>6. RendererInv'
    BY <1>4, <1>5 DEF Inv, RendererInv, playerVars
<1>7. SelectedInv'
    BY <1>2, <1>4, OwnAreBackends DEF Inv, SelectedInv, playerVars
<1> QED BY <1>6, <1>7

LEMMA DevicesCorrect ==
    ASSUME Inv, NEW r \in Backends, TrackEnds(r) \/ OthersPlay(r) \/ Leaves(r) \/ Comes(r)
    PROVE  Inv'
<1>1. stops \in Seq(Backends) /\ Len(stops) <= MaxStops /\ MaxStops \in Nat
    BY EntriesFacts DEF Inv, RendererInv
<1>2. "Stopped" \in States /\ "Playing" \in States
    BY DEF States
<1>3. CASE TrackEnds(r)
    <2>1. stops' \in Seq(Backends) /\ Len(stops') <= MaxStops
        BY <1>1, <1>3 DEF TrackEnds
    <2>2. RendererInv' /\ SelectedInv'
        BY <1>2, <1>3, <2>1, DeviceChanges DEF TrackEnds
    <2>3. DiscoveryInv'
        BY <1>3 DEF Inv, DiscoveryInv, TrackEnds, discoveryVars
    <2> QED BY <2>2, <2>3 DEF Inv
<1>4. CASE OthersPlay(r)
    <2>1. RendererInv' /\ SelectedInv'
        BY <1>1, <1>2, <1>4, DeviceChanges DEF OthersPlay
    <2>2. DiscoveryInv'
        BY <1>4 DEF Inv, DiscoveryInv, OthersPlay, discoveryVars
    <2> QED BY <2>1, <2>2 DEF Inv
<1>5. CASE Leaves(r)
    <2>1. RendererInv' /\ SelectedInv'
        BY <1>1, <1>2, <1>5, DeviceChanges DEF Leaves
    <2> QED BY <1>5, <2>1, DevicesMove DEF Inv, Leaves
<1>6. CASE Comes(r)
    <2>1. RendererInv' /\ SelectedInv'
        BY <1>6 DEF Inv, RendererInv, OnlyOwnDriven, SelectedInv, Comes, playerVars, deviceVars
    <2> QED BY <1>6, <2>1, DevicesMove DEF Inv, Comes
<1> QED BY <1>3, <1>4, <1>5, <1>6

LEMMA StepCorrect == Inv /\ [Next]_vars => Inv'
<1> SUFFICES ASSUME Inv, [Next]_vars PROVE Inv'
    OBVIOUS
<1>1. CASE UNCHANGED vars
    BY <1>1 DEF Inv, DiscoveryInv, RendererInv, OnlyOwnDriven, SelectedInv, vars, discoveryVars,
                playerVars, deviceVars
<1> QED BY <1>1, ClientsCorrect, DiscoveryStepCorrect, NoPlayerCorrect, CallRendererCorrect,
           DevicesCorrect DEF Next

LEMMA Invariant == Spec => []Inv
<1> QED BY InitCorrect, StepCorrect, PTL DEF Spec

-------------------------------------------------------------------------------
\* Whatever devices do, the fields, the devices and the pending signals keep
\* their types, and an entry that is played is one of the queue.
THEOREM RenderersTypeCorrect == Spec => []TypeOK
<1>1. Inv => TypeOK
    <2> SUFFICES ASSUME Inv PROVE TypeOK
        OBVIOUS
    <2>1. Range(asking) \subseteq Backends /\ Range(found) \subseteq Own
        BY DEF Inv, DiscoveryInv, Range
    <2>2. Range(asking) \cup Range(found) \cup answered \subseteq Backends
        BY <2>1, OwnAreBackends DEF Inv, DiscoveryInv
    <2> QED BY <2>2 DEF Inv, DiscoveryInv, RendererInv, TypeOK, Devices, States
<1> QED BY <1>1, Invariant, PTL

\* For any number of devices that leave, come and fail to answer while they are
\* asked: one of our own that was there all along is found, once, and no other
\* (common.cpp:350-354).
THEOREM DiscoveryCorrect == Spec => []DiscoveryIsRegular
<1>1. Inv => DiscoveryIsRegular
    <2> SUFFICES ASSUME Inv, Discovered PROVE DiscoveryIsRegular
        BY DEF DiscoveryIsRegular
    <2>1. /\ found \in Seq(Own) /\ IsInjective(found) /\ asking = <<>>
          /\ answered \cap Own \subseteq Range(asking) \cup Range(found)
        BY DEF Inv, DiscoveryInv, Discovered
    <2>2. Range(asking) = {} /\ Range(found) \subseteq Own
        BY <2>1 DEF Range
    <2>3. Len(found) = Cardinality(Range(found))
        BY <2>1, DistinctCount
    <2> QED BY <2>1, <2>2, <2>3 DEF DiscoveryIsRegular
<1> QED BY <1>1, Invariant, PTL

\* No renderer of somebody else is ever driven (playerprovider.cpp:37-46).
THEOREM DrivenCorrect == Spec => []OnlyOwnDriven
<1>1. Inv => OnlyOwnDriven
    BY DEF Inv, RendererInv
<1> QED BY <1>1, Invariant, PTL

\* With one renderer of our own, what it plays is the selected entry, for every
\* queue and any number of foreign renderers whose signals move it
\* (playerprovider.cpp:255-266).
THEOREM SelectedCorrect ==
    ASSUME \A r, s \in Own : r = s
    PROVE  Spec => []OwnPlaysSelected
<1>1. Inv => OwnPlaysSelected
    BY DEF Inv, SelectedInv, OneOwn, OwnPlaysSelected
<1> QED BY <1>1, Invariant, PTL
===============================================================================
