-------------------------- MODULE PlayerThreadsProofs --------------------------
(***************************************************************************)
(* What holds of overlapping handlers for every queue, playlist, number of *)
(* calls and failures.  The invariant follows each handler through its     *)
(* steps (ThreadsInv), says who is about to replace what was freed         *)
(* (FreedInv), and counts the subscriptions (SubscribedInv).               *)
(***************************************************************************)
EXTENDS PlayerThreads, PlayQueueProofs, FiniteSetTheorems, TLAPS

PCs == {"idle", "release", "replace", "measure", "add", "choose", "store", "publishNext",
        "publishPrevious", "fetch", "read", "discover", "connect", "register", "registered",
        "call"}
Ops == {"none", "next", "previous", "pause", "play", "openPlaylist"}

Handlers == [pc : PCs, op : Ops, size : Int, new : Int, uri : Items \cup {NoUri},
             dangling : BOOLEAN, alone : BOOLEAN]

\* A size that was read is that of a queue, and a position that will be stored is
\* one of a queue; an item in hand was freed only by the other thread.
HandlerOK(h) ==
    /\ h.pc \in {"add", "choose"} => h.size < MaxQueue
    /\ h.pc = "store" => h.new \in 0 .. (MaxQueue - 1)
    /\ h.pc \in {"release", "replace"} => h.op = "openPlaylist"
    /\ h.dangling => ~h.alone

\* Two handlers under way know of each other.
Overlap == (\A t \in Threads : ~At(t, "idle")) => \A t \in Threads : ~threads[t].alone

ThreadsInv ==
    /\ threads \in [Threads -> Handlers]
    /\ \A t \in Threads : HandlerOK(threads[t])
    /\ Overlap

\* Who freed something replaces it before anything else.
FreedInv ==
    /\ mp = "freed" => \E t \in Threads : At(t, "connect")
    /\ queuePtr = "freed" => \E t \in Threads : At(t, "replace")
    /\ OneAtATimeIsSafe

\* Until the handler id is set, each subscription is one of a thread that is
\* about to set it.
Subscribing(t) == IF At(t, "registered") THEN 1 ELSE 0
SubscribedInv ==
    /\ subscriptions \in Nat /\ subscriptions <= 2
    /\ ~m_signalHandlerId => subscriptions = Subscribing(Client) + Subscribing(Loop)

FieldsInv ==
    /\ playqueue \in Seq(Items) /\ Len(playqueue) <= MaxQueue
    /\ playQueuePosition \in Nat /\ PositionInRange /\ m_repeat \in RepeatModes
    /\ canGoNext \in BOOLEAN /\ canGoPrevious \in BOOLEAN
    /\ m_signalHandlerId \in BOOLEAN /\ undefined \in BOOLEAN
    /\ mp \in {"null", "live", "freed"} /\ queuePtr \in {"null", "live", "freed"}
    /\ renderer \in [state : {"Playing", "Paused", "Stopped"}, uri : Items \cup {NoUri}]
    /\ stops \in 0 .. MaxStops

Inv == FieldsInv /\ ThreadsInv /\ FreedInv /\ SubscribedInv

-------------------------------------------------------------------------------
LEMMA OtherThread ==
    /\ Client # Loop /\ Threads = {Client, Loop}
    /\ Other(Client) = Loop /\ Other(Loop) = Client
    /\ \A t \in Threads : Other(t) \in Threads /\ Other(t) # t
    /\ \A t, u \in Threads : u = t \/ u = Other(t)
<1>1. Client # Loop
    BY ThreadsAssumption
<1>2. Threads = {Client, Loop}
    BY DEF Threads
<1>3. Other(Client) = Loop /\ Other(Loop) = Client
    BY <1>1, <1>2 DEF Other
<1> QED BY <1>1, <1>2, <1>3

LEMMA IdleType == Idle \in Handlers /\ HandlerOK(Idle) /\ Idle.pc = "idle" /\ Idle.alone
    BY DEF Idle, Handlers, HandlerOK, PCs, Ops

\* A step of one handler, up to its end perhaps, keeps what holds of both.
LEMMA MoveKeepsThreads ==
    ASSUME ThreadsInv, NEW t \in Threads, NEW h \in Handlers, HandlerOK(h),
           ~At(t, "idle"), threads' = [threads EXCEPT ![t] = h],
           h.pc = "idle" \/ h.alone = threads[t].alone
    PROVE  /\ ThreadsInv'
           /\ threads'[t] = h /\ threads'[Other(t)] = threads[Other(t)]
<1>1. Other(t) \in Threads /\ Other(t) # t /\ \A u \in Threads : u = t \/ u = Other(t)
    BY OtherThread
<1>2. threads' \in [Threads -> Handlers] /\ threads'[t] = h /\ threads'[Other(t)] = threads[Other(t)]
    BY <1>1 DEF ThreadsInv
<1>3. \A u \in Threads : HandlerOK(threads'[u])
    BY <1>1, <1>2 DEF ThreadsInv
<1>4. Overlap'
    BY <1>1, <1>2 DEF ThreadsInv, Overlap, At
<1> QED BY <1>2, <1>3, <1>4 DEF ThreadsInv, HandlerOK

\* What the other handler is about to replace stays its business.
LEMMA MoveKeepsFreed ==
    ASSUME FreedInv, NEW t \in Threads, ~undefined, ~undefined',
           threads'[Other(t)].pc = threads[Other(t)].pc,
           mp' = "freed" => At(t, "connect")' \/ (mp' = mp /\ ~At(t, "connect")),
           queuePtr' = "freed" => At(t, "replace")' \/ (queuePtr' = queuePtr /\ ~At(t, "replace"))
    PROVE  FreedInv'
<1>1. Other(t) \in Threads /\ \A u \in Threads : u = t \/ u = Other(t)
    BY OtherThread
<1>2. (mp = "freed" /\ ~At(t, "connect") => At(Other(t), "connect")')
      /\ (queuePtr = "freed" /\ ~At(t, "replace") => At(Other(t), "replace")')
    BY <1>1 DEF FreedInv, At
<1> QED BY <1>1, <1>2 DEF FreedInv, OneAtATimeIsSafe

LEMMA MoveKeepsSubscribed ==
    ASSUME SubscribedInv, NEW t \in Threads,
           threads'[Other(t)].pc = threads[Other(t)].pc,
           ~At(t, "registered"), ~At(t, "registered")',
           UNCHANGED <<subscriptions, m_signalHandlerId>>
    PROVE  SubscribedInv'
<1>1. \A u \in Threads : u = t \/ u = Other(t)
    BY OtherThread
<1>2. \A u \in Threads : Subscribing(u)' = Subscribing(u)
    BY <1>1 DEF Subscribing, At
<1>3. Client \in Threads /\ Loop \in Threads
    BY OtherThread
<1> QED BY <1>2, <1>3 DEF SubscribedInv

\* Freed memory is used only while the other thread is under way.
LEMMA BreaksCorrect ==
    ASSUME Inv, NEW t \in Threads, Breaks, ~At(t, "idle"),
           \/ mp = "freed" /\ ~At(t, "connect")
           \/ queuePtr = "freed" /\ ~At(t, "replace")
           \/ threads[t].dangling
    PROVE  Inv'
<1>1. UNCHANGED <<threads, mp, queuePtr, subscriptions, m_signalHandlerId>> /\ undefined' = TRUE
    BY DEF Breaks, proxyVars, queueVars
<1>2. \E u \in Threads : ~threads[u].alone
    <2>1. Other(t) \in Threads /\ \A u \in Threads : u = t \/ u = Other(t)
        BY OtherThread
    <2>2. CASE threads[t].dangling
        BY <2>2 DEF Inv, ThreadsInv, HandlerOK
    <2>3. CASE ~threads[t].dangling
        <3>1. ~At(Other(t), "idle")
            BY <2>1, <2>3 DEF Inv, FreedInv, At
        <3> QED BY <2>1, <3>1 DEF Inv, ThreadsInv, Overlap
    <2> QED BY <2>2, <2>3
<1>3. FieldsInv'
    BY DEF Inv, FieldsInv, PositionInRange, Breaks, queueVars, attributes, proxyVars, deviceVars
<1>4. ThreadsInv'
    BY <1>1 DEF Inv, ThreadsInv, Overlap, HandlerOK, At
<1>5. FreedInv'
    BY <1>1, <1>2 DEF Inv, FreedInv, OneAtATimeIsSafe, At
<1>6. SubscribedInv'
    BY <1>1 DEF Inv, SubscribedInv, Subscribing, At
<1> QED BY <1>3, <1>4, <1>5, <1>6 DEF Inv

\* A handler that only goes on to its next step.
LEMMA GotoKeepsThreads ==
    ASSUME ThreadsInv, NEW t \in Threads, NEW pc \in PCs \ {"idle", "add", "choose", "store", "release", "replace"},
           ~At(t, "idle"), Goto(t, pc)
    PROVE  /\ ThreadsInv'
           /\ threads'[t].pc = pc /\ threads'[Other(t)] = threads[Other(t)]
<1> DEFINE h == [threads[t] EXCEPT !.pc = pc]
<1>1. threads[t] \in Handlers /\ HandlerOK(threads[t])
    BY DEF ThreadsInv
<1>2. h \in Handlers /\ h.pc = pc /\ h.alone = threads[t].alone
    BY <1>1 DEF Handlers
<1>3. HandlerOK(h)
    BY <1>1 DEF HandlerOK, Handlers
<1>4. threads' = [threads EXCEPT ![t] = h]
    BY DEF Goto
<1> HIDE DEF h
<1> QED BY <1>2, <1>3, <1>4, MoveKeepsThreads

\* A handler that is done.
LEMMA DoneKeepsThreads ==
    ASSUME ThreadsInv, NEW t \in Threads, ~At(t, "idle"), Done(t)
    PROVE  /\ ThreadsInv'
           /\ threads'[t].pc = "idle" /\ threads'[Other(t)] = threads[Other(t)]
<1>1. threads' = [threads EXCEPT ![t] = Idle]
    BY DEF Done
<1> QED BY <1>1, IdleType, MoveKeepsThreads

-------------------------------------------------------------------------------
(* The steps. *)

LEMMA InitCorrect == Init => Inv
<1> SUFFICES ASSUME Init PROVE Inv
    OBVIOUS
<1>1. threads = [t \in Threads |-> Idle] /\ Client \in Threads /\ Loop \in Threads
    BY OtherThread DEF Init
<1>2. ThreadsInv
    <2>1. threads \in [Threads -> Handlers] /\ \A t \in Threads : threads[t] = Idle
        BY <1>1, IdleType
    <2> QED BY <1>1, <2>1, IdleType DEF ThreadsInv, Overlap, At
<1>3. FieldsInv
    <2>1. playqueue \in Seq(Items) /\ Len(playqueue) <= MaxQueue /\ stops \in 0 .. MaxStops
        BY ThreadsAssumption DEF Init
    <2>2. playQueuePosition \in Nat /\ PositionInRange
        BY WidthFacts DEF Init, PositionInRange
    <2>3. renderer \in [state : {"Playing", "Paused", "Stopped"}, uri : Items \cup {NoUri}]
        BY DEF Init
    <2> QED BY <2>1, <2>2, <2>3 DEF Init, FieldsInv, RepeatModes
<1>4. FreedInv
    BY DEF Init, FreedInv, OneAtATimeIsSafe
<1>5. SubscribedInv
    <2>1. ~At(Client, "registered") /\ ~At(Loop, "registered")
        BY <1>1, IdleType DEF At
    <2> QED BY <2>1 DEF Init, SubscribedInv, Subscribing
<1> QED BY <1>2, <1>3, <1>4, <1>5 DEF Inv

Started(pc, op, increment, alone) ==
    [Idle EXCEPT !.pc = pc, !.op = op, !.new = increment, !.alone = alone]

LEMMA StartedType ==
    ASSUME NEW pc \in PCs, NEW op \in Ops, NEW increment \in Int, NEW alone \in BOOLEAN
    PROVE  LET h == Started(pc, op, increment, alone)
           IN  h \in Handlers /\ h.pc = pc /\ h.op = op /\ ~h.dangling /\ h.alone = alone
<1> DEFINE h == Started(pc, op, increment, alone)
<1>1. h.pc = pc
    BY DEF Started, Idle
<1>2. h.op = op
    BY DEF Started, Idle
<1>3. ~h.dangling
    BY DEF Started, Idle
<1>4. h.alone = alone
    BY DEF Started, Idle
<1>5. h \in Handlers
    BY IdleType DEF Started, Handlers
<1> QED BY <1>1, <1>2, <1>3, <1>4, <1>5

LEMMA IncrementsType ==
    ASSUME FieldsInv, NEW op PROVE Increments(op) \subseteq Int
<1>1. playqueue \in Seq(Items) /\ playQueuePosition \in Int
    BY DEF FieldsInv
<1>2. NextIncrements(playqueue, playQueuePosition, m_repeat, FALSE) \subseteq Int
    BY <1>1, NextIncrementsType
<1>3. CASE op = "next"
    BY <1>2, <1>3 DEF Increments
<1>4. CASE op # "next"
    <2>1. Increments(op) = {-1} \/ Increments(op) = {0}
        BY <1>4 DEF Increments
    <2> QED BY <2>1
<1> QED BY <1>3, <1>4

\* A handler that starts tells the other one.
LEMMA StartsKeepsThreads ==
    ASSUME FieldsInv, ThreadsInv, NEW t \in Threads,
           NEW pc \in {"measure", "discover", "release"}, NEW op \in Ops,
           At(t, "idle"), Starts(t, pc, op), pc = "release" => op = "openPlaylist"
    PROVE  /\ ThreadsInv'
           /\ threads'[t].pc = pc /\ threads'[Other(t)].pc = threads[Other(t)].pc
<1> DEFINE alone == At(Other(t), "idle")
<1>0. PICK increment \in Increments(op) :
        threads' = [threads EXCEPT
                ![t] = [Idle EXCEPT !.pc = pc, !.op = op, !.new = increment, !.alone = alone],
                ![Other(t)].alone = @ /\ alone]
    BY DEF Starts
<1> DEFINE h == Started(pc, op, increment, alone)
           g == [threads[Other(t)] EXCEPT !.alone = @ /\ alone]
<1>1. Other(t) \in Threads /\ Other(t) # t /\ \A u \in Threads : u = t \/ u = Other(t)
    BY OtherThread
<1>2. threads[Other(t)] \in Handlers /\ HandlerOK(threads[Other(t)])
    BY <1>1 DEF ThreadsInv
<1>3. h \in Handlers /\ h.pc = pc /\ h.alone = alone /\ HandlerOK(h)
    <2>1. alone \in BOOLEAN
        BY DEF At
    <2> HIDE DEF alone
    <2>2. h \in Handlers /\ h.pc = pc /\ h.op = op /\ ~h.dangling /\ h.alone = alone
        <3>1. pc \in PCs /\ increment \in Int
            BY IncrementsType DEF PCs
        <3> QED BY <2>1, <3>1, StartedType
    <2> HIDE DEF h
    <2> QED BY <2>2 DEF HandlerOK
<1>4. /\ g \in Handlers /\ g.pc = threads[Other(t)].pc /\ HandlerOK(g)
      /\ g.alone = (threads[Other(t)].alone /\ alone)
    <2>1. alone \in BOOLEAN
        BY DEF At
    <2> HIDE DEF alone
    <2> QED BY <1>2, <2>1 DEF Handlers, HandlerOK
<1>5. threads' = [threads EXCEPT ![t] = h, ![Other(t)] = g]
    BY <1>0, <1>1 DEF Started, ThreadsInv
<1>6. threads' \in [Threads -> Handlers] /\ threads'[t] = h /\ threads'[Other(t)] = g
    <2> HIDE DEF h, g
    <2> QED BY <1>1, <1>3, <1>4, <1>5 DEF ThreadsInv
<1>7. Overlap'
    <2>1. At(t, "idle")' <=> pc = "idle"
        BY <1>3, <1>6 DEF At
    <2>2. At(Other(t), "idle")' <=> alone
        BY <1>4, <1>6 DEF At
    <2>3. ~alone => ~threads'[t].alone /\ ~threads'[Other(t)].alone
        BY <1>3, <1>4, <1>6
    <2> HIDE DEF alone, h, g
    <2> QED BY <1>1, <2>1, <2>2, <2>3 DEF Overlap
<1>8. \A u \in Threads : HandlerOK(threads'[u])
    <2> HIDE DEF h, g
    <2> QED BY <1>1, <1>3, <1>4, <1>6
<1> QED BY <1>3, <1>4, <1>6, <1>7, <1>8 DEF ThreadsInv, HandlerOK

\* A handler starts and nothing but stops changes besides.
LEMMA StartCorrect ==
    ASSUME Inv, ~undefined, NEW t \in Threads, NEW pc \in {"measure", "discover", "release"},
           NEW op \in Ops, At(t, "idle"), Starts(t, pc, op), pc = "release" => op = "openPlaylist",
           UNCHANGED <<queueVars, playQueuePosition, m_repeat, attributes, proxyVars, renderer,
                       undefined>>,
           stops' \in 0 .. MaxStops
    PROVE  Inv'
<1>1. ThreadsInv' /\ threads'[t].pc = pc /\ threads'[Other(t)].pc = threads[Other(t)].pc
    BY StartsKeepsThreads DEF Inv
<1>2. FieldsInv'
    BY DEF Inv, FieldsInv, PositionInRange, queueVars, attributes, proxyVars
<1>3. FreedInv'
    BY <1>1, MoveKeepsFreed DEF Inv, queueVars, proxyVars, At
<1>4. SubscribedInv'
    BY <1>1, MoveKeepsSubscribed DEF Inv, proxyVars, At
<1> QED BY <1>1, <1>2, <1>3, <1>4 DEF Inv

LEMMA DispatchCorrect == Inv /\ Dispatch => Inv'
<1> SUFFICES ASSUME Inv, Dispatch PROVE Inv'
    OBVIOUS
<1>1. /\ At(Loop, "idle") /\ Starts(Loop, "measure", "next") /\ stops' = stops - 1 /\ stops > 0
      /\ UNCHANGED <<queueVars, playQueuePosition, m_repeat, attributes, proxyVars, renderer,
                     undefined>>
      /\ ~undefined
    BY DEF Dispatch, HandleStopped
<1>2. stops' \in 0 .. MaxStops
    BY <1>1, ThreadsAssumption DEF Inv, FieldsInv
<1>3. Loop \in Threads /\ "next" \in Ops
    BY OtherThread DEF Ops
<1> QED BY <1>1, <1>2, <1>3, StartCorrect

LEMMA CallCorrect ==
    ASSUME Inv, ~undefined, NEW op \in {"next", "previous", "pause", "play", "openPlaylist"}, Call(op)
    PROVE  Inv'
<1> DEFINE pc == Enter(op)
<1>1. pc \in {"measure", "discover", "release"}
    BY DEF Enter
<1>2. pc = "release" => op = "openPlaylist"
    BY DEF Enter
<1>3. At(Client, "idle") /\ Starts(Client, pc, op)
    BY DEF Call, Called
<1>4. UNCHANGED <<queueVars, playQueuePosition, m_repeat, attributes, proxyVars, renderer,
                  undefined>> /\ stops' \in 0 .. MaxStops
    BY DEF Call, deviceVars, Inv, FieldsInv
<1>5. Client \in Threads /\ op \in Ops
    BY OtherThread DEF Ops
<1> HIDE DEF pc
<1> QED BY <1>1, <1>2, <1>3, <1>4, <1>5, StartCorrect

LEMMA DequeueAllCorrect == Inv /\ ~undefined /\ dequeueAll => Inv'
<1> SUFFICES ASSUME Inv, ~undefined, dequeueAll PROVE Inv'
    OBVIOUS
<1> DEFINE dangling == At(Loop, "read")
           alone == At(Loop, "idle")
           h == [threads[Loop] EXCEPT !.dangling = dangling, !.alone = alone]
<1>1. dangling \in BOOLEAN /\ alone \in BOOLEAN /\ (dangling => ~alone)
    BY DEF At
<1>2. threads \in [Threads -> Handlers] /\ threads[Loop] \in Handlers /\ HandlerOK(threads[Loop])
      /\ Client \in Threads /\ Loop \in Threads /\ Client # Loop
    BY OtherThread DEF Inv, ThreadsInv
<1>3. threads' = [threads EXCEPT ![Loop] = h]
    BY <1>2 DEF dequeueAll
<1>4. h \in Handlers /\ h.pc = threads[Loop].pc /\ HandlerOK(h)
    <2> HIDE DEF dangling, alone
    <2>1. h \in Handlers
        BY <1>1, <1>2 DEF Handlers
    <2>2. h.pc = threads[Loop].pc /\ h.op = threads[Loop].op /\ h.new = threads[Loop].new
          /\ h.size = threads[Loop].size
          /\ h.dangling = dangling /\ h.alone = alone
        BY <1>2 DEF Handlers
    <2> HIDE DEF h
    <2> QED BY <1>1, <1>2, <2>1, <2>2 DEF HandlerOK
<1>5. threads'[Loop].pc = threads[Loop].pc /\ threads'[Client] = threads[Client]
      /\ threads' \in [Threads -> Handlers] /\ threads'[Loop] = h
    <2> HIDE DEF h
    <2> QED BY <1>2, <1>3, <1>4
<1>6. ThreadsInv'
    <2>1. At(Client, "idle")'
        BY <1>5 DEF dequeueAll, Called, At
    <2>2. \A t \in Threads : HandlerOK(threads'[t])
        <3> HIDE DEF h
        <3> QED BY <1>4, <1>5, OtherThread DEF Inv, ThreadsInv
    <2>3. Overlap'
        BY <1>2, <2>1 DEF Overlap
    <2> QED BY <1>5, <2>2, <2>3 DEF ThreadsInv, HandlerOK
<1>7. FieldsInv'
    <2>1. playqueue' \in Seq(Items) /\ Len(playqueue') <= MaxQueue
        BY ThreadsAssumption DEF dequeueAll
    <2> QED BY <2>1 DEF Inv, FieldsInv, PositionInRange, dequeueAll, attributes, proxyVars, deviceVars
<1>8. \A t \in Threads : threads'[t].pc = threads[t].pc
    BY <1>5, OtherThread
<1>9. FreedInv'
    BY <1>8 DEF Inv, FreedInv, OneAtATimeIsSafe, At, dequeueAll, proxyVars
<1>10. SubscribedInv'
    BY <1>2, <1>8 DEF Inv, SubscribedInv, Subscribing, At, dequeueAll, proxyVars
<1> QED BY <1>6, <1>7, <1>9, <1>10 DEF Inv

\* What leaves the threads, the proxy and the queue's pointer alone.
LEMMA RestCorrect ==
    ASSUME Inv, FieldsInv', UNCHANGED <<threads, mp, queuePtr, m_signalHandlerId, subscriptions,
                                        undefined>>
    PROVE  Inv'
<1>1. ThreadsInv' /\ FreedInv' /\ SubscribedInv'
    BY DEF Inv, ThreadsInv, Overlap, HandlerOK, FreedInv, OneAtATimeIsSafe, SubscribedInv, Subscribing, At
<1> QED BY <1>1 DEF Inv

LEMMA ClientCorrect == Inv /\ ClientCall => Inv'
<1> SUFFICES ASSUME Inv, ClientCall PROVE Inv'
    OBVIOUS
<1>1. ~undefined
    BY DEF ClientCall
<1>2. ASSUME NEW mode \in RepeatModes, setRepeat(mode) PROVE Inv'
    <2>1. FieldsInv'
        BY <1>2 DEF Inv, FieldsInv, PositionInRange, setRepeat, queueVars, attributes, proxyVars, deviceVars
    <2> QED BY <1>2, <2>1, RestCorrect DEF setRepeat, queueVars, proxyVars
<1> QED BY <1>1, <1>2, CallCorrect, DequeueAllCorrect DEF ClientCall

LEMMA TrackEndsCorrect == Inv /\ TrackEnds => Inv'
<1> SUFFICES ASSUME Inv, TrackEnds PROVE Inv'
    OBVIOUS
<1>1. stops' \in 0 .. MaxStops
    BY ThreadsAssumption DEF Inv, FieldsInv, SubscribedInv, TrackEnds, Stops
<1>2. FieldsInv'
    BY <1>1 DEF Inv, FieldsInv, PositionInRange, TrackEnds, Stops, queueVars, attributes, proxyVars
<1> QED BY <1>2, RestCorrect DEF TrackEnds, queueVars, proxyVars

-------------------------------------------------------------------------------
(* The steps of a handler. *)

\* A step that touches only its own thread.
LEMMA GoesOn ==
    ASSUME Inv, FieldsInv', ThreadsInv', ~undefined, ~undefined', NEW t \in Threads,
           threads'[Other(t)].pc = threads[Other(t)].pc,
           ~At(t, "connect"), ~At(t, "replace"), ~At(t, "registered"), ~At(t, "registered")',
           UNCHANGED <<mp, queuePtr, subscriptions, m_signalHandlerId>>
    PROVE  Inv'
<1>1. FreedInv'
    BY MoveKeepsFreed DEF Inv
<1>2. SubscribedInv'
    BY MoveKeepsSubscribed DEF Inv
<1> QED BY <1>1, <1>2 DEF Inv

LEMMA ReleaseCorrect == ASSUME Inv, ~undefined, NEW t \in Threads, release(t) PROVE Inv'
<1> DEFINE h == [threads[t] EXCEPT !.pc = "replace"]
           reads == At(Other(t), "read")
           g == [threads[Other(t)] EXCEPT !.dangling = reads]
<1>1. Other(t) \in Threads /\ Other(t) # t /\ \A u \in Threads : u = t \/ u = Other(t)
    BY OtherThread
<1>2. /\ threads \in [Threads -> Handlers] /\ threads[t].pc = "release"
      /\ HandlerOK(threads[t]) /\ HandlerOK(threads[Other(t)])
      /\ threads[t] \in Handlers /\ threads[Other(t)] \in Handlers
    BY <1>1 DEF Inv, ThreadsInv, release, At
<1>3. h \in Handlers /\ h.pc = "replace" /\ h.alone = threads[t].alone /\ HandlerOK(h)
    <2>1. h \in Handlers
        BY <1>2 DEF Handlers, PCs
    <2>2. h.pc = "replace" /\ h.alone = threads[t].alone /\ h.op = threads[t].op
          /\ h.dangling = threads[t].dangling
        BY <1>2 DEF Handlers
    <2> HIDE DEF h
    <2> QED BY <1>2, <2>1, <2>2 DEF HandlerOK
<1>4. /\ g \in Handlers /\ g.pc = threads[Other(t)].pc /\ g.alone = threads[Other(t)].alone
      /\ HandlerOK(g)
    <2>1. reads \in BOOLEAN /\ (reads => ~threads[Other(t)].alone)
        BY <1>1, <1>2 DEF Inv, ThreadsInv, Overlap, At
    <2> HIDE DEF reads
    <2>2. g \in Handlers
        BY <1>2, <2>1 DEF Handlers
    <2>3. /\ g.pc = threads[Other(t)].pc /\ g.alone = threads[Other(t)].alone /\ g.dangling = reads
          /\ g.op = threads[Other(t)].op /\ g.new = threads[Other(t)].new
          /\ g.size = threads[Other(t)].size
        BY <1>2, <2>1 DEF Handlers
    <2> HIDE DEF g
    <2> QED BY <1>2, <2>1, <2>2, <2>3 DEF HandlerOK
<1>5. threads' = [threads EXCEPT ![t] = h, ![Other(t)] = g]
    BY <1>1, <1>2 DEF release
<1>6. /\ threads' \in [Threads -> Handlers] /\ threads'[t] = h /\ threads'[Other(t)] = g
      /\ threads'[t].pc = "replace" /\ threads'[Other(t)].pc = threads[Other(t)].pc
    <2> HIDE DEF h, g
    <2> QED BY <1>1, <1>2, <1>3, <1>4, <1>5
<1>7. ThreadsInv'
    <2> HIDE DEF h, g
    <2>1. \A u \in Threads : HandlerOK(threads'[u])
        BY <1>1, <1>3, <1>4, <1>6
    <2>2. Overlap'
        BY <1>1, <1>2, <1>3, <1>4, <1>6 DEF Inv, ThreadsInv, Overlap, At
    <2> QED BY <1>6, <2>1, <2>2 DEF ThreadsInv, HandlerOK
<1>8. FieldsInv'
    BY DEF Inv, FieldsInv, PositionInRange, release, attributes, proxyVars, deviceVars
<1>9. FreedInv'
    BY <1>2, <1>6, MoveKeepsFreed DEF Inv, release, proxyVars, At
<1>10. SubscribedInv'
    BY <1>2, <1>6, MoveKeepsSubscribed DEF Inv, release, proxyVars, At
<1> QED BY <1>7, <1>8, <1>9, <1>10 DEF Inv

LEMMA ReplaceCorrect == ASSUME Inv, ~undefined, NEW t \in Threads, replace(t) PROVE Inv'
<1>1. threads[t].pc = "replace" /\ Goto(t, "measure")
    BY DEF replace, At
<1>2. ThreadsInv' /\ threads'[t].pc = "measure" /\ threads'[Other(t)] = threads[Other(t)]
    <2>1. "measure" \in PCs \ {"idle", "add", "choose", "store", "release", "replace"}
        BY DEF PCs
    <2> QED BY <1>1, <2>1, GotoKeepsThreads DEF Inv, At
<1>3. FieldsInv'
    <2>1. playqueue' \in Seq(Items) /\ Len(playqueue') <= MaxQueue
        BY ThreadsAssumption DEF replace
    <2>2. playQueuePosition' \in Nat /\ PositionInRange'
        BY ThreadsAssumption DEF replace, PositionInRange
    <2> QED BY <2>1, <2>2 DEF Inv, FieldsInv, replace, attributes, proxyVars, deviceVars
<1>4. FreedInv'
    BY <1>1, <1>2, MoveKeepsFreed DEF Inv, replace, proxyVars, At
<1>5. SubscribedInv'
    BY <1>1, <1>2, MoveKeepsSubscribed DEF Inv, replace, proxyVars, At
<1> QED BY <1>2, <1>3, <1>4, <1>5 DEF Inv

\* What leaves everything but the threads alone keeps the fields.
LEMMA SharedKeepsFields == ASSUME FieldsInv, UNCHANGED shared PROVE FieldsInv'
    BY DEF FieldsInv, PositionInRange, shared, queueVars, attributes, proxyVars, deviceVars

\* A handler that goes on with what it has computed.
Computed(h, pc, size, new) == [h EXCEPT !.pc = pc, !.size = size, !.new = new]

LEMMA ComputedType ==
    ASSUME NEW h \in Handlers, NEW pc \in PCs, NEW size \in Int, NEW new \in Int
    PROVE  LET g == Computed(h, pc, size, new)
           IN  /\ g \in Handlers /\ g.pc = pc /\ g.size = size /\ g.new = new
               /\ g.alone = h.alone /\ g.dangling = h.dangling
<1> DEFINE g == Computed(h, pc, size, new)
<1>1. g.pc = pc /\ g.size = size /\ g.new = new
    BY DEF Computed, Handlers
<1>2. g.alone = h.alone /\ g.dangling = h.dangling
    BY DEF Computed, Handlers
<1>3. g \in Handlers
    BY DEF Computed, Handlers
<1> QED BY <1>1, <1>2, <1>3

LEMMA MeasureCorrect == ASSUME Inv, ~undefined, NEW t \in Threads, measure(t) PROVE Inv'
<1>1. threads[t].pc = "measure" /\ threads[t] \in Handlers /\ HandlerOK(threads[t])
    BY DEF Inv, ThreadsInv, measure, At
<1>2. CASE queuePtr = "freed" /\ Breaks
    BY <1>1, <1>2, BreaksCorrect DEF At
<1>3. CASE queuePtr # "freed"
    <2> DEFINE size == playQueueSize(playqueue)
    <2>1. UNCHANGED shared /\ threads' = [threads EXCEPT ![t].pc = "add", ![t].size = size]
        BY <1>3 DEF measure, Breaks
    <2>2. size \in Int /\ size < MaxQueue
        BY ThreadsAssumption DEF Inv, FieldsInv, playQueueSize
    <2> HIDE DEF size
    <2>3. threads' = [threads EXCEPT ![t] = Computed(threads[t], "add", size, threads[t].new)]
        BY <1>1, <2>1 DEF Computed, Handlers
    <2>4. ThreadsInv' /\ threads'[t].pc = "add" /\ threads'[Other(t)] = threads[Other(t)]
        <3> DEFINE h == Computed(threads[t], "add", size, threads[t].new)
        <3>1. "add" \in PCs /\ threads[t].new \in Int
            BY <1>1, <2>2 DEF PCs, Handlers
        <3>2. /\ h \in Handlers /\ h.pc = "add" /\ h.size = size /\ h.new = threads[t].new
           /\ h.alone = threads[t].alone /\ h.dangling = threads[t].dangling
            BY <1>1, <2>2, <3>1, ComputedType
        <3>3. threads' = [threads EXCEPT ![t] = h]
            BY <2>3
        <3> HIDE DEF h
        <3>4. HandlerOK(h)
            BY <1>1, <2>2, <3>2 DEF HandlerOK
        <3> QED BY <1>1, <3>2, <3>3, <3>4, MoveKeepsThreads DEF Inv, At
    <2>5. FieldsInv'
        BY <2>1, SharedKeepsFields DEF Inv
    <2> QED BY <1>1, <2>1, <2>4, <2>5, GoesOn DEF shared, queueVars, proxyVars, At
<1> QED BY <1>2, <1>3 DEF measure

LEMMA AddCorrect == ASSUME Inv, ~undefined, NEW t \in Threads, add(t) PROVE Inv'
<1> DEFINE new == AsInt(AsUint64(playQueuePosition + threads[t].new))
<1>1. /\ threads[t].pc = "add" /\ threads[t] \in Handlers /\ HandlerOK(threads[t])
      /\ threads[t].size \in Int
      /\ threads[t].size < MaxQueue /\ threads[t].new \in Int
    BY DEF Inv, ThreadsInv, HandlerOK, Handlers, add, At
<1>2. new \in Int
    <2>1. playQueuePosition + threads[t].new \in Int
        BY <1>1 DEF Inv, FieldsInv
    <2>2. AsUint64(playQueuePosition + threads[t].new) \in Int
        BY <2>1, AsUint64Type, WidthFacts
    <2> QED BY <2>2, AsIntType, WidthFacts
<1>3. UNCHANGED shared /\ threads' = [threads EXCEPT ![t].pc = "choose", ![t].new = new]
    BY <1>1 DEF add, Inv, ThreadsInv
<1> HIDE DEF new
<1>4. threads' = [threads EXCEPT ![t] = Computed(threads[t], "choose", threads[t].size, new)]
    BY <1>1, <1>3 DEF Computed, Handlers
<1>5. ThreadsInv' /\ threads'[t].pc = "choose" /\ threads'[Other(t)] = threads[Other(t)]
    <2> DEFINE h == Computed(threads[t], "choose", threads[t].size, new)
    <2>1. "choose" \in PCs
        BY <1>1, <1>2 DEF PCs, Handlers
    <2>2. /\ h \in Handlers /\ h.pc = "choose" /\ h.size = threads[t].size /\ h.new = new
       /\ h.alone = threads[t].alone /\ h.dangling = threads[t].dangling
        BY <1>1, <1>2, <2>1, ComputedType
    <2>3. threads' = [threads EXCEPT ![t] = h]
        BY <1>4
    <2> HIDE DEF h
    <2>4. HandlerOK(h)
        BY <1>1, <2>2 DEF HandlerOK
    <2> QED BY <1>1, <2>2, <2>3, <2>4, MoveKeepsThreads DEF Inv, At
<1>6. FieldsInv'
    BY <1>3, SharedKeepsFields DEF Inv
<1> QED BY <1>1, <1>3, <1>5, <1>6, GoesOn DEF shared, queueVars, proxyVars, At

LEMMA ChooseCorrect == ASSUME Inv, ~undefined, NEW t \in Threads, choose(t) PROVE Inv'
<1> DEFINE new == Accepted(threads[t].size, threads[t].new, m_repeat)
<1>1. /\ threads[t].pc = "choose" /\ threads[t] \in Handlers /\ HandlerOK(threads[t])
      /\ threads[t].size \in Int /\ threads[t].size < MaxQueue /\ threads[t].new \in Int
    BY DEF Inv, ThreadsInv, HandlerOK, Handlers, choose, At
<1>2. new # NoTrack => new \in 0 .. (MaxQueue - 1)
    BY <1>1, ThreadsAssumption DEF Accepted, NoTrack
<1>3. /\ UNCHANGED shared
      /\ \/ /\ new # NoTrack
            /\ threads' = [threads EXCEPT ![t].pc = "store", ![t].new = new]
         \/ /\ new = NoTrack /\ threads[t].op = "next"
            /\ threads' = [threads EXCEPT ![t].pc = "discover", ![t].op = "pause",
                                          ![t].new = 0, ![t].size = 0]
         \/ new = NoTrack /\ Done(t)
    BY DEF choose
<1> HIDE DEF new
<1>4. ThreadsInv' /\ threads'[t].pc \in {"store", "discover", "idle"}
      /\ threads'[Other(t)] = threads[Other(t)]
    <2>1. CASE new # NoTrack
        <3>1. new \in Int
            BY <1>2, <2>1, ThreadsAssumption
        <3>2. threads' = [threads EXCEPT ![t] = Computed(threads[t], "store", threads[t].size, new)]
            BY <1>1, <1>3, <2>1 DEF Computed, Handlers
        <3>3. threads'[t].pc = "store" /\ ThreadsInv' /\ threads'[Other(t)] = threads[Other(t)]
            <4> DEFINE h == Computed(threads[t], "store", threads[t].size, new)
            <4>1. "store" \in PCs
                BY <1>1, <3>1 DEF PCs, Handlers
            <4>2. /\ h \in Handlers /\ h.pc = "store" /\ h.size = threads[t].size /\ h.new = new
               /\ h.alone = threads[t].alone /\ h.dangling = threads[t].dangling
                BY <1>1, <3>1, <4>1, ComputedType
            <4>3. threads' = [threads EXCEPT ![t] = h]
                BY <3>2
            <4> HIDE DEF h
            <4>4. HandlerOK(h)
                BY <1>1, <1>2, <2>1, <4>2 DEF HandlerOK
            <4> QED BY <1>1, <4>2, <4>3, <4>4, MoveKeepsThreads DEF Inv, At
        <3> QED BY <3>3
    <2>2. CASE threads' = [threads EXCEPT ![t].pc = "discover", ![t].op = "pause",
                                          ![t].new = 0, ![t].size = 0]
        <3> DEFINE h == [threads[t] EXCEPT !.pc = "discover", !.op = "pause", !.new = 0, !.size = 0]
        <3>1. threads' = [threads EXCEPT ![t] = h]
            BY <2>2
        <3>2. h \in Handlers
            <4>1. "discover" \in PCs /\ "pause" \in Ops /\ 0 \in Int
                BY DEF PCs, Ops
            <4>2. [threads[t] EXCEPT !.pc = "discover", !.op = "pause", !.new = 0] \in Handlers
                BY <1>1, <4>1 DEF Handlers
            <4> QED BY <4>1, <4>2 DEF Handlers
        <3>3. h.pc = "discover" /\ h.alone = threads[t].alone /\ h.dangling = threads[t].dangling
            BY <1>1 DEF Handlers
        <3> HIDE DEF h
        <3>4. HandlerOK(h)
            BY <1>1, <3>3 DEF HandlerOK
        <3>5. ThreadsInv' /\ threads'[t] = h /\ threads'[Other(t)] = threads[Other(t)]
            BY <1>1, <3>1, <3>2, <3>3, <3>4, MoveKeepsThreads DEF Inv, At
        <3> QED BY <3>3, <3>5
    <2>3. CASE Done(t)
        BY <1>1, <2>3, DoneKeepsThreads DEF Inv, At
    <2> QED BY <1>3, <2>1, <2>2, <2>3
<1>5. FieldsInv'
    BY <1>3, SharedKeepsFields DEF Inv
<1> QED BY <1>1, <1>3, <1>4, <1>5, GoesOn DEF shared, queueVars, proxyVars, At

LEMMA StoreCorrect == ASSUME Inv, ~undefined, NEW t \in Threads, store(t) PROVE Inv'
<1>1. threads[t].pc = "store" /\ threads[t].new \in 0 .. (MaxQueue - 1) /\ Goto(t, "publishNext")
    BY DEF Inv, ThreadsInv, HandlerOK, store, At
<1>2. ThreadsInv' /\ threads'[t].pc = "publishNext" /\ threads'[Other(t)] = threads[Other(t)]
    <2>1. "publishNext" \in PCs \ {"idle", "add", "choose", "store", "release", "replace"}
        BY DEF PCs
    <2> QED BY <1>1, <2>1, GotoKeepsThreads DEF Inv, At
<1>3. FieldsInv'
    <2>1. playQueuePosition' \in Nat /\ PositionInRange'
        BY <1>1, ThreadsAssumption DEF store, PositionInRange
    <2> QED BY <2>1 DEF Inv, FieldsInv, store, queueVars, attributes, proxyVars, deviceVars
<1> QED BY <1>1, <1>2, <1>3, GoesOn DEF store, queueVars, proxyVars, At

LEMMA PublishNextCorrect == ASSUME Inv, ~undefined, NEW t \in Threads, publishNext(t) PROVE Inv'
<1>1. /\ threads[t].pc = "publishNext" /\ threads[t] \in Handlers /\ HandlerOK(threads[t])
      /\ threads[t].size \in Int /\ threads[t].new \in Int
    BY DEF Inv, ThreadsInv, Handlers, publishNext, At
<1>2. threads' = [threads EXCEPT ![t] = Computed(threads[t], "publishPrevious", 0, threads[t].new)]
    BY <1>1 DEF publishNext, Computed, Handlers
<1>3. ThreadsInv' /\ threads'[t].pc = "publishPrevious" /\ threads'[Other(t)] = threads[Other(t)]
    <2> DEFINE h == Computed(threads[t], "publishPrevious", 0, threads[t].new)
    <2>1. "publishPrevious" \in PCs /\ 0 \in Int
        BY <1>1 DEF PCs, Handlers
    <2>2. /\ h \in Handlers /\ h.pc = "publishPrevious" /\ h.size = 0 /\ h.new = threads[t].new
       /\ h.alone = threads[t].alone /\ h.dangling = threads[t].dangling
        BY <1>1, <2>1, ComputedType
    <2>3. threads' = [threads EXCEPT ![t] = h]
        BY <1>2
    <2> HIDE DEF h
    <2>4. HandlerOK(h)
        BY <1>1, <2>2 DEF HandlerOK
    <2> QED BY <1>1, <2>2, <2>3, <2>4, MoveKeepsThreads DEF Inv, At
<1>4. FieldsInv'
    <2>1. canGoNext' \in BOOLEAN
        BY <1>1 DEF publishNext
    <2> QED BY <2>1 DEF Inv, FieldsInv, PositionInRange, publishNext, queueVars, proxyVars, deviceVars
<1> QED BY <1>1, <1>3, <1>4, GoesOn DEF publishNext, queueVars, proxyVars, At

LEMMA PublishPreviousCorrect ==
    ASSUME Inv, ~undefined, NEW t \in Threads, publishPrevious(t) PROVE Inv'
<1>1. /\ threads[t].pc = "publishPrevious" /\ threads[t] \in Handlers /\ HandlerOK(threads[t])
      /\ threads[t].size \in Int /\ threads[t].new \in Int
    BY DEF Inv, ThreadsInv, Handlers, publishPrevious, At
<1>2. threads' = [threads EXCEPT ![t] = Computed(threads[t], "fetch", threads[t].size, 0)]
    BY <1>1 DEF publishPrevious, Computed, Handlers
<1>3. ThreadsInv' /\ threads'[t].pc = "fetch" /\ threads'[Other(t)] = threads[Other(t)]
    <2> DEFINE h == Computed(threads[t], "fetch", threads[t].size, 0)
    <2>1. "fetch" \in PCs /\ 0 \in Int
        BY <1>1 DEF PCs, Handlers
    <2>2. /\ h \in Handlers /\ h.pc = "fetch" /\ h.size = threads[t].size /\ h.new = 0
       /\ h.alone = threads[t].alone /\ h.dangling = threads[t].dangling
        BY <1>1, <2>1, ComputedType
    <2>3. threads' = [threads EXCEPT ![t] = h]
        BY <1>2
    <2> HIDE DEF h
    <2>4. HandlerOK(h)
        BY <1>1, <2>2 DEF HandlerOK
    <2> QED BY <1>1, <2>2, <2>3, <2>4, MoveKeepsThreads DEF Inv, At
<1>4. FieldsInv'
    <2>1. canGoPrevious' \in BOOLEAN
        BY <1>1 DEF publishPrevious
    <2> QED BY <2>1 DEF Inv, FieldsInv, PositionInRange, publishPrevious, queueVars, proxyVars,
                        deviceVars
<1> QED BY <1>1, <1>3, <1>4, GoesOn DEF publishPrevious, queueVars, proxyVars, At

Fetched(h, uri) == [h EXCEPT !.pc = "read", !.uri = uri]

LEMMA FetchedType ==
    ASSUME NEW h \in Handlers, NEW uri \in Items \cup {NoUri}
    PROVE  LET g == Fetched(h, uri)
           IN  /\ g \in Handlers /\ g.pc = "read"
               /\ g.alone = h.alone /\ g.dangling = h.dangling
<1> DEFINE g == Fetched(h, uri)
<1>1. g.pc = "read" /\ g.alone = h.alone /\ g.dangling = h.dangling
    BY DEF Fetched, Handlers
<1>2. g \in Handlers
    <2>1. "read" \in PCs
        BY DEF PCs
    <2> QED BY <2>1 DEF Fetched, Handlers
<1> QED BY <1>1, <1>2

LEMMA FetchCorrect == ASSUME Inv, ~undefined, NEW t \in Threads, fetch(t) PROVE Inv'
<1>1. threads[t].pc = "fetch" /\ threads[t] \in Handlers /\ HandlerOK(threads[t])
    BY DEF Inv, ThreadsInv, fetch, At
<1>2. CASE queuePtr = "freed" /\ Breaks
    BY <1>1, <1>2, BreaksCorrect DEF At
<1>3. CASE queuePtr # "freed"
    <2> DEFINE uri == IF playQueuePosition < Len(playqueue)
                      THEN playqueue[playQueuePosition + 1] ELSE NoUri
               h == Fetched(threads[t], uri)
    <2>1. UNCHANGED shared /\ threads' = [threads EXCEPT ![t] = h]
        BY <1>3 DEF fetch, Breaks, Fetched
    <2>2. uri \in Items \cup {NoUri}
        BY DEF Inv, FieldsInv
    <2>3. h \in Handlers /\ h.pc = "read" /\ h.alone = threads[t].alone
          /\ h.dangling = threads[t].dangling
        <3> HIDE DEF uri
        <3> QED BY <1>1, <2>2, FetchedType
    <2> HIDE DEF h
    <2>4. HandlerOK(h)
        BY <1>1, <2>3 DEF HandlerOK
    <2>5. ThreadsInv' /\ threads'[t] = h /\ threads'[Other(t)] = threads[Other(t)]
        BY <1>1, <2>1, <2>3, <2>4, MoveKeepsThreads DEF Inv, At
    <2>6. FieldsInv'
        BY <2>1, SharedKeepsFields DEF Inv
    <2> QED BY <1>1, <2>1, <2>3, <2>5, <2>6, GoesOn DEF shared, queueVars, proxyVars, At
<1> QED BY <1>2, <1>3 DEF fetch

LEMMA ReadCorrect == ASSUME Inv, ~undefined, NEW t \in Threads, read(t) PROVE Inv'
<1>1. threads[t].pc = "read"
    BY DEF read, At
<1>2. CASE threads[t].dangling /\ Breaks
    BY <1>1, <1>2, BreaksCorrect DEF At
<1>3. CASE ~threads[t].dangling
    <2>1. Goto(t, "discover")
          /\ UNCHANGED <<queueVars, playQueuePosition, m_repeat, attributes, proxyVars,
                         deviceVars, calls, faults, undefined>>
        BY <1>3 DEF read, shared
    <2>2. ThreadsInv' /\ threads'[t].pc = "discover" /\ threads'[Other(t)] = threads[Other(t)]
        <3>1. "discover" \in PCs \ {"idle", "add", "choose", "store", "release", "replace"}
            BY DEF PCs
        <3> QED BY <1>1, <2>1, <3>1, GotoKeepsThreads DEF Inv, At
    <2>3. FieldsInv'
        BY <2>1 DEF Inv, FieldsInv, PositionInRange, queueVars, attributes, proxyVars, deviceVars
    <2> QED BY <1>1, <2>1, <2>2, <2>3, GoesOn DEF queueVars, proxyVars, At
<1> QED BY <1>2, <1>3 DEF read

LEMMA DiscoverCorrect == ASSUME Inv, ~undefined, NEW t \in Threads, discover(t) PROVE Inv'
<1>1. /\ threads[t].pc = "discover"
      /\ UNCHANGED <<queueVars, playQueuePosition, m_repeat, attributes, m_signalHandlerId,
                     subscriptions, deviceVars, calls>>
    BY DEF discover, At
<1>2. CASE Fails /\ Done(t) /\ UNCHANGED <<mp, undefined>>
    <2>1. ThreadsInv' /\ threads'[t].pc = "idle" /\ threads'[Other(t)] = threads[Other(t)]
        BY <1>1, <1>2, DoneKeepsThreads DEF Inv, At
    <2>2. FieldsInv'
        BY <1>1, <1>2 DEF Inv, FieldsInv, PositionInRange, queueVars, attributes, deviceVars
    <2> QED BY <1>1, <1>2, <2>1, <2>2, GoesOn DEF queueVars, At
<1>3. CASE mp = "freed" /\ undefined' = TRUE /\ UNCHANGED <<mp, threads, faults>>
    <2>1. Breaks
        BY <1>1, <1>3 DEF Breaks, proxyVars
    <2> QED BY <1>1, <1>3, <2>1, BreaksCorrect DEF At
<1>4. CASE /\ mp # "freed" /\ mp' = IF mp = "live" THEN "freed" ELSE mp
           /\ Goto(t, "connect") /\ UNCHANGED <<faults, undefined>>
    <2>1. ThreadsInv' /\ threads'[t].pc = "connect" /\ threads'[Other(t)] = threads[Other(t)]
        <3>1. "connect" \in PCs \ {"idle", "add", "choose", "store", "release", "replace"}
            BY DEF PCs
        <3> QED BY <1>1, <1>4, <3>1, GotoKeepsThreads DEF Inv, At
    <2>2. FieldsInv'
        BY <1>1, <1>4 DEF Inv, FieldsInv, PositionInRange, queueVars, attributes, deviceVars
    <2>3. FreedInv'
        BY <1>1, <1>4, <2>1, MoveKeepsFreed DEF Inv, queueVars, At
    <2>4. SubscribedInv'
        BY <1>1, <2>1, MoveKeepsSubscribed DEF Inv, At
    <2> QED BY <2>1, <2>2, <2>3, <2>4 DEF Inv
<1> QED BY <1>2, <1>3, <1>4 DEF discover

LEMMA ConnectCorrect == ASSUME Inv, ~undefined, NEW t \in Threads, connect(t) PROVE Inv'
<1>1. /\ threads[t].pc = "connect" /\ mp' \in {"null", "live"}
      /\ Done(t) \/ Goto(t, "register")
      /\ UNCHANGED <<queueVars, playQueuePosition, m_repeat, attributes, m_signalHandlerId,
                     subscriptions, deviceVars, calls, undefined>>
    BY DEF connect, At
<1>2. ThreadsInv' /\ threads'[t].pc \in {"idle", "register"} /\ threads'[Other(t)] = threads[Other(t)]
    <2>1. CASE Done(t)
        BY <1>1, <2>1, DoneKeepsThreads DEF Inv, At
    <2>2. CASE Goto(t, "register")
        <3>1. "register" \in PCs \ {"idle", "add", "choose", "store", "release", "replace"}
            BY DEF PCs
        <3> QED BY <1>1, <2>2, <3>1, GotoKeepsThreads DEF Inv, At
    <2> QED BY <1>1, <2>1, <2>2
<1>3. FieldsInv'
    BY <1>1 DEF Inv, FieldsInv, PositionInRange, queueVars, attributes, deviceVars
<1>4. FreedInv'
    BY <1>1, <1>2, MoveKeepsFreed DEF Inv, queueVars, At
<1>5. SubscribedInv'
    BY <1>1, <1>2, MoveKeepsSubscribed DEF Inv, At
<1> QED BY <1>2, <1>3, <1>4, <1>5 DEF Inv

LEMMA RegisterCorrect == ASSUME Inv, ~undefined, NEW t \in Threads, register(t) PROVE Inv'
<1>1. /\ threads[t].pc = "register"
      /\ UNCHANGED <<queueVars, playQueuePosition, m_repeat, attributes, mp, m_signalHandlerId,
                     deviceVars, calls, faults, undefined>>
    BY DEF register, At
<1>2. CASE m_signalHandlerId
    <2>1. Goto(t, "call") /\ UNCHANGED subscriptions
        BY <1>2 DEF register
    <2>2. ThreadsInv' /\ threads'[t].pc = "call" /\ threads'[Other(t)] = threads[Other(t)]
        <3>1. "call" \in PCs \ {"idle", "add", "choose", "store", "release", "replace"}
            BY DEF PCs
        <3> QED BY <1>1, <2>1, <3>1, GotoKeepsThreads DEF Inv, At
    <2>3. FieldsInv'
        BY <1>1 DEF Inv, FieldsInv, PositionInRange, queueVars, attributes, deviceVars
    <2> QED BY <1>1, <2>1, <2>2, <2>3, GoesOn DEF queueVars, At
<1>3. CASE ~m_signalHandlerId
    <2>1. Goto(t, "registered") /\ subscriptions' = subscriptions + 1
        BY <1>3 DEF register
    <2>2. ThreadsInv' /\ threads'[t].pc = "registered" /\ threads'[Other(t)] = threads[Other(t)]
        <3>1. "registered" \in PCs \ {"idle", "add", "choose", "store", "release", "replace"}
            BY DEF PCs
        <3> QED BY <1>1, <2>1, <3>1, GotoKeepsThreads DEF Inv, At
    <2>3. FieldsInv'
        BY <1>1 DEF Inv, FieldsInv, PositionInRange, queueVars, attributes, deviceVars
    <2>4. FreedInv'
        BY <1>1, <2>2, MoveKeepsFreed DEF Inv, queueVars, At
    <2>5. SubscribedInv'
        <3>1. Subscribing(t) = 0 /\ Subscribing(t)' = 1
            BY <1>1, <2>2 DEF Subscribing, At
        <3>2. Subscribing(Other(t))' = Subscribing(Other(t)) /\ Subscribing(Other(t)) \in {0, 1}
            BY <2>2 DEF Subscribing, At
        <3>3. /\ subscriptions = Subscribing(Client) + Subscribing(Loop)
              /\ (t = Client /\ Other(t) = Loop) \/ (t = Loop /\ Other(t) = Client)
            BY <1>3, OtherThread DEF Inv, SubscribedInv
        <3>4. m_signalHandlerId' = m_signalHandlerId
            BY <1>1
        <3> HIDE DEF Subscribing
        <3>5. subscriptions' = Subscribing(Client)' + Subscribing(Loop)' /\ subscriptions' \in {1, 2}
            BY <2>1, <3>1, <3>2, <3>3
        <3> QED BY <3>4, <3>5 DEF SubscribedInv
    <2> QED BY <2>2, <2>3, <2>4, <2>5 DEF Inv
<1> QED BY <1>2, <1>3

LEMMA RegisteredCorrect == ASSUME Inv, ~undefined, NEW t \in Threads, registered(t) PROVE Inv'
<1>1. /\ threads[t].pc = "registered" /\ m_signalHandlerId' = TRUE /\ Goto(t, "call")
      /\ UNCHANGED <<queueVars, playQueuePosition, m_repeat, attributes, mp, subscriptions,
                     deviceVars, calls, faults, undefined>>
    BY DEF registered, At
<1>2. ThreadsInv' /\ threads'[t].pc = "call" /\ threads'[Other(t)] = threads[Other(t)]
    <2>1. "call" \in PCs \ {"idle", "add", "choose", "store", "release", "replace"}
        BY DEF PCs
    <2> QED BY <1>1, <2>1, GotoKeepsThreads DEF Inv, At
<1>3. FieldsInv'
    BY <1>1 DEF Inv, FieldsInv, PositionInRange, queueVars, attributes, deviceVars
<1>4. FreedInv'
    BY <1>1, <1>2, MoveKeepsFreed DEF Inv, queueVars, At
<1>5. SubscribedInv'
    BY <1>1 DEF Inv, SubscribedInv
<1> QED BY <1>2, <1>3, <1>4, <1>5 DEF Inv

\* What the renderer does keeps the types.
LEMMA ObeysType ==
    ASSUME Inv, NEW op \in Ops, NEW uri \in Items \cup {NoUri}, Obeys(op, uri)
    PROVE  /\ renderer' \in [state : {"Playing", "Paused", "Stopped"}, uri : Items \cup {NoUri}]
           /\ stops' \in 0 .. MaxStops
<1>1. /\ renderer \in [state : {"Playing", "Paused", "Stopped"}, uri : Items \cup {NoUri}]
      /\ stops \in 0 .. MaxStops /\ subscriptions \in Nat /\ MaxStops \in Nat
    BY ThreadsAssumption DEF Inv, FieldsInv, SubscribedInv
<1>2. CASE op = "pause"
    BY <1>1, <1>2 DEF Obeys
<1>3. CASE op = "play"
    BY <1>1, <1>3 DEF Obeys
<1>4. CASE op \notin {"pause", "play"}
    <2>1. \/ uri # NoUri /\ UNCHANGED stops /\ renderer' = [state |-> "Playing", uri |-> uri]
          \/ Stops
          \/ UNCHANGED <<renderer, stops>>
        BY <1>4 DEF Obeys, deviceVars
    <2>2. CASE Stops
        BY <1>1, <2>2 DEF Stops
    <2> QED BY <1>1, <2>1, <2>2
<1> QED BY <1>2, <1>3, <1>4

LEMMA CallsCorrect == ASSUME Inv, ~undefined, NEW t \in Threads, call(t) PROVE Inv'
<1>1. threads[t].pc = "call" /\ threads[t].op \in Ops /\ threads[t].uri \in Items \cup {NoUri}
    BY DEF Inv, ThreadsInv, Handlers, call, At
<1>2. CASE mp = "freed" /\ Breaks
    BY <1>1, <1>2, BreaksCorrect DEF At
<1>3. CASE mp # "freed"
    <2>1. /\ Done(t)
          /\ UNCHANGED deviceVars \/ Obeys(threads[t].op, threads[t].uri)
          /\ UNCHANGED <<queueVars, playQueuePosition, m_repeat, attributes, proxyVars, calls,
                         undefined>>
        BY <1>3 DEF call
    <2>2. ThreadsInv' /\ threads'[t].pc = "idle" /\ threads'[Other(t)] = threads[Other(t)]
        BY <1>1, <2>1, DoneKeepsThreads DEF Inv, At
    <2>3. /\ renderer' \in [state : {"Playing", "Paused", "Stopped"}, uri : Items \cup {NoUri}]
          /\ stops' \in 0 .. MaxStops
        BY <1>1, <2>1, ObeysType DEF Inv, FieldsInv, deviceVars
    <2>4. FieldsInv'
        BY <2>1, <2>3 DEF Inv, FieldsInv, PositionInRange, queueVars, attributes, proxyVars
    <2> QED BY <1>1, <2>1, <2>2, <2>4, GoesOn DEF queueVars, proxyVars, At
<1> QED BY <1>2, <1>3 DEF call

-------------------------------------------------------------------------------
LEMMA StepCorrect == Inv /\ [Next]_vars => Inv'
<1> SUFFICES ASSUME Inv, [Next]_vars PROVE Inv'
    OBVIOUS
<1>1. ASSUME NEW t \in Threads, Step(t) PROVE Inv'
    BY <1>1, ReleaseCorrect, ReplaceCorrect, MeasureCorrect, AddCorrect, ChooseCorrect,
       StoreCorrect, PublishNextCorrect, PublishPreviousCorrect, FetchCorrect, ReadCorrect,
       DiscoverCorrect, ConnectCorrect, RegisterCorrect, RegisteredCorrect, CallsCorrect DEF Step
<1>2. CASE UNCHANGED vars
    <2>1. FieldsInv'
        BY <1>2, SharedKeepsFields DEF Inv, vars
    <2> QED BY <1>2, <2>1, RestCorrect DEF vars, shared, queueVars, proxyVars
<1> QED BY <1>1, <1>2, ClientCorrect, DispatchCorrect, TrackEndsCorrect DEF Next

LEMMA Invariant == Spec => []Inv
<1> QED BY InitCorrect, StepCorrect, PTL DEF Spec

\* Whatever overlaps, each thread has at most one handler and every field of
\* the player keeps its type (playerprovider.h:200-230).
THEOREM ThreadTypeCorrect == Spec => []TypeOK
<1>1. Inv => TypeOK
    <2> SUFFICES ASSUME Inv PROVE TypeOK
        OBVIOUS
    <2>1. playQueuePosition \in 0 .. Unset
        BY WidthFacts, ThreadsAssumption DEF Inv, FieldsInv, PositionInRange
    <2> QED BY <2>1 DEF TypeOK, Inv, FieldsInv, ThreadsInv, SubscribedInv
<1> QED BY <1>1, Invariant, PTL

\* The position stored is one of a queue, for playlists of every length below
\* 2^31, although nothing orders the check and the store of two threads
\* (playerprovider.cpp:599-617).
THEOREM RangeCorrect == Spec => []PositionInRange
<1>1. Inv => PositionInRange
    BY DEF Inv, FieldsInv
<1> QED BY <1>1, Invariant, PTL

\* Freed memory is used only by handlers that overlap (playerprovider.cpp:129,
\* 157, 578), for any number of calls and failures.
THEOREM SafeCorrect == Spec => []OneAtATimeIsSafe
<1>1. Inv => OneAtATimeIsSafe
    BY DEF Inv, FreedInv
<1> QED BY <1>1, Invariant, PTL

\* The player never subscribes to Stopped more than once per thread
\* (playerprovider.cpp:255).
THEOREM SubscribedCorrect == Spec => []SubscribedTwiceAtMost
<1>1. Cardinality(Threads) = 2
    <2>1. IsFiniteSet({}) /\ Cardinality({}) = 0
        BY FS_EmptySet
    <2>2. IsFiniteSet({Client}) /\ Cardinality({Client}) = 1
        BY FS_Singleton
    <2>3. Cardinality({Client} \cup {Loop}) = 2
        BY <2>2, OtherThread, FS_AddElement
    <2>4. {Client} \cup {Loop} = Threads
        BY DEF Threads
    <2> QED BY <2>3, <2>4
<1>2. Inv => SubscribedTwiceAtMost
    BY <1>1 DEF Inv, SubscribedInv, SubscribedTwiceAtMost
<1> QED BY <1>2, Invariant, PTL
===============================================================================
