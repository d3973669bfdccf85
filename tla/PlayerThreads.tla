----------------------------- MODULE PlayerThreads -----------------------------
(***************************************************************************)
(* Handlers of PlayerProvider (playerprovider.cpp) that overlap.  Client   *)
(* calls run on CommonAPI's dispatch thread and property changes on the    *)
(* GLib main loop; nothing in the class is locked.  Here a handler is cut  *)
(* where it touches what the other thread may touch: the position, the     *)
(* queue, the proxy mp, the subscription, the renderer.  Player has the    *)
(* same handlers as single steps.                                          *)
(*                                                                         *)
(* Using freed memory is undefined: the model records it in undefined and  *)
(* says nothing of what would follow.  One library call (jansson, GLib) is *)
(* taken to be atomic.                                                     *)
(***************************************************************************)
EXTENDS PlayQueue, FiniteSets

CONSTANTS
    Client, Loop,   \* the two threads
    Items,          \* media items, all with a file:// URL
    NoUri,          \* the empty URI, opened where no item is found
    Playlists,      \* contents of the playlists a client may open
    MaxQueue,       \* bound: their length
    MaxCalls,       \* bound: calls that clients make
    MaxFaults,      \* bound: steps of a call on the renderer that fail
    MaxStops        \* bound: Stopped signals waiting in the main loop

ASSUME ThreadsAssumption ==
    /\ Client # Loop /\ NoUri \notin Items
    /\ MaxQueue \in Nat \ {0} /\ MaxQueue < Half
    /\ \A list \in Playlists : list \in Seq(Items) /\ Len(list) <= MaxQueue
    /\ MaxCalls \in Nat /\ MaxFaults \in Nat /\ MaxStops \in Nat

VARIABLES
    playqueue,
    queuePtr,           \* that pointer: "null", "live", or "freed" and still pointed to
    playQueuePosition,
    m_repeat,
    canGoNext,          \* published attributes
    canGoPrevious,
    mp,                 \* the shared proxy: "null", "live", or "freed" and still pointed to
    m_signalHandlerId,  \* TRUE once the field is set
    subscriptions,      \* subscriptions made; each brings its own copy of a signal
    renderer,
    stops,              \* number of Stopped signals not yet dispatched
    threads,            \* what each thread is doing
    calls, faults,      \* made so far
    undefined           \* freed memory was used

queueVars    == <<playqueue, queuePtr>>
attributes   == <<canGoNext, canGoPrevious>>
proxyVars    == <<mp, m_signalHandlerId, subscriptions>>
deviceVars   == <<renderer, stops>>
shared == <<queueVars, playQueuePosition, m_repeat, attributes, proxyVars, deviceVars,
            calls, faults, undefined>>
vars == <<shared, threads>>

Threads == {Client, Loop}
Other(t) == CHOOSE u \in Threads : u # t

\* pc: where the thread is; op: its handler; size: playQueueSize; new: the
\* increment, then the new position; uri: what it will open; dangling: the item
\* it holds was freed; alone (history): the other thread did nothing meanwhile.
Idle == [pc |-> "idle", op |-> "none", size |-> 0, new |-> 0, uri |-> NoUri,
         dangling |-> FALSE, alone |-> TRUE]

\* The renderer may be playing something already.
Init ==
    /\ playqueue = <<>> /\ queuePtr = "null"
    /\ playQueuePosition = Unset /\ m_repeat = "REPEAT"
    /\ canGoNext = FALSE /\ canGoPrevious = FALSE
    /\ mp = "null" /\ m_signalHandlerId = FALSE /\ subscriptions = 0
    /\ \/ renderer = [state |-> "Stopped", uri |-> NoUri]
       \/ \E item \in Items : renderer = [state |-> "Playing", uri |-> item]
    /\ stops = 0
    /\ threads = [t \in Threads |-> Idle]
    /\ calls = 0 /\ faults = 0 /\ undefined = FALSE

-------------------------------------------------------------------------------
\* The handler of t reaches pc, or is done.
At(t, pc)  == threads[t].pc = pc
Goto(t, pc) == threads' = [threads EXCEPT ![t].pc = pc]
Done(t)    == threads' = [threads EXCEPT ![t] = Idle]

\* Freed memory is used.
Breaks == undefined' = TRUE /\ UNCHANGED <<queueVars, playQueuePosition, m_repeat, attributes,
                                           proxyVars, deviceVars, threads, calls, faults>>

\* One more step of a call on the renderer fails.
Fails == faults < MaxFaults /\ faults' = faults + 1

(* Where handlers start. *)

\* next() looks at the repeat mode first.
Increments(op) ==
    CASE op = "next"     -> NextIncrements(playqueue, playQueuePosition, m_repeat, FALSE)
      [] op = "previous" -> {-1}
      [] OTHER           -> {0}

\* A handler of t starts, perhaps while the other thread is in one.
Starts(t, pc, op) ==
    LET alone == At(Other(t), "idle")
    IN  \E increment \in Increments(op) :
            threads' = [threads EXCEPT
                ![t] = [Idle EXCEPT !.pc = pc, !.op = op, !.new = increment, !.alone = alone],
                ![Other(t)].alone = @ /\ alone]

\* A client calls; its thread serves one call at a time.
Called == At(Client, "idle") /\ calls < MaxCalls /\ calls' = calls + 1

Enter(op) ==
    CASE op \in {"next", "previous"} -> "measure"
      [] op \in {"pause", "play"}    -> "discover"
      [] op = "openPlaylist"         -> "release"

Call(op) ==
    /\ Called
    /\ Starts(Client, Enter(op), op)
    /\ UNCHANGED <<queueVars, playQueuePosition, m_repeat, attributes, proxyVars, deviceVars,
                   faults, undefined>>

\* Items that are freed may be held by a thread that has not read their URL yet.
dequeueAll ==
    /\ Called /\ playqueue' = <<>>
    /\ threads' = [threads EXCEPT ![Loop].dangling = At(Loop, "read"),
                                  ![Loop].alone = At(Loop, "idle")]
    /\ UNCHANGED <<queuePtr, playQueuePosition, m_repeat, attributes, proxyVars, deviceVars,
                   faults, undefined>>

setRepeat(mode) ==
    /\ Called /\ m_repeat' = mode
    /\ UNCHANGED <<queueVars, playQueuePosition, attributes, proxyVars, deviceVars, threads,
                   faults, undefined>>

\* The main loop takes a Stopped signal for the end of the track.
HandleStopped ==
    /\ At(Loop, "idle") /\ stops > 0 /\ stops' = stops - 1
    /\ Starts(Loop, "measure", "next")
    /\ UNCHANGED <<queueVars, playQueuePosition, m_repeat, attributes, proxyVars, renderer,
                   calls, faults, undefined>>

-------------------------------------------------------------------------------
(* openPlaylist, once the container was listed. *)

\* json_decref: the array and its items are gone, the pointer stays.
release(t) ==
    /\ At(t, "release")
    /\ queuePtr' = IF queuePtr = "live" THEN "freed" ELSE queuePtr
    /\ threads' = [threads EXCEPT ![t].pc = "replace",
                                  ![Other(t)].dangling = At(Other(t), "read")]
    /\ UNCHANGED <<playqueue, playQueuePosition, m_repeat, attributes, proxyVars, deviceVars,
                   calls, faults, undefined>>

replace(t) ==
    /\ At(t, "replace")
    /\ playqueue' \in Playlists /\ queuePtr' = "live"
    /\ playQueuePosition' = 0
    /\ Goto(t, "measure")
    /\ UNCHANGED <<m_repeat, attributes, proxyVars, deviceVars, calls, faults, undefined>>

(* changePlayQueuePosition.  A library call takes one step together with the *)
(* reads of its arguments.                                                   *)

\* The size of the queue.
measure(t) ==
    /\ At(t, "measure")
    /\ \/ queuePtr = "freed" /\ Breaks
       \/ /\ queuePtr # "freed" /\ UNCHANGED shared
          /\ threads' = [threads EXCEPT ![t].pc = "add", ![t].size = playQueueSize(playqueue)]

\* The sum of the position, as it is now, and the increment.
add(t) ==
    /\ At(t, "add") /\ UNCHANGED shared
    /\ threads' = [threads EXCEPT ![t].pc = "choose",
                                  ![t].new = AsInt(AsUint64(playQueuePosition + @))]

\* Mutant: a negative position is not refused.
chooseUnchecked(t) ==
    /\ At(t, "choose") /\ UNCHANGED shared
    /\ threads' = [threads EXCEPT ![t].pc = "store",
                                  ![t].new = IF threads[t].size < @ THEN 0 ELSE @]

\* The new position is chosen under the repeat mode.  Where there is none,
\* next() goes on to pause().
choose(t) ==
    /\ At(t, "choose") /\ UNCHANGED shared
    /\ LET new == Accepted(threads[t].size, threads[t].new, m_repeat)
       IN  \/ /\ new # NoTrack
              /\ threads' = [threads EXCEPT ![t].pc = "store", ![t].new = new]
           \/ /\ new = NoTrack /\ threads[t].op = "next"
              /\ threads' = [threads EXCEPT ![t].pc = "discover", ![t].op = "pause",
                                            ![t].new = 0, ![t].size = 0]
           \/ new = NoTrack /\ threads[t].op # "next" /\ Done(t)

\* Mutant: the increment is applied to the position as it is by now.
storeIncrements(t) ==
    /\ At(t, "store")
    /\ playQueuePosition' = IF threads[t].op = "next" /\ threads[t].new # 0
                            THEN AsUint64(playQueuePosition + 1) ELSE threads[t].new
    /\ Goto(t, "publishNext")
    /\ UNCHANGED <<queueVars, m_repeat, attributes, proxyVars, deviceVars, calls, faults,
                   undefined>>

store(t) ==
    /\ At(t, "store")
    /\ playQueuePosition' = threads[t].new
    /\ Goto(t, "publishNext")
    /\ UNCHANGED <<queueVars, m_repeat, attributes, proxyVars, deviceVars, calls, faults,
                   undefined>>

\* The attributes follow what this thread computed, whatever the other one
\* stored or published meanwhile.
publishNext(t) ==
    /\ At(t, "publishNext")
    /\ canGoNext' = (threads[t].size >= threads[t].new + 1)
    /\ threads' = [threads EXCEPT ![t].pc = "publishPrevious", ![t].size = 0]
    /\ UNCHANGED <<queueVars, playQueuePosition, m_repeat, canGoPrevious, proxyVars, deviceVars,
                   calls, faults, undefined>>

\* Mutant: CanGoPrevious is not taken back.
publishPreviousKept(t) ==
    /\ At(t, "publishPrevious")
    /\ canGoPrevious' = (canGoPrevious \/ threads[t].new - 1 >= 0)
    /\ threads' = [threads EXCEPT ![t].pc = "fetch", ![t].new = 0]
    /\ UNCHANGED <<queueVars, playQueuePosition, m_repeat, canGoNext, proxyVars, deviceVars,
                   calls, faults, undefined>>

publishPrevious(t) ==
    /\ At(t, "publishPrevious")
    /\ canGoPrevious' = (threads[t].new - 1 >= 0)
    /\ threads' = [threads EXCEPT ![t].pc = "fetch", ![t].new = 0]
    /\ UNCHANGED <<queueVars, playQueuePosition, m_repeat, canGoNext, proxyVars, deviceVars,
                   calls, faults, undefined>>

\* The item is the one at the position as it is by now, none if that is beyond
\* the queue.
fetch(t) ==
    /\ At(t, "fetch")
    /\ \/ queuePtr = "freed" /\ Breaks
       \/ /\ queuePtr # "freed" /\ UNCHANGED shared
          /\ threads' = [threads EXCEPT
                ![t].pc = "read",
                ![t].uri = IF playQueuePosition < Len(playqueue)
                           THEN playqueue[playQueuePosition + 1] ELSE NoUri]

\* The display name and the local URL are read from the item.
read(t) ==
    /\ At(t, "read")
    /\ \/ threads[t].dangling /\ Breaks
       \/ ~threads[t].dangling /\ Goto(t, "discover") /\ UNCHANGED shared

-------------------------------------------------------------------------------
(* connectMediaPlayer, at the start of every call on the renderer. *)

\* The renderers are discovered, which blocks, and the former proxy is dropped.
discover(t) ==
    /\ At(t, "discover")
    /\ \/ Fails /\ Done(t) /\ UNCHANGED <<mp, undefined>>
       \/ /\ mp = "freed" /\ undefined' = TRUE /\ UNCHANGED <<mp, threads, faults>>
       \/ /\ mp # "freed" /\ mp' = IF mp = "live" THEN "freed" ELSE mp
          /\ Goto(t, "connect") /\ UNCHANGED <<faults, undefined>>
    /\ UNCHANGED <<queueVars, playQueuePosition, m_repeat, attributes, m_signalHandlerId,
                   subscriptions, deviceVars, calls>>

\* Mutant: a proxy that cannot be made leaves the pointer as it is.
connectKeepsPointer(t) ==
    /\ At(t, "connect")
    /\ \/ Fails /\ UNCHANGED mp /\ Done(t)
       \/ mp' = "live" /\ Goto(t, "register") /\ UNCHANGED faults
    /\ UNCHANGED <<queueVars, playQueuePosition, m_repeat, attributes, m_signalHandlerId,
                   subscriptions, deviceVars, calls, undefined>>

\* A proxy is made, which blocks, and stored; NULL if that failed.
connect(t) ==
    /\ At(t, "connect")
    /\ \/ Fails /\ mp' = "null" /\ Done(t)
       \/ mp' = "live" /\ Goto(t, "register") /\ UNCHANGED faults
    /\ UNCHANGED <<queueVars, playQueuePosition, m_repeat, attributes, m_signalHandlerId,
                   subscriptions, deviceVars, calls, undefined>>

\* Mutant: the handler id is not looked at.
registerAlways(t) ==
    /\ At(t, "register")
    /\ subscriptions' = subscriptions + 1 /\ Goto(t, "registered")
    /\ UNCHANGED <<queueVars, playQueuePosition, m_repeat, attributes, mp, m_signalHandlerId,
                   deviceVars, calls, faults, undefined>>

\* registerSignalListener: the subscription works before its id is stored.
register(t) ==
    /\ At(t, "register")
    /\ IF m_signalHandlerId
       THEN Goto(t, "call") /\ UNCHANGED subscriptions
       ELSE Goto(t, "registered") /\ subscriptions' = subscriptions + 1
    /\ UNCHANGED <<queueVars, playQueuePosition, m_repeat, attributes, mp, m_signalHandlerId,
                   deviceVars, calls, faults, undefined>>

registered(t) ==
    /\ At(t, "registered") /\ m_signalHandlerId' = TRUE /\ Goto(t, "call")
    /\ UNCHANGED <<queueVars, playQueuePosition, m_repeat, attributes, mp, subscriptions,
                   deviceVars, calls, faults, undefined>>

(* The renderer. *)

Playing == renderer.state = "Playing"

\* A change to Stopped is announced once for every subscription.
Stops ==
    /\ renderer' = [renderer EXCEPT !.state = "Stopped"]
    /\ stops' = stops + subscriptions /\ stops' <= MaxStops

Obeys(op, uri) ==
    CASE op = "pause" -> /\ renderer' = [renderer EXCEPT !.state = IF Playing THEN "Paused" ELSE @]
                         /\ UNCHANGED stops
      [] op = "play"  -> /\ renderer' = [renderer EXCEPT !.state = IF @ = "Paused" THEN "Playing" ELSE @]
                         /\ UNCHANGED stops
      [] OTHER        -> \/ /\ uri # NoUri /\ UNCHANGED stops
                            /\ renderer' = [state |-> "Playing", uri |-> uri]
                         \/ uri = NoUri /\ Playing /\ Stops
                         \/ uri = NoUri /\ UNCHANGED deviceVars

\* The call goes through whatever proxy mp points to by now; through NULL it
\* is not made.
call(t) ==
    /\ At(t, "call")
    /\ \/ mp = "freed" /\ Breaks
       \/ /\ mp = "null" /\ Done(t)
          /\ UNCHANGED <<deviceVars, faults>>
          /\ UNCHANGED <<queueVars, playQueuePosition, m_repeat, attributes, proxyVars, calls,
                         undefined>>
       \/ /\ mp = "live" /\ Done(t)
          /\ \/ Fails /\ UNCHANGED deviceVars
             \/ Obeys(threads[t].op, threads[t].uri) /\ UNCHANGED faults
          /\ UNCHANGED <<queueVars, playQueuePosition, m_repeat, attributes, proxyVars, calls,
                         undefined>>

TrackEnds ==
    /\ ~undefined /\ Playing /\ Stops
    /\ UNCHANGED <<queueVars, playQueuePosition, m_repeat, attributes, proxyVars, threads, calls,
                   faults, undefined>>

-------------------------------------------------------------------------------
Step(t) ==
    /\ ~undefined
    /\ \/ release(t) \/ replace(t) \/ measure(t) \/ add(t) \/ choose(t) \/ store(t)
       \/ publishNext(t) \/ publishPrevious(t) \/ fetch(t) \/ read(t)
       \/ discover(t) \/ connect(t) \/ register(t) \/ registered(t) \/ call(t)

ClientCall ==
    /\ ~undefined
    /\ \/ \E op \in {"next", "previous", "pause", "play", "openPlaylist"} : Call(op)
       \/ dequeueAll
       \/ \E mode \in RepeatModes : setRepeat(mode)

Dispatch == ~undefined /\ HandleStopped

Next == ClientCall \/ Dispatch \/ (\E t \in Threads : Step(t)) \/ TrackEnds

\* Both threads are scheduled and the main loop dispatches; that a playing
\* track ends is a statement about media.
Spec == /\ Init /\ [][Next]_vars
        /\ \A t \in Threads : WF_vars(Step(t))
        /\ WF_vars(Dispatch) /\ WF_vars(TrackEnds)

-------------------------------------------------------------------------------
\* Each thread has at most one handler; the fields keep their types.
TypeOK ==
    /\ playqueue \in Seq(Items) /\ Len(playqueue) <= MaxQueue
    /\ playQueuePosition \in 0 .. Unset /\ m_repeat \in RepeatModes
    /\ {canGoNext, canGoPrevious, m_signalHandlerId, undefined} \subseteq BOOLEAN
    /\ mp \in {"null", "live", "freed"} /\ queuePtr \in {"null", "live", "freed"}
    /\ subscriptions \in Nat
    /\ renderer.state \in {"Playing", "Paused", "Stopped"} /\ renderer.uri \in Items \cup {NoUri}
    /\ stops \in 0 .. MaxStops
    /\ DOMAIN threads = Threads

\* However two position changes overlap (playerprovider.cpp:599-617), the
\* position stored is one that a queue of the bounded length has: the check
\* and the store use the same number.
PositionInRange == playQueuePosition = Unset \/ playQueuePosition < MaxQueue

\* Freed memory (the proxy of playerprovider.cpp:157, the queue of 129, the
\* items of 578) is used only by a handler that the other thread overlapped:
\* one at a time they are safe, after any history of overlaps and failures.
OneAtATimeIsSafe == undefined => \E t \in Threads : ~threads[t].alone

\* The unprotected test of m_signalHandlerId (playerprovider.cpp:255) never
\* subscribes more than once per thread, so the end of a track is answered by
\* at most two next().
SubscribedTwiceAtMost == subscriptions <= Cardinality(Threads)

\* Nothing is under way and no signal waits.
Resting == stops = 0 /\ \A t \in Threads : At(t, "idle")

\* What clients see agrees with what plays.
Agrees ==
    Playing => /\ playQueuePosition < Len(playqueue)
               /\ renderer.uri = playqueue[playQueuePosition + 1]
               /\ canGoNext <=> playQueuePosition + 1 < Len(playqueue)
               /\ canGoPrevious <=> playQueuePosition > 0

\* Overlapping position changes may open their entries in the wrong order,
\* publish attributes of another entry or lose a step (playerprovider.cpp:599,
\* 619, 637).  Once clients stop calling and calls stop failing this heals: in
\* the end what plays at rest is always the selected entry, shown rightly.
OverlapHeals == <>[](Resting => Agrees \/ undefined)
===============================================================================
