----------------------------- MODULE Registration -----------------------------
(***************************************************************************)
(* How a service of the media manager comes to be published: a provider    *)
(* connects to its backend's bus name (serviceprovider.cpp, lms.cpp), the  *)
(* name watcher reports appearances and disappearances through the main    *)
(* loop, and each report runs registerService of main.cpp, which makes a   *)
(* new stub for every appearance.  One instance of this module is one      *)
(* provider with its backend.                                              *)
(***************************************************************************)
EXTENDS Naturals, Sequences, FiniteSets

CONSTANTS
    MaxReports,     \* bound: name reports waiting in the main loop
    MaxStubs,       \* bound: appearances of the backend, so stubs made
    Faults          \* a subset of {"bus", "factory", "publisher"}

ASSUME RegistrationAssumption ==
    /\ MaxReports \in Nat \ {0} /\ MaxStubs \in Nat \ {0}
    /\ Faults \subseteq {"bus", "factory", "publisher"}

VARIABLES
    trouble,        \* which of the Faults may strike this process, not known to it
    owned,          \* the backend owns its name on the bus
    pc,             \* main(): before connect, watching the name, or never watching
    reports,        \* name reports not yet dispatched
    connection,     \* the provider's connection pointer is set
    made,           \* number of stubs made so far
    stub,           \* the provider's stub pointer: the stub of that number, 0 for NULL
    published       \* the stub the publisher holds and clients reach, 0 for none

regVars == <<trouble, owned, pc, reports, connection, made, stub, published>>

RegInit ==
    /\ trouble \in SUBSET Faults
    /\ owned \in BOOLEAN
    /\ pc = "start" /\ reports = <<>> /\ connection = FALSE
    /\ made = 0 /\ stub = 0 /\ published = 0

\* connect(): fails for good if the session bus cannot be reached.  Otherwise
\* the dummy proxy may activate the backend, and the watcher reports whether
\* the name has an owner.
Connect ==
    /\ pc = "start"
    /\ \/ /\ "bus" \in trouble
          /\ pc' = "unwatched"
          /\ UNCHANGED <<owned, reports>>
       \/ /\ pc' = "watching"
          /\ owned' \in {owned, TRUE}
          /\ reports' = <<IF owned' THEN "appeared" ELSE "vanished">>
    /\ UNCHANGED <<trouble, connection, made, stub, published>>

\* The bus delivers every change of owner to the watcher.
Report(what) == reports' = IF pc = "watching" THEN Append(reports, what) ELSE reports

Appearances == {i \in DOMAIN reports : reports[i] = "appeared"}

BackendStarts ==
    /\ ~owned /\ Len(reports) < MaxReports
    /\ made + Cardinality(Appearances) < MaxStubs
    /\ owned' = TRUE /\ Report("appeared")
    /\ UNCHANGED <<trouble, pc, connection, made, stub, published>>

BackendStops ==
    /\ owned /\ Len(reports) < MaxReports
    /\ owned' = FALSE /\ Report("vanished")
    /\ UNCHANGED <<trouble, pc, connection, made, stub, published>>

\* Mutant: a second attempt makes a second stub.
registerServiceRetries ==
    made' = made + 2 /\ stub' = made' /\ published' = IF published = 0 THEN made' ELSE published

\* registerService without an error: the new stub makes itself the provider's
\* stub before it is known whether it can be published.  The publisher keeps
\* one stub per address; a stub it does not keep is destroyed on return.
registerService ==
    \/ "factory" \in trouble /\ UNCHANGED <<made, stub, published>>
    \/ /\ made' = made + 1 /\ stub' = made'
       /\ \/ published = 0 /\ published' = made'
          \/ (published # 0 \/ "publisher" \in trouble) /\ UNCHANGED published

\* Mutant: the test of e is inverted.
onNameAppearedInverted ==
    /\ reports # <<>> /\ Head(reports) = "appeared"
    /\ reports' = Tail(reports)
    /\ connection' = TRUE
    /\ UNCHANGED <<trouble, owned, pc, made, stub, published>>

onNameAppeared ==
    /\ reports # <<>> /\ Head(reports) = "appeared"
    /\ reports' = Tail(reports)
    /\ connection' = TRUE
    /\ registerService
    /\ UNCHANGED <<trouble, owned, pc>>

\* Mutant: e is not tested.
onNameVanishedRegisters ==
    /\ reports # <<>> /\ Head(reports) = "vanished"
    /\ reports' = Tail(reports)
    /\ registerService
    /\ UNCHANGED <<trouble, owned, pc, connection>>

\* The callback is told of an error, and registerService only prints it: the
\* connection and the published stub stay.
onNameVanished ==
    /\ reports # <<>> /\ Head(reports) = "vanished"
    /\ reports' = Tail(reports)
    /\ UNCHANGED <<trouble, owned, pc, connection, made, stub, published>>

Dispatch == onNameAppeared \/ onNameVanished

isConnected == connection

RegNext == Connect \/ BackendStarts \/ BackendStops \/ Dispatch

\* main() calls connect and then runs the main loop.
RegSpec == RegInit /\ [][RegNext]_regVars /\ WF_regVars(Connect) /\ WF_regVars(Dispatch)

-------------------------------------------------------------------------------
\* Types; an appearance of the backend makes one stub at most.
RegTypeOK ==
    /\ trouble \subseteq Faults /\ owned \in BOOLEAN /\ connection \in BOOLEAN
    /\ pc \in {"start", "watching", "unwatched"}
    /\ reports \in Seq({"appeared", "vanished"}) /\ Len(reports) <= MaxReports
    /\ made \in 0 .. MaxStubs /\ stub \in 0 .. made /\ published \in 0 .. made

\* Clients only ever reach a service whose provider has a connection to make
\* its calls on and a stub to publish attributes through.
PublishedHasConnection == published # 0 => connection /\ stub # 0

\* A backend that is on the bus once it is watched, however briefly, gets its
\* service published, when the bus, the factory and the publisher work.
BackendGetsPublished == (trouble = {} /\ pc = "watching" /\ owned) ~> published # 0

(* A statement of the documentation that the program does not keep. *)

\* The provider's stub is the one of this instance that clients reach
\* (playerprovider.h:191-194).
StubIsPublished == stub # 0 => stub = published
===============================================================================
