------------------------------- MODULE Discovery -------------------------------
(***************************************************************************)
(* How the program finds its backends: Common::discoverDLNABackends and    *)
(* pathIsMediaManager (common.cpp).  dLeyna (external) is asked for all    *)
(* the servers or renderers it knows, then each of them is asked for its   *)
(* name, one blocking call after the other, while devices come and go.     *)
(* The error pointer is NULL in every call of the program, so a failure    *)
(* only shows in what is found.                                            *)
(***************************************************************************)
EXTENDS SequencesExt

CONSTANTS
    Backends,       \* object paths of the devices there may be
    Own,            \* those whose DisplayName or Identity names this media manager
    Faults          \* calls that may fail without a cause, a subset of {"list", "get", "call"}

ASSUME DiscoveryAssumption ==
    IsFiniteSet(Backends) /\ Own \subseteq Backends /\ Faults \subseteq {"list", "get", "call"}

VARIABLES
    present,        \* devices dLeyna knows now
    pc,             \* "idle", "list" or "ask"; "crashed" when the process is gone
    asking,         \* objs: the paths still to be asked
    found,          \* result
    answered        \* history: the devices that were there and answered, all along

discoveryVars == <<present, pc, asking, found, answered>>

DiscoveryInit ==
    present \in SUBSET Backends /\ pc = "idle" /\ asking = <<>> /\ found = <<>> /\ answered = {}

\* discoverDLNABackends is called.
Discover == pc = "idle" /\ pc' = "list" /\ UNCHANGED <<present, asking, found, answered>>

\* GetServers or GetRenderers.  Without a proxy the result is empty.  A call that
\* fails leaves ret NULL, and g_variant_get_child_value(NULL, 0) is undefined: it
\* ends the process, or GLib catches it and the list is an empty one.
GetObjects ==
    /\ pc = "list" /\ found' = <<>>
    /\ \/ asking' \in SetToSeqs(present) /\ answered' = present /\ pc' = "ask"
       \/ "list" \in Faults /\ asking' = <<>> /\ answered' = {} /\ pc' \in {"ask", "crashed"}
    /\ UNCHANGED present

\* Mutant: an error passes for a match.
pathIsMediaManagerOnError(path, gone) == gone \/ path \in Own
\* The name is compared; an error of the call is no match.
pathIsMediaManager(path, gone) == ~gone /\ path \in Own

\* Mutant: the first device that does not answer ends the search.
AskNextGivesUp ==
    /\ pc = "ask" /\ asking # <<>>
    /\ LET path == Head(asking)
       IN  IF path \in present
           THEN /\ found' = IF pathIsMediaManager(path, FALSE) THEN Append(found, path) ELSE found
                /\ asking' = Tail(asking)
           ELSE asking' = <<>> /\ UNCHANGED found
    /\ UNCHANGED <<present, pc, answered>>

AskNext ==
    /\ pc = "ask" /\ asking # <<>>
    /\ LET path == Head(asking)
       IN  \E gone \in BOOLEAN :
              /\ path \notin present => gone
              /\ gone => path \notin present \/ "get" \in Faults
              /\ found' = IF pathIsMediaManager(path, gone) THEN Append(found, path) ELSE found
              /\ answered' = IF gone THEN answered \ {path} ELSE answered
    /\ asking' = Tail(asking)
    /\ UNCHANGED <<present, pc>>

\* The caller has used the result.
Forget == pc' = "idle" /\ asking' = <<>> /\ found' = <<>> /\ answered' = {} /\ UNCHANGED present

\* The result is there.
Discovered == pc = "ask" /\ asking = <<>>

DeviceLeaves(path) ==
    /\ path \in present /\ present' = present \ {path} /\ answered' = answered \ {path}
    /\ UNCHANGED <<pc, asking, found>>
DeviceComes(path) ==
    path \notin present /\ present' = present \cup {path} /\ UNCHANGED <<pc, asking, found, answered>>

-------------------------------------------------------------------------------
\* Whatever comes and goes during the calls: a device of our own that was there
\* and answered all along is found, once, and nothing else but our own
\* (common.cpp:350-354).
DiscoveryIsRegular ==
    Discovered => /\ answered \cap Own \subseteq Range(found)
                  /\ Range(found) \subseteq Own
                  /\ Len(found) = Cardinality(Range(found))
===============================================================================
