------------------------------- MODULE Indexer -------------------------------
(***************************************************************************)
(* The indexer: IndexerStubImpl (indexerstub.cpp) and LMSProvider          *)
(* (lms.cpp), registered as Registration describes with lightmediascanner  *)
(* (external) as the backend.  LMSProvider does not share ServiceProvider  *)
(* but watches its name and reports to registerService in the same way; it *)
(* never activates its backend and never gives up on the bus, which is     *)
(* among the behaviours of Connect.                                        *)
(***************************************************************************)
EXTENDS Registration

CONSTANT Refusals       \* TRUE if a running scanner may answer with an error

VARIABLES
    alive,          \* the process runs
    reply           \* the reply of the last step, if that was a call

indexerVars == <<regVars, alive, reply>>

NoReply == [op |-> "none", error |-> "NO_ERROR", failed |-> FALSE]

IndexerInit == RegInit /\ alive = TRUE /\ reply = NoReply

\* A D-Bus call on the scanner fails without a scanner.
CallFails(failed) == failed \in (IF owned THEN {FALSE} \cup {Refusals} ELSE {TRUE})

\* The error start/stopIndexing report: it is set only through a pointer that
\* already points to an error, and the stub passes one that does not.
CalledWithError == FALSE
callError(failed) == IF failed /\ CalledWithError THEN "BACKEND_UNREACHABLE" ELSE "NO_ERROR"

startIndexing(failed) ==
    /\ CallFails(failed)
    /\ reply' = [op |-> "startIndexing", error |-> callError(failed), failed |-> failed]
    /\ UNCHANGED alive

stopIndexing(failed) ==
    /\ CallFails(failed)
    /\ reply' = [op |-> "stopIndexing", error |-> callError(failed), failed |-> failed]
    /\ UNCHANGED alive

\* getDatabasePath: an error of the call goes to g_error, which aborts.
getDatabasePath(failed) ==
    /\ isConnected => CallFails(failed)
    /\ alive' = (isConnected => ~failed)
    /\ reply' = [op |-> "getDatabasePath", failed |-> failed \/ ~isConnected,
                 error |-> IF isConnected THEN "NO_ERROR" ELSE "BACKEND_UNREACHABLE"]

\* Clients reach the indexer once it is published.
IndexerCall ==
    /\ alive /\ published # 0
    /\ \E failed \in BOOLEAN :
          startIndexing(failed) \/ stopIndexing(failed) \/ getDatabasePath(failed)
    /\ UNCHANGED regVars

OfProcess(step) == alive /\ step /\ reply' = NoReply /\ UNCHANGED alive
RegistrationStep == OfProcess(RegNext)

IndexerNext == IndexerCall \/ RegistrationStep

\* main() connects and runs the main loop for as long as the process lives.
IndexerSpec == /\ IndexerInit /\ [][IndexerNext]_indexerVars
               /\ WF_indexerVars(OfProcess(Connect)) /\ WF_indexerVars(OfProcess(Dispatch))

===============================================================================
