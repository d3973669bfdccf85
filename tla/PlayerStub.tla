------------------------------ MODULE PlayerStub ------------------------------
(***************************************************************************)
(* The player as its clients call it: class PlayerStubImpl                 *)
(* (playerstub.cpp) forwards every D-Bus method to the provider and        *)
(* translates the provider's MmError into the PlayerError of the reply.    *)
(***************************************************************************)
EXTENDS Player

VARIABLE reply      \* the reply of the last step, if that was a method call

stubVars == <<vars, reply>>

NoReply == [op |-> "none", out |-> "done", error |-> "NO_ERROR"]

\* Every method allocates an MmError before it calls the provider, which
\* replaces it by another when it finds an error ...
mmError(out) == IF out = "done" THEN "allocated by the stub" ELSE "set by the provider"

\* ... and takes whatever it then finds there for an error.
playerError(error) == IF error = "NULL" THEN "NO_ERROR" ELSE "BACKEND_UNREACHABLE"

Answer(op, out) == reply' = [op |-> op, out |-> out, error |-> playerError(mmError(out))]

\* The methods that call the renderer.
RendererMethod(out) ==
    /\ Room
    /\ \/ clientNext(out) /\ Answer("next", out)
       \/ previous(out) /\ Answer("previous", out)
       \/ \E uri \in OpenUris : openUri(uri, out) /\ Answer("openUri", out)
       \/ \E list \in Playlists : openPlaylist(list, out) /\ Answer("openPlaylist", out)
       \/ clientPause(out) /\ Answer("pause", out)
       \/ play(out) /\ Answer("play", out)
       \/ playPause(out) /\ Answer("playPause", out)
       \/ \E sought \in Outcomes : stop(out, sought) /\ Answer("stop", out)
       \/ touchTransport(out) /\ \E op \in {"seek", "setPosition"} : Answer(op, out)

\* The methods on the queue.  A path that is invalid or cannot be listed
\* leaves the player alone; dequeueIndex does nothing (playerprovider.cpp:572).
QueueMethod ==
    \/ \E item \in Items : enqueueUri(item) /\ Answer("enqueueUri", "done")
    \/ \E op \in {"enqueueUri", "openPlaylist"} : UNCHANGED vars /\ Answer(op, "refused")
    \/ dequeueAll /\ Answer("dequeueAll", "done")
    \/ \E op \in {"dequeueIndex", "getCurrentPlayQueue"} : UNCHANGED vars /\ Answer(op, "done")

\* Attributes have no error to report.
Attribute ==
    /\ \/ \E mode \in RepeatModes : setRepeat(mode)
       \/ \E on \in BOOLEAN : setShuffle(on)
       \/ Room /\ \E out \in Outcomes : touchTransport(out)
    /\ reply' = NoReply

StubHandleSignal == HandleSignal /\ reply' = NoReply

StubInit == Init /\ reply = NoReply

StubNext ==
    \/ \E out \in Outcomes : RendererMethod(out)
    \/ QueueMethod
    \/ Attribute
    \/ StubHandleSignal
    \/ RendererStep /\ reply' = NoReply

StubSpec == StubInit /\ [][StubNext]_stubVars /\ WF_stubVars(StubHandleSignal)

-------------------------------------------------------------------------------
\* A client that pauses or stops a renderer that can be reached is shown PAUSED
\* in the end, also if the renderer refused because it was not playing or its
\* reply came too late (playerprovider.cpp:63-76, 219-223, 442-446).
PauseIsShown ==
    (reply.op \in {"pause", "stop"} /\ reply.out # "unreachable") ~> playbackStatus = "PAUSED"

(* A statement of the tests that the player does not keep. *)

\* openUri, play and pause that did what they were asked for answer NO_ERROR
\* (player_commonapi_test.cpp:67, 75, 83).
SuccessReported ==
    reply.op \in {"openUri", "play", "pause"} /\ reply.out = "done" => reply.error = "NO_ERROR"
===============================================================================
