---------------------------- MODULE MCPlayerStub ----------------------------
(* PlayerStub on small instances.                                          *)
EXTENDS PlayerStub

CONSTANTS a, b, foreign, noUri

AllItems == {a, b}
OneLocal == {a}
TinyPlaylists == {<<>>, <<a>>, <<b>>}
ShortPlaylists == {<<>>, <<a>>, <<a, b>>}
NoUris == {}
ForeignUris == {foreign}
NoFaults == {}
NoSignals == {}
PlayingSignal == {[status |-> "Playing", metadata |-> FALSE]}
AllFaults == FaultKinds
=============================================================================
