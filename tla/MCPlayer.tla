------------------------------ MODULE MCPlayer ------------------------------
(* Player on small instances; the cfg files choose faults and bounds.      *)
EXTENDS Player

CONSTANTS a, b, foreign, noUri

AllItems == {a, b}
OneLocal == {a}

\* Playlists of up to two and of up to three entries, the empty one included.
ShortPlaylists == {<<>>, <<a>>, <<a, b>>}
LongPlaylists == {<<>>, <<b>>, <<a, b>>, <<b, a, a>>}

NoUris == {}
ForeignUris == {foreign}

NoFaults == {}
NoSignals == {}
\* Each part of a signal that a handler acts on, in the fewest signals.
TellingSignals ==
    {[status |-> "Playing", metadata |-> FALSE], [status |-> "Stopped", metadata |-> TRUE]}
AllFaults == FaultKinds
=============================================================================
