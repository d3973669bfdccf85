---------------------------- MODULE MCUnattended ----------------------------
(* Unattended on queues of up to four entries, repeated items included.    *)
EXTENDS Unattended

CONSTANTS a, b, c, noUri

AllItems == {a, b, c}
Lists == {<<>>, <<a>>, <<a, b>>, <<b, b>>, <<a, b, c>>, <<c, a, b, a>>}
NoUris == {}
NoFaults == {}
NoSignals == {}
AnyShuffle == BOOLEAN
=============================================================================
