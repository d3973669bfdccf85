------------------------------ MODULE MCRenderers ------------------------------
(* One renderer of our own beside two of somebody else, a queue of two.     *)
EXTENDS Renderers

CONSTANTS own, tv, radio

AllRenderers == {own, tv, radio}
OurRenderer == {own}
TwoEntries == <<"first", "second">>
Foreigners == Permutations({tv, radio})
===============================================================================
