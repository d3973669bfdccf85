---------------------------- MODULE MCPlayerThreads ----------------------------
(* PlayerThreads on a small instance: playlists of one and of two entries.  *)
EXTENDS PlayerThreads

CONSTANTS client, loop, a, b, noUri

AllItems == {a, b}
TwoLists == {<<a, b>>, <<b>>}
===============================================================================
