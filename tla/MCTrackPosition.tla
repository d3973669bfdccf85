---------------------------- MODULE MCTrackPosition ----------------------------
(* Two tracks of different lengths, all 16 values of a number.              *)
EXTENDS TrackPosition

TwoTracks == {"short", "long"}
Lengths == [short |-> 2, long |-> 5]
===============================================================================
