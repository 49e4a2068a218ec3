---------------------------- MODULE MCGddReduce ----------------------------
(* Model-checking instances of GddReduce.                                   *)
EXTENDS GddReduce
=============================================================================
