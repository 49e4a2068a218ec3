---------------------------- MODULE MCGxactOrder ----------------------------
(* Model-checking instances of GxactOrder.                                  *)
EXTENDS GxactOrder, TLC

Symmetry == Permutations(Gxact) \cup Permutations(Seg)
=============================================================================
