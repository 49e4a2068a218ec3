----------------------------- MODULE MCGxidGen -----------------------------
(* TLC instances of GxidGen.                                               *)
EXTENDS GxidGen, TLC

\* Backends are interchangeable.
Symmetry == Permutations(Backend)
=============================================================================
