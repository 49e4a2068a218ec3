------------------------------- MODULE MCGdd -------------------------------
(* Model-checking instances of Gdd.                                         *)
EXTENDS Gdd, TLC

Symmetry == Permutations(Backend) \cup Permutations(QE)
=============================================================================
