------------------------------- MODULE MCFts -------------------------------
(* TLC instances of Fts.                                                   *)
EXTENDS Fts, TLC
=============================================================================
