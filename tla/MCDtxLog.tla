------------------------------ MODULE MCDtxLog ------------------------------
(* TLC instances of DtxLog.                                                *)
EXTENDS DtxLog, TLC

\* Transactions are interchangeable.
Symmetry == Permutations(Gxid)
=============================================================================
