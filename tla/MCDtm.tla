------------------------------- MODULE MCDtm --------------------------------
(* TLC instances of Dtm.                                                   *)
EXTENDS DtmInvariant, TLC

\* Segments are interchangeable, and so are transactions.
SegmentSymmetry == Permutations(Segment)
GxidSymmetry    == Permutations(Gxid)
=============================================================================
