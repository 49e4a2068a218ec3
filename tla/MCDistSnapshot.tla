--------------------------- MODULE MCDistSnapshot ---------------------------
(* Model-checking instance of DistSnapshot: a transaction that writes on     *)
(* both segments, one that writes and reads on the first, and a reader there. *)
EXTENDS DistSnapshot, TLC

CONSTANTS wide, narrow, reader, s1, s2

Writers == {wide, narrow}
Readers == {narrow, reader}
Segments == {s1, s2}
Dispatch == [t \in Writers \cup Readers |-> IF t = wide THEN {s1, s2} ELSE {s1}]
=============================================================================
