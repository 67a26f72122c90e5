--------------------------- MODULE MCReviewMemory ---------------------------
(* Instances of ReviewMemory: one place twice on one file, or two places   *)
(* on two files of which one path ends with the other.                     *)
EXTENDS ReviewMemory
CONSTANTS p1, p2, f1, f2, j1, j2

OneFile == [p \in Place |-> f1]
Nested == {<<f1, f2>>}
TwoFiles == [p \in Place |-> IF p = p1 THEN f1 ELSE f2]
=============================================================================
