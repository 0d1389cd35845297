--------------------------- MODULE MCSystemQueue ---------------------------
(* Model-checking instances of SystemQueue.                                *)
EXTENDS SystemQueue

CONSTANTS p1, p2

\* two threads race, and one of them pushes again
TwoAndOne == [p \in Pushers |-> IF p = p1 THEN 2 ELSE 1]
=============================================================================
