------------------------------ MODULE MirrorMC ------------------------------
(* Model-checking instances of Mirror. *)
EXTENDS Mirror

CONSTANTS p1, p2

\* No two prefixes have the same root.
DistinctRoots == [k \in 0 .. Last |-> k]

\* Transitions 2 and 3 add and remove the same steward.
RecurringRoots == [k \in 0 .. Last |-> IF k = 3 THEN 1 ELSE k]
=============================================================================
