------------------------------ MODULE OrdersMC ------------------------------
(* Model-checking instances of Orders. *)
EXTENDS Orders, TLC

CONSTANTS o1, o2, o3

\* Order ids are interchangeable; used with safety properties only.
OrderSymmetry == Permutations(Order)
=============================================================================
