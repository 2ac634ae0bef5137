----------------------------- MODULE BranchesMC -----------------------------
(* Model-checking instances of Branches. *)
EXTENDS Branches

CONSTANTS ann, bob

By(p, s) == [kind |-> p, who |-> None, set |-> {}, num |-> 0, by |-> s]

\* One founding by ann, churn (bob joins and leaves), a migration that
\* expires, bob's custody tier and the branching itself, all signed by ann.
Payloads == {
    [By("CREATE_GROUP", ann) EXCEPT !.set = {ann}],
    [By("ADD_STEWARD", ann) EXCEPT !.who = bob],
    [By("REMOVE_STEWARD", ann) EXCEPT !.who = bob],
    [By("MIGRATE", ann) EXCEPT !.num = 0],
    [By("DECLARE_CUSTODY", ann) EXCEPT !.who = bob, !.num = 1],
    By("BRANCH_CREATE", ann)}
=============================================================================
