---------------------------- MODULE EventDeskMC ----------------------------
(* Model-checking instances of EventDesk. *)
EXTENDS EventDesk, TLC

CONSTANTS d, e, p, q

\* Addresses are interchangeable; used with safety properties only.
Guests == Permutations(Person)

\* The windows of all events have closed by MaxTime: what happens then is
\* checked, and not what may follow.
Bound == now < MaxTime
=============================================================================
