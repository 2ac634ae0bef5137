--------------------------- MODULE ReplicatedLog ---------------------------
(***************************************************************************)
(* What federation sync promises a mirror: the transitions a peer commits  *)
(* are copied in the peer's order, each one once and none skipped.  A      *)
(* mirror without a durable store starts over when it restarts.            *)
(***************************************************************************)
EXTENDS Naturals, Sequences

VARIABLES
    committed, \* how many transitions the best peer has committed
    copy       \* the transitions the mirror holds, by their number

Init == committed \in Nat /\ copy = <<>>

Commit == committed' = committed + 1 /\ UNCHANGED copy

Copy ==
    /\ Len(copy) < committed
    /\ copy' = Append(copy, Len(copy) + 1)
    /\ UNCHANGED committed

StartOver == copy' = <<>> /\ UNCHANGED committed

Next == Commit \/ Copy \/ StartOver

Spec == Init /\ [][Next]_<<committed, copy>>
=============================================================================
