----------------------------- MODULE MCNodeChain -----------------------------
(***************************************************************************)
(* Trees of blocks over three epochs of two slots (the boundaries are the  *)
(* slots 2 and 4).                                                         *)
(*                                                                         *)
(*   Forked   a1 <- a2 and b1 <- b2 fork at genesis: they disagree on the  *)
(*            checkpoint of epoch 1 (a1 sits on the boundary, b1 misses    *)
(*            it); the header of a2 claims that epoch 1 is final           *)
(*   Raced    the same without b2, for a node that produces b1 itself      *)
(***************************************************************************)
EXTENDS NodeChain, TLC

CONSTANTS g, a1, a2, b1, b2

H(parent, height, slot, j, f) ==
  [parent |-> parent, height |-> height, slot |-> slot, justifiedEpoch |-> j, finalizedEpoch |-> f]

Forked == {g, a1, a2, b1, b2}
ForkedHeader ==
  (g  :> H(NoRoot, 0, 0, 0, 0)) @@
  (a1 :> H(g, 1, 2, 0, 0)) @@ (a2 :> H(a1, 2, 4, 1, 1)) @@
  (b1 :> H(g, 1, 3, 0, 0)) @@ (b2 :> H(b1, 2, 5, 0, 0))

Raced == {g, a1, a2, b1}
RacedHeader == [b \in Raced |-> ForkedHeader[b]]

MCHashOrder == (g :> 0) @@ (a1 :> 1) @@ (a2 :> 2) @@ (b1 :> 3) @@ (b2 :> 4)

None == {}
InsertOnly == {"insert"}
InsertAndPending == {"insert", "pending"}
QuorumA1 == {[beacon |-> a1, source |-> 0]}
=============================================================================
