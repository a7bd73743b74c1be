--------------------------- MODULE MCQPOSFinality ---------------------------
(***************************************************************************)
(* Two blocks a and b that fork from genesis, over four epochs of two      *)
(* slots, enough for the pruning of epoch roots: a sits on the boundary of *)
(* epoch 2, b misses the one of epoch 3. The last two fields are the       *)
(* checkpoints the header claims.                                          *)
(***************************************************************************)
EXTENDS QPOSFinality, TLC

CONSTANTS g, a, b

H(parent, height, slot, j, f) ==
  [parent |-> parent, height |-> height, slot |-> slot, justifiedEpoch |-> j, finalizedEpoch |-> f]

MCBlocks == {g, a, b}

MCHeader == (g :> H(NoRoot, 0, 0, 0, 0)) @@ (a :> H(g, 1, 4, 2, 0)) @@ (b :> H(g, 1, 7, 2, 1))

MCHashOrder == (g :> 0) @@ (a :> 1) @@ (b :> 2)

(* Two seals, two replayed headers or one of each. *)
Few == Cardinality(qpos.sealed) + Cardinality(qpos.applied) <= 2
=============================================================================
