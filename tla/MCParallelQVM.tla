----------------------------- MODULE MCParallelQVM -----------------------------
(***************************************************************************)
(* Every batch of at most three of six transfers among three accounts.     *)
(* Which of them can be paid depends on their order; the self-transfer     *)
(* reads its own write, so no round with it is ever validated.             *)
(***************************************************************************)
EXTENDS ParallelQVM, TLC

CONSTANTS u1, u2, u3

Call(from, to, value) == [caller |-> from, contract |-> to, value |-> value]

MCBalances == (u1 :> 2) @@ (u2 :> 1) @@ (u3 :> 0)

MCCalls == {Call(u1, u2, 1), Call(u1, u3, 2), Call(u2, u3, 2), Call(u3, u2, 1), Call(u2, u2, 1), Call(u3, u1, 0)}

MCBatches == UNION {[1 .. n -> MCCalls] : n \in 1 .. 3}
===============================================================================
