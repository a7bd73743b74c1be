----------------------------- MODULE MCSlashing -----------------------------
(* Instances of Slashing for TLC. *)
EXTENDS Slashing

CONSTANTS v1, v2

TwoInOrder == <<v1, v2>>

DoubleVote(v, h) == [addr |-> v, reason |-> "DoubleVote", height |-> h]
Downtime(v, h)   == [addr |-> v, reason |-> "Downtime", height |-> h]

OneVote      == {DoubleVote(v1, 1)}
ThreeVotes   == {DoubleVote(v1, 1), DoubleVote(v1, 2), DoubleVote(v2, 1)}
VoteAndIdle  == {DoubleVote(v1, 1), Downtime(v1, 1)}
=============================================================================
