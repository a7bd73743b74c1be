-------------------------- MODULE MCNodeForks_proof --------------------------
(***************************************************************************)
(* What is proved of one node holds of the producing node of the two that  *)
(* MCNodeForks puts side by side: it never changes sides, and its steps    *)
(* are those of NodeSpec.                                                  *)
(***************************************************************************)
EXTENDS MCNodeForks, NodeChain_proof

Producing == scenario = "produce"

\* A node that produces goes on producing, and nobody starts to.
LEMMA SidesKept ==
  [ForksNext]_<<vars, scenario>> => (Producing <=> Producing') /\ (Producing => [NodeNext]_vars)
BY DEF ForksNext, Producing

\* The producing node of the two behaves as NodeSpec says.
LEMMA ProducerIsNode == ForksSpec /\ Producing => NodeSpec /\ []Producing
<1>1. ForksInit => NodeInit
  BY DEF ForksInit
<1> QED
  BY <1>1, SidesKept, PTL DEF ForksSpec, NodeSpec

\* The other one never produces.
LEMMA OtherNeverProduces == ForksSpec /\ ~Producing => []~Producing
BY SidesKept, PTL DEF ForksSpec

(***************************************************************************)
(* The head of a producing node is stored whenever nothing is under way,   *)
(* for any blocks and importers and across crashes (ProduceBlock's commit  *)
(* before its store, the conflict reload, LoadBlockchain at start-up).     *)
(***************************************************************************)
THEOREM ProducerHeadStored ==
  ASSUME Undisturbed PROVE ForksSpec => []ProducerHeadBacked
<1>1. HeadBacked => ProducerHeadBacked
  BY DEF ProducerHeadBacked
<1>2. ~Producing => ProducerHeadBacked
  BY DEF ProducerHeadBacked, Producing
<1> QED
  BY <1>1, <1>2, ProducerIsNode, OtherNeverProduces, HeadStored, PTL

(***************************************************************************)
(* No slot root of a producing node names a block that lost its height,    *)
(* while the chain is shorter than MaxReorgDepth: the conflict reload and  *)
(* the reorganisation's clean-up take the root along.                      *)
(***************************************************************************)
THEOREM ProducerLeavesNoGhosts ==
  ASSUME Undisturbed, \A b \in Blocks : HeightOf(b) < MaxReorgDepth
  PROVE  ForksSpec => []ProducerNoGhostSlotRoots
<1>1. NoGhostSlotRoots => ProducerNoGhostSlotRoots
  BY DEF ProducerNoGhostSlotRoots
<1>2. ~Producing => ProducerNoGhostSlotRoots
  BY DEF ProducerNoGhostSlotRoots, Producing
<1> QED
  BY <1>1, <1>2, ProducerIsNode, OtherNeverProduces, NoGhostsInReach, PTL
==============================================================================
