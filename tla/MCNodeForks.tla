------------------------------ MODULE MCNodeForks ------------------------------
(***************************************************************************)
(* Two nodes side by side, one per behaviour: one that produces blocks of  *)
(* its own while two goroutines import the peers' (the constants of the    *)
(* configuration), and one that imports with a single goroutine, collects  *)
(* votes and accepts a fork below its head.                                *)
(***************************************************************************)
EXTENDS MCNodeChain

VARIABLE scenario

Forking ==
  INSTANCE NodeChain WITH Workers <- InsertOnly, OwnBlocks <- {}, SealableBlocks <- {},
                          Quorums <- QuorumA1, ForkPoints <- {1}, MaxRestarts <- 0

ForksInit == NodeInit /\ scenario \in {"produce", "fork"}

ForksNext ==
  /\ \/ scenario = "produce" /\ NodeNext
     \/ scenario = "fork" /\ Forking!NodeNext
  /\ UNCHANGED scenario

ForksSpec == ForksInit /\ [][ForksNext]_<<vars, scenario>>

-----------------------------------------------------------------------------
(* HeadBacked for the node that accepts no fork: an accepted fork truncates  *)
(* the store and returns without storing the block, and the insert loop      *)
(* moves the head to it (ProcessBlock, blockInsertLoop).                  *)
ProducerHeadBacked == scenario = "produce" => HeadBacked

(* NoGhostSlotRoots for the same node: a produced block that loses its       *)
(* height to an import takes its slot root with it (the conflict reload).    *)
ProducerNoGhostSlotRoots == scenario = "produce" => NoGhostSlotRoots
=============================================================================
