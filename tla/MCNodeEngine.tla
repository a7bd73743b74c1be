----------------------------- MODULE MCNodeEngine -----------------------------
(***************************************************************************)
(* Two nodes side by side, one per behaviour: one that crashes, restarts,  *)
(* accepts forks and sees its writes fail (the constants of the            *)
(* configuration), and one whose operator rolls back while it imports and  *)
(* produces.                                                               *)
(***************************************************************************)
EXTENDS MCNodeChain

VARIABLE scenario

RolledBack ==
  INSTANCE NodeChain WITH OwnBlocks <- {b1}, SealableBlocks <- {}, ForkPoints <- {},
                          RollbackHeights <- {1}, DiskOutcomes <- {TRUE}, MaxRestarts <- 0,
                          OperatorReanchor <- FALSE

EngineInit == NodeInit /\ scenario \in {"crash", "rollback"}

EngineNext ==
  /\ \/ scenario = "crash" /\ NodeNext
     \/ scenario = "rollback" /\ RolledBack!NodeNext
  /\ UNCHANGED scenario

EngineSpec == EngineInit /\ [][EngineNext]_<<vars, scenario>>
=============================================================================
