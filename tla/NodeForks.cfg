SPECIFICATION ForksSpec
CONSTANTS
  g = g
  a1 = a1
  a2 = a2
  b1 = b1
  b2 = b2
  NoRoot = NoRoot
  Genesis <- g
  HashOrder <- MCHashOrder
  Blocks <- Forked
  Header <- ForkedHeader
  OperatorReanchor = FALSE
  Workers <- InsertAndPending
  OwnBlocks = {b1, b2}
  Quorums <- None
  SealableBlocks = {a1, b1}
  ForkPoints <- None
  RollbackHeights <- None
  DiskOutcomes = {TRUE}
  MaxRestarts = 1
  SlotsPerEpoch = 2
  MaxEpoch = 2
  MaxEpochRoots = 10
INVARIANTS
  NodeTypeOK
  HeadCompatibleWithFinalized
  ProducerHeadBacked
  ProducerNoGhostSlotRoots
PROPERTIES
  FinalizedBlockKept
CHECK_DEADLOCK FALSE
