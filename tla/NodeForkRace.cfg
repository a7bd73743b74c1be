SPECIFICATION NodeSpec
CONSTANTS
  g = g
  a1 = a1
  a2 = a2
  b1 = b1
  b2 = b2
  NoRoot = NoRoot
  Genesis <- g
  HashOrder <- MCHashOrder
  Blocks <- Forked
  Header <- ForkedHeader
  OperatorReanchor = FALSE
  Workers <- InsertOnly
  OwnBlocks <- None
  Quorums <- None
  SealableBlocks = {a1}
  ForkPoints = {1}
  RollbackHeights <- None
  DiskOutcomes = {TRUE}
  MaxRestarts = 0
  SlotsPerEpoch = 2
  MaxEpoch = 2
  MaxEpochRoots = 10
PROPERTIES
  FinalizedBlockKept
CHECK_DEADLOCK FALSE
