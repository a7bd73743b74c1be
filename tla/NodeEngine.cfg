SPECIFICATION EngineSpec
CONSTANTS
  g = g
  a1 = a1
  a2 = a2
  b1 = b1
  b2 = b2
  NoRoot = NoRoot
  Genesis <- g
  HashOrder <- MCHashOrder
  Blocks <- Raced
  Header <- RacedHeader
  OperatorReanchor = TRUE
  Workers <- InsertOnly
  OwnBlocks = {a1}
  Quorums <- None
  SealableBlocks = {b1}
  ForkPoints = {1}
  RollbackHeights <- None
  DiskOutcomes = {TRUE, FALSE}
  MaxRestarts = 1
  SlotsPerEpoch = 2
  MaxEpoch = 2
  MaxEpochRoots = 10
INVARIANTS
  DurableRecordRestorable
PROPERTIES
  DrivesEngine
CHECK_DEADLOCK FALSE
