SPECIFICATION Spec
CONSTANTS
  g = g
  a = a
  b = b
  NoRoot = NoRoot
  Blocks <- MCBlocks
  Genesis <- g
  Header <- MCHeader
  HashOrder <- MCHashOrder
  SlotsPerEpoch = 2
  MaxEpoch = 3
  MaxEpochRoots = 2
  OperatorReanchor = FALSE
CONSTRAINT Few
INVARIANTS
  TypeOK
  
  DurableRecordRestorable
  DurableUnlessPending
  DiskNotAhead
PROPERTIES
  
  OnlyCanonicalRootsDurable
  CheckpointRootsKept
