SPECIFICATION SealingSpec
CONSTANTS
  Values = {1, 2}
  None = None
  Threshold = 3
  Local = {1, 2}
  Builds <- TwoForOne
  RemoteSays <- ThirdSigner
  MaxCrashes = 1
  MaxFaults = 1
  Size = 4
  Slots = {1}
  Nodes <- Committee
  Proposer = 0
  MaxAttempts = 4
  Schedules <- SlotSchedules
  Late = {3}
  MaxOffline = 1
  MaxMishaps = 1
INVARIANTS TypeOK RejectedSlotOpensNothing SlotConsumed SealTypeOK OneAttemptLive
PROPERTIES SingleUseSpec AttemptsOneByOne LatchResolves CommitteeSeals
CHECK_DEADLOCK FALSE
