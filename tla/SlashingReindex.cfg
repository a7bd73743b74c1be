SPECIFICATION Spec
CONSTANTS
  v1 = v1
  v2 = v2
  Validators = {v1, v2}
  AddressOrder <- TwoInOrder
  Offenses <- OneVote
  Stakers = {v1, v2}
  None = None
  FullStake = 2
  MinStakeAmount = 1
  JailDuration = 1
  MaxEvidenceQueue = 2
  MaxEvidencePerValidator = 2
  MaxTime = 0
  MaxCalls = 1
  MaxRestarts = 0
INVARIANT OnlyOffendersBarred
CHECK_DEADLOCK FALSE
