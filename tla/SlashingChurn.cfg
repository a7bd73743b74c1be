SPECIFICATION Spec
CONSTANTS
  v1 = v1
  v2 = v2
  Validators = {v1, v2}
  AddressOrder <- TwoInOrder
  Offenses <- VoteAndIdle
  Stakers = {v1}
  None = None
  FullStake = 2
  MinStakeAmount = 1
  JailDuration = 1
  MaxEvidenceQueue = 1
  MaxEvidencePerValidator = 1
  MaxTime = 0
  MaxCalls = 2
  MaxRestarts = 1
INVARIANT OneCutPerOffense
INVARIANT SlashingTypeOK
 
CHECK_DEADLOCK FALSE
