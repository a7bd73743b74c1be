SPECIFICATION Spec
CONSTANTS
  v1 = v1
  v2 = v2
  Validators = {v1, v2}
  AddressOrder <- TwoInOrder
  Offenses <- VoteAndIdle
  Stakers = {}
  None = None
  FullStake = 2
  MinStakeAmount = 1
  JailDuration = 1
  MaxEvidenceQueue = 2
  MaxEvidencePerValidator = 2
  MaxTime = 1
  MaxCalls = 2
  MaxRestarts = 0
INVARIANT BanNotLost
PROPERTY PermanentBanSticks
CHECK_DEADLOCK FALSE
