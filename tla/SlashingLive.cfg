SPECIFICATION FairSpec
CONSTANTS
  v1 = v1
  v2 = v2
  Validators = {v1, v2}
  AddressOrder <- TwoInOrder
  Offenses <- ThreeVotes
  Stakers = {}
  None = None
  FullStake = 2
  MinStakeAmount = 1
  JailDuration = 1
  MaxEvidenceQueue = 1
  MaxEvidencePerValidator = 2
  MaxTime = 0
  MaxCalls = 1
  MaxRestarts = 0
 
PROPERTY QueuedOffenderBanned
CHECK_DEADLOCK FALSE
