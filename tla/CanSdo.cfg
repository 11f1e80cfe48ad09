SPECIFICATION SdoSpec
CONSTANTS
  ExpBytes = 1
  SegBytes = 2
  BufBytes = 6
  StrMax = 6
  MaxQueue = 2
  Plans <- MCPlans
INVARIANTS WritesAreWhole UploadIsSnapshot ConfirmedIsStored SecretIsNeverSent
CHECK_DEADLOCK FALSE
