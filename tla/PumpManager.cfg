SPECIFICATION Spec
CONSTANTS
  Levels <- MCLevels
  Configs <- TwoConfigs
  Durations = {0, 2}
  History = 2
  Hour = 3
  ManualMaxOn = 3
  MaxGap = 1
  MaxTime = 7
INVARIANTS
  RunTimeBounded
  WaitsBounded
PROPERTIES
  MinOffRespected
  MinOnRespected
  StartRateBounded
  ContractHonoured
CHECK_DEADLOCK FALSE
