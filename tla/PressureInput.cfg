SPECIFICATION Spec
CONSTANTS
  MaxBar = 12
  MaxJump = 5
  Consist = 1
  ResyncN = 5
  FailLimit = 3
  FailCap = 6
  Drift = 1
  SimValues = {0, 4, 10}
INVARIANTS
  GlitchesTolerated
  LevelAdopted
