SPECIFICATION Spec
CONSTANTS
  Configs = {"new", "alt", "bad"}
  Factory = "factory"
  Good = {"new", "alt"}
  Actions = {0, 1, 2, 3, 4, 5}
  Disciplined = TRUE
  MaxWrites = 3
  MaxCrashes = 2
  MaxFaults = 1
INVARIANTS
  TrialHasFallback
  RollbackIsComplete
PROPERTY TrialAlwaysEnds
CHECK_DEADLOCK FALSE
