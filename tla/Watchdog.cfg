SPECIFICATION Spec
CONSTANTS
  Channels = 3
  Def <- AllKinds
  BrakeMax = 1
  RebootTicks = 1
  Wrap = 16
  MaxLag = 1
  MaxBoots = 2
INVARIANTS
  BrakeHolds
  DeadChannelReboots
PROPERTY DiagnosisIsTrue
