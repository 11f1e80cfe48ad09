SPECIFICATION Spec
CONSTANTS
  AbsentBusOffs = 2
  Types = {0, 2, 255}
  CountMod = 4
  TxDepth = 1
  RxMax = 2
  Focuses = {{"nmt", "fault"}, {"fault", "bus", "config"}, {"nmt", "rpdo", "sync"},
             {"nmt", "tpdo", "sync", "setup"}, {"nmt", "tpdo", "setup", "bus"}}
INVARIANTS RegisterFollowsFault HeldFrameKeepsTarget
PROPERTIES MasterSeesLatest BusComesBack
CHECK_DEADLOCK FALSE
