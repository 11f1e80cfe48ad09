SPECIFICATION ServerSpec
CONSTANTS
  Shapes <- MCShapes
  Sockets = 2
  WorkMax = 2
  Strikes = 2
  EvtMax = 2
INVARIANTS QueueSuffices WorkerOwnsSlot
PROPERTIES NothingLeaks LinkBringsServices
CHECK_DEADLOCK FALSE
