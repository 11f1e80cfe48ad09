SPECIFICATION SessionSpec
CONSTANTS
  Depth = 1
  EventDepth = 1
  Sends = {"HELLO_ACK", "HELLO_REJECT", "OTA_NONE", "OTA_AVAILABLE",
           "DP_READ", "COMMAND", "LOG_READ",
           "STALE_COMMAND", "STALE_LOG_READ", "STALE_OTA"}
  Refuses = TRUE
  MaxJobs = 1
  MaxWedges = 1
INVARIANTS
  RunsOnlyNegotiated
PROPERTIES
  WedgeHeals
  SessionRestored
CHECK_DEADLOCK FALSE
