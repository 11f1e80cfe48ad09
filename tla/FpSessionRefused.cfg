SPECIFICATION SessionSpec
CONSTANTS
  Depth = 1
  EventDepth = 1
  Sends = {"HELLO_ACK", "OTA_AVAILABLE"}
  Refuses = TRUE
  MaxJobs = 1
  MaxWedges = 0
PROPERTIES
  RefusedOfferContinues
CHECK_DEADLOCK FALSE
