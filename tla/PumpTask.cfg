SPECIFICATION TaskSpec
CONSTANTS
  FaultCodes = {"SENSOR", "CRITICAL_LOW"}
  Commands = {"on", "off", "auto", "manual", "restart"}
INVARIANTS
  OutputFollowsDecision
  FaultIsAlerted
PROPERTY FaultStopsOutput
