SPECIFICATION Spec
CONSTANTS
  Nodes = {n1, n2}
  Nowhere = none
  Others = FALSE
  MaxCalls = 1
  MaxFaults = 1
PROPERTIES GoneIsNoticed
CHECK_DEADLOCK FALSE
