SPECIFICATION Spec
CONSTANTS
  Nodes = {n1, n2}
  Nowhere = none
  Others = TRUE
  MaxCalls = 2
  MaxFaults = 1
PROPERTIES Settles Answered
CHECK_DEADLOCK FALSE
