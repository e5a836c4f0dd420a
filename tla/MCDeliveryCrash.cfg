SPECIFICATION FairSpec
CONSTANTS
  Jobs = {j1}
  Names = {s1}
  Nodes = {n1,n2}
  Poders = {p1}
  Calls = {c1}
  None = None
  Prompt = FALSE
  MaxFaults = 1
  MaxDeletes = 0
  MaxBeats = 0
  MaxContainers = 2
INVARIANTS DeliveredBeforeDone IntentBeforeDelivery
PROPERTIES ClaimsOnlyStalePending JobsSettle
