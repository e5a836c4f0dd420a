SPECIFICATION FairSpec
CONSTANTS
  c1 = c1
  c2 = c2
  t1 = t1
  t2 = t2
  Creates = {c1, c2}
  Locals = {}
  Nodes = {n1, n2}
  Tenants = {t1, t2}
  None = None
  Local = {}
  Walled = {}
  Egress = {}
  TenantOf <- Unscoped
  Cap = 1
  Reaper = FALSE
  Prompt = FALSE
  MaxCrashes = 1
  MaxDrops = 0
INVARIANTS WaitsForSomebody 
PROPERTIES CreatesEnd
CHECK_DEADLOCK FALSE
