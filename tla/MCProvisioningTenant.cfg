SPECIFICATION Spec
CONSTANTS
  c1 = c1
  c2 = c2
  t1 = t1
  t2 = t2
  Creates = {c1, c2, c3}
  Locals = {l1}
  Nodes = {n1}
  Tenants = {t1, t2}
  None = None
  Local = {c3}
  Walled = {c3}
  Egress = {}
  TenantOf <- Apart
  Cap = 1
  Reaper = TRUE
  Prompt = TRUE
  MaxCrashes = 0
  MaxDrops = 1
INVARIANTS TypeOK OneAttempt TenantsApart
CHECK_DEADLOCK FALSE
