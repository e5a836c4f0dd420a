SPECIFICATION Spec
CONSTANTS
  Configs = {a, o, x}
  OffConfigs = {x}
  AuthConfigs = {o}
  NeverConfigs = {}
  Absent = Absent
  Broken = Broken
  None = None
  Limit = 1
  Slots = {1, 2, 3}
  Attempts = {1, 2}
  MaxActs = 2
INVARIANTS NoStrayProcess RestartBudget AuthorizationReachable
 
CHECK_DEADLOCK FALSE
