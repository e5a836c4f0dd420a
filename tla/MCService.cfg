SPECIFICATION Spec
CONSTANTS
  Parts = {"egress", "sidecar", "keys", "file", "idle", "cloud", "direct"}
  Nodes = {n1, n2}
  Nowhere = nowhere
  Conns = {c1}
  Policies <- MCPolicies
  Pods = {p1, p2}
  MaxErrors = 2
  Keys = {k1}
  NoKeys = none
  MaxEdits = 2
  MaxLookups = 2
  Every = 2
  Default = 4
  Own = {0, 3}
  MaxTime = 7
  Providers = {"aws", "azure", "gcp", "hetzner", "digitalocean", "oracle", "tencent", "aliyun"}
  KeyDir = TRUE
  MaxCalls = 4
  MaxFaults = 2
  Window = 3
  Retry = 1
  Stubborn = TRUE
  Links = {1, 2}
  MaxMess = 2
INVARIANTS    ReapedWhenIdle
           NoFalseSuccess MachinesAccounted NotLetBackIn
 
CHECK_DEADLOCK FALSE
