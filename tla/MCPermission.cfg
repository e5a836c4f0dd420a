SPECIFICATION Spec
CONSTANTS
  Paths <- MCPaths
  Within <- MCWithin
  WorkDir = {"ssh"}
  Mandatory = {"hooks"}
  Seeds = {"ssh"}
  Pty = "pty"
  Sessions = {s1}
  Commands = {"rm", "dd"}
  Threads = {t1, t2}
  None = None
  Down = Down
  MaxChecks = 2
  MaxEvents = 1
INVARIANTS ProtectedNeverAllowed ConsentBehindAllow
PROPERTIES LocksHeldInMemory ChecksReturn
CHECK_DEADLOCK FALSE
