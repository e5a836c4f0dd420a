SPECIFICATION Spec
CONSTANTS
  Parts = {"processes", "sessions", "files"}
  Doors = {"execute", "stream", "proc", "procpty", "term"}
  Subs = {s1, s2}
  MaxOut = 2
  Kinds = {"shell", "kernel"}
  Clients = {c1, c2}
  MaxGens = 2
  Inside = {a, b}
  Outside = o
  MayWrite = {a, o}
  MaxFaults = 1
  MaxCommands = 2
  MaxCalls = 3
INVARIANTS   FilesWhole
 
CHECK_DEADLOCK FALSE
