SPECIFICATION Spec
CONSTANTS
  Jobs = {j1}
  Names = {s1}
  Nodes = {n1}
  Poders = {p1}
  Calls = {c1,c2}
  None = None
  Prompt = FALSE
  MaxFaults = 1
  MaxDeletes = 1
  MaxBeats = 1
  MaxContainers = 2
INVARIANTS  DeleteSticks
SYMMETRY Symmetry
