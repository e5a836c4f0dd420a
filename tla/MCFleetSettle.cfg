SPECIFICATION FairSpec
CONSTANTS
  Conns = {t1, t2}
  Nodes = {n1, n2}
  None = None
  Idempotent = TRUE
  MaxEvents = 1
INVARIANTS VMsAccounted
PROPERTIES Settles DeadWorkersGoAway
CHECK_DEADLOCK FALSE
