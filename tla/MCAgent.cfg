SPECIFICATION Spec
CONSTANTS
  Parts = {"audit", "tools"}
  Events = {e1, e2, e3, e4}
  Bad = Bad
  MaxLines = 2
  BatchSize = 1
  Apart = TRUE
  MaxFaults = 2
  Words <- MCWords
  Order <- MCOrder
  AliasOf <- MCAlias
  Offers <- MCOffers
  Hidden <- MCHidden
  Reqs = {r1}
  MaxMoves = 2
INVARIANT CallsRouted
PROPERTIES ImplementsLog 
CHECK_DEADLOCK FALSE
