SPECIFICATION FairSpec
CONSTANTS
  p1 = p1
  p2 = p2
  Peers = {p1, p2}
  MaxConns = 3
  MaxStops = 2
  Registered = TRUE
  Wakes = TRUE
  Instances <- MCInstances
INVARIANT EndedOwnerLeaves
PROPERTY Served
CHECK_DEADLOCK FALSE
