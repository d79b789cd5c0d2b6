SPECIFICATION Spec
CONSTANTS
  Replicas = {1, 2, 3}
  MaxLogical = 5
  MaxWall = 10
  MaxDrift = 10
  c1 = c1
  c2 = c2
  Contents = {c1, c2}
  Types <- MCConflict
  Deleters = {1}
  Starts <- MCStarts
  Clocks = {0}
  Strays = {}
  Files = {1}
  CopiesFirst = TRUE
  MaxPending = 2
  PageSize = 1
  MaxCalls = 1
  MaxSessions = 1
  NamedPaths <- MCNamed
  VanishAnytime = FALSE
  BackAnytime = FALSE
  None = None
INVARIANTS TypeOK NoDotEscapes VectorIsHonest WritesAreUsers SameSeenSameVersions
PROPERTIES LocalWriteSpares OverwriteSpares
CHECK_DEADLOCK FALSE
