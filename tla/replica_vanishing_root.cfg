SPECIFICATION Spec
CONSTANTS
  Replicas = {1, 2}
  MaxLogical = 5
  MaxWall = 10
  MaxDrift = 10
  c1 = c1
  c2 = c2
  Contents = {c1, c2}
  Types <- MCConflict
  Deleters = {}
  Starts <- MCVanish
  Clocks = {0}
  Strays = {}
  Files = {1, 2}
  CopiesFirst = TRUE
  MaxPending = 3
  PageSize = 1
  MaxCalls = 1
  MaxSessions = 1
  NamedPaths <- MCNamed
  VanishAnytime = TRUE
  BackAnytime = FALSE
  None = None
INVARIANTS MissingRootDeletesNothing
CHECK_DEADLOCK FALSE
