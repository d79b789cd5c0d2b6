SPECIFICATION AnnSpec
CONSTANTS
  Ids = {1, 2}
  Values = {v}
  NoValue = NoValue
  NotBuilt = NotBuilt
  Nothing = Nothing
  Writers = {a, b}
  Min = 1
  MaxSeq = 3
  MaxClears = 1
INVARIANT SearchesAreCurrent
CHECK_DEADLOCK FALSE
