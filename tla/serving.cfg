SPECIFICATION FairSpec
CONSTANTS
  a = a
  b = b
  c = c
  NoRoot = NoRoot
  Folders = {a, b, c}
  Setups <- MCSetups
INVARIANTS OnlyTheCurrentSyncs SyncedOrWaiting
PROPERTIES MovedStoreIsClosed MoveKeepsSync RoutesFollow
CHECK_DEADLOCK FALSE
