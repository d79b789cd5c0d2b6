SPECIFICATION FairElection
CONSTANTS
  AllDevices = {1, 2, 3}
  Rank <- ById
  NoDevice = NoDevice
  Silent = Silent
  Setups <- MCSetups
PROPERTIES Agreement RoleIsKept
CHECK_DEADLOCK FALSE
