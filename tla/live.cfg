SPECIFICATION FairSpec
CONSTANTS
  Replicas = {1, 2, 3}
  NoDevice = NoDevice
  Setups <- MCSetups
INVARIANTS PeerVVIsHonest
PROPERTIES SpreadsWrites Delivered SettlesOnOneStream
CHECK_DEADLOCK FALSE
