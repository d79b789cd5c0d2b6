SPECIFICATION FairSpec
CONSTANTS
  a = a
  b = b
  small = small
  big = big
  other = other
  new = new
  Sides = {a, b}
  Hashes = {small, big, other, new}
  NoHash = NoHash
  Small = {small}
  Delta <- MCDelta
  Holds <- MCHolds
  Owed <- MCOwed
  Batches <- MCBatches
  WireSize = 2
  MaxEdits = 1
  MaxFailures = 1
INVARIANTS PeersComply CommitsWhatItHas NobodyStranded AnnouncedIsServed
PROPERTIES BothCatchUp
CHECK_DEADLOCK FALSE
