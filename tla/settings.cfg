SPECIFICATION Spec
CONSTANTS
  a = a
  b = b
  c1 = c1
  c2 = c2
  w1 = w1
  w2 = w2
  AllClients = {c1, c2}
  AllWorkspaces = {w1, w2}
  Vals = {a, b}
  Refused <- RefusedPairs
  Unset = Unset
  Bad = Bad
  Nobody = Nobody
  Setups <- MCSetups
INVARIANTS BatchesAreWhole AnswersAreTrue ProviderFollows
PROPERTIES PendingIsTold
CHECK_DEADLOCK FALSE
