SPECIFICATION FairSpec
CONSTANTS
  AllHosts = {1, 2, 3}
  AllWorkgroups = {1, 2}
  AllIds = {1, 2, 3, 4}
  AllNames = {1, 2}
  FounderName = 0
  Nobody = Nobody
  Setups <- MCSetups
INVARIANT LedgerReadable
PROPERTIES RetiredForGood EveryoneLearns EveryHostJoins
CHECK_DEADLOCK FALSE
