SPECIFICATION FairSpec
CONSTANTS
  N = 3
  MaxActions = 2
  Lists <- MCLists
  May = {}
INVARIANT ExclusiveInTurn
INVARIANT StandsStill
INVARIANT CancelReachesAll
INVARIANT CancelStaysInOrder
PROPERTY ActionsEnd
CHECK_DEADLOCK FALSE
