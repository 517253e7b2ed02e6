SPECIFICATION FairSpec
CONSTANTS
  Routes <- MCRoutes
  DockBudget = 2
  BrakeBudget = 2
  MaxMessages = 4
  MaxInstants = 4
  May = {}
INVARIANT HoldHasOwner
INVARIANT PromisedIsCharged
PROPERTY DockEnds
CHECK_DEADLOCK FALSE
