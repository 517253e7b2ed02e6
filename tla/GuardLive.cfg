SPECIFICATION FairSpec
CONSTANTS
  Coroutines = {c1, c2, c3, c4}
  Seer = FALSE
  MaxChanges = 5
  MaxOperator = 0
  May = {}
INVARIANT LostLinkIsWatched
PROPERTY PauseEndsWithLoss
PROPERTY LossEndsInPause
CHECK_DEADLOCK FALSE
