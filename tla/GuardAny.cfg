SPECIFICATION Spec
CONSTANTS
  Coroutines = {c1, c2, c3}
  Seer = TRUE
  MaxChanges = 4
  MaxOperator = 2
  May = {"operator", "failures", "dispatchDuringPause"}
SYMMETRY MCSymmetry
INVARIANT RecoveredIsResumed
CHECK_DEADLOCK FALSE
