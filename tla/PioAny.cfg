SPECIFICATION PioSpec
CONSTANTS
  Tasks = {t1}
  Steps <- MCSteps
  Actions <- MCActions
  Modes = {"reply", "go", "held"}
  MinCycles = 1
  Count = 2
  MaxTries = 2
  MaxActions = 3
  MaxCancels = 2
  May = {}
INVARIANT LinesFall
INVARIANT FinishedIsTrue
PROPERTY ReleasedOrTold
CHECK_DEADLOCK FALSE
