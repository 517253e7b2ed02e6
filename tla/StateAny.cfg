SPECIFICATION StateFairSpec
CONSTANTS
  States = {"DRIVING", "ACTING", "IDLE"}
  Started = {"DRIVING", "ACTING"}
  Ended = {"DRIVING", "IDLE"}
  MaxChanges = 5
  StateMay = {}
 
INVARIANT LeftOnce
PROPERTY LastStateEntered
CHECK_DEADLOCK FALSE
