SPECIFICATION MCFairSpec
CONSTANTS
  A = A
  B = B
  P0 = P0
  P1 = P1
  P2 = P2
  P3 = P3
  NoPlace = NoPlace
  NoOrder = NoOrder
  Orders = {A, B}
  Places = {P0, P1, P2, P3}
  Tasks = {t1, t2}
  MaxSeq = 4
  Route <- MCRoute
  Blocking <- MCEdgeBlocking
  Continuous = TRUE
  Capture = "settled"
  Seeding = TRUE
  MaxUpdateId = 1
  MaxMessages = 3
  MaxCancels = 1
  May = {}
INVARIANT NoReturn
INVARIANT NothingSkipped
INVARIANT QueueHasWorker
INVARIANT NoOrderNoMotion
CHECK_DEADLOCK FALSE
PROPERTY OrderSettles
PROPERTY EdgeHeldUntilPassed
