SPECIFICATION MCSpec
CONSTANTS
  A = A
  B = B
  P0 = P0
  P1 = P1
  P2 = P2
  P3 = P3
  NoPlace = NoPlace
  NoOrder = NoOrder
  Orders = {A, B}
  Places = {P0, P1}
  Tasks = {t1, t2}
  MaxSeq = 2
  Route <- MCShuttle
  Blocking <- MCBlocking
  Continuous = FALSE
  Capture = "proximity"
  Seeding = TRUE
  MaxUpdateId = 1
  MaxMessages = 2
  MaxCancels = 1
  May = {"startAnywhere", "irregularUpdate", "blindSend", "orderDuringCancel", "orderDuringCrash",
         "moveByHand", "slowCleanup"}
INVARIANT SingleWorker
INVARIANT ActionAtMostOnce
CHECK_DEADLOCK FALSE
