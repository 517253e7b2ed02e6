SPECIFICATION FairSpec
CONSTANTS
  RetryLimit = 1
  MaxManual = 2
  MaxTrouble = 2
  May = {"driveFails"}
INVARIANT FlagIsWatched
PROPERTY JogStops
PROPERTY NodeWaitSettles
CHECK_DEADLOCK FALSE
