SPECIFICATION FairSpec
CONSTANTS
  Steps = 2
  Cleanups = 2
  Retries <- MCRetries
  Uncancellable <- MCUncancellable
  MaxCancels = 2
INVARIANT CleanupRunsInFull
INVARIANT FinishedIsEarned
PROPERTY OneChildDrives
PROPERTY RecipeEnds
PROPERTY KeepsPromise
CHECK_DEADLOCK FALSE
