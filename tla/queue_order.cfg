SPECIFICATION Spec
CONSTANTS
  Resource = {r1}
  MaxJobs = 3
  MaxPushes = 0
  MaxCrashes = 1
  MaxDbErrors = 1
  StopAttempts = 2
  Backoff <- BackoffTicks
  StopCanThrow = TRUE
  SharedStamps = TRUE
INVARIANTS
  LastAskRunsLast
CHECK_DEADLOCK FALSE
