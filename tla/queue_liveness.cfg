SPECIFICATION FairSpec
CONSTANTS
  Resource = {r1}
  MaxJobs = 3
  MaxPushes = 1
  MaxCrashes = 1
  MaxDbErrors = 0
  StopAttempts = 2
  Backoff <- BackoffTicks
  StopCanThrow = TRUE
  SharedStamps = FALSE
PROPERTIES
  JobsEnd
CHECK_DEADLOCK FALSE
