SPECIFICATION Spec
CONSTANTS
  Resource = {r1}
  MaxJobs = 2
  MaxPushes = 1
  MaxCrashes = 2
  MaxDbErrors = 2
  StopAttempts = 2
  Backoff <- BackoffTicks
  StopCanThrow = TRUE
  SharedStamps = TRUE
INVARIANTS
  TypeOK
  WorkerHoldsLease
  OutcomesAgree
  PushInHand
  RestartInterruptsNothing
  DeployRunsOncePerLife
PROPERTIES
  ContractSpec
CHECK_DEADLOCK FALSE
