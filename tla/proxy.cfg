SPECIFICATION FairSpec
CONSTANTS
  Host = {a, b}
  NoHost = NoHost
  Ages = {"none", "stale"}
  MaxTries = 2
  MaxForms = 2
  MaxFaults = 1
INVARIANTS
  RoutesOrdered
PROPERTIES
  ServingKept
  StaleReplaced
  ProxyHeals
CHECK_DEADLOCK FALSE
