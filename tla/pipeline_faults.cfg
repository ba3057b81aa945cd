SPECIFICATION Spec
CONSTANTS
  Image = {a}
  NoImage = NoImage
  Ports = {TRUE, FALSE}
  MaxDeploys = 3
  MaxAsked = 2
  MaxChores = 1
  MaxCrashes = 1
  MaxFailures = 1
  MaxProxyErrors = 1
  MaxDockerErrors = 0
  MaxDbErrors = 0
  MaxHours = 1
  MaxByHand = 1
INVARIANTS
  RouteGated
  RouteIsWanted
  AtMostTwo
  RemovedMeansGone
PROPERTIES
  HealIsNeeded
CHECK_DEADLOCK FALSE
