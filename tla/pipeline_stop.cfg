SPECIFICATION Spec
CONSTANTS
  Image = {a}
  NoImage = NoImage
  Ports = {TRUE, FALSE}
  MaxDeploys = 2
  MaxAsked = 1
  MaxChores = 1
  MaxCrashes = 0
  MaxFailures = 0
  MaxProxyErrors = 0
  MaxDockerErrors = 0
  MaxDbErrors = 0
  MaxHours = 0
  MaxByHand = 0
INVARIANTS
  StopIsFinal
CHECK_DEADLOCK FALSE
