SPECIFICATION FairSpec
CONSTANTS
  Image = {a}
  NoImage = NoImage
  Ports = {TRUE}
  MaxDeploys = 5
  MaxAsked = 1
  MaxChores = 1
  MaxCrashes = 1
  MaxFailures = 1
  MaxProxyErrors = 0
  MaxDockerErrors = 1
  MaxDbErrors = 1
  MaxHours = 0
  MaxByHand = 1
PROPERTIES
  SelfHeals
  OrphansSwept
CHECK_DEADLOCK FALSE
