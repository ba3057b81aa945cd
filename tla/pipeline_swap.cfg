SPECIFICATION Spec
CONSTANTS
  Image = {a, b}
  NoImage = NoImage
  Ports = {TRUE, FALSE}
  MaxDeploys = 4
  MaxAsked = 4
  MaxChores = 1
  MaxCrashes = 0
  MaxFailures = 1
  MaxProxyErrors = 0
  MaxDockerErrors = 0
  MaxDbErrors = 0
  MaxHours = 0
  MaxByHand = 0
SYMMETRY Symmetry
PROPERTIES
  ServingKept
CHECK_DEADLOCK FALSE
