SPECIFICATION FairSpec
CONSTANTS
  Hosts = {512, 2048}
  Unset = 0
  Overrides = {0, 768}
  Enough = 128
  MaxBuilds = 2
  MaxMishaps = 1
  Ids = {i1}
  MaxApps = 2
  MaxGrants = 2
  MaxFetches = 2
INVARIANTS
  BuildsAreSound
  ListsUnderTheGrant
PROPERTIES
  ServicesRecover
CHECK_DEADLOCK FALSE
