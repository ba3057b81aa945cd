SPECIFICATION Spec
CONSTANTS
  Service = {web, api, job}
  NoService = NoService
  Host = {a}
  NoHost = NoHost
  Port = {80}
  OneShots = {job}
  Routed = {web}
  Files = {{web, api, job}, {web, job}}
  MaxEdits = 2
  MaxFaults = 3
INVARIANTS
  NothingLeft
PROPERTIES
  VolumesLostByChoice
  HealsOnlyWhatRan
  CrashNeverPasses
CHECK_DEADLOCK FALSE
