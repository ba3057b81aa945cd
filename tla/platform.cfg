SPECIFICATION Spec
CONSTANTS
  Repos = {"r1", "r2"}
  RetainedBuilds = 1
  MaxRows = 3
  MaxMoves = 1
  MaxUpsets = 2
  Pieces = 2
  Cap = 5
  Stall = 2
  Grace = 1
  ApiWait = 1
  MaxCrashes = 1
  Keep = 2
  LineCap = 2
  MaxDeployments = 3
  MaxLines = 3
  MaxDrops = 1
  MaxDeploys = 2
  MaxStreams = 4
  MaxBreaks = 1
  HeaderLen = 2
  Capacity = 2
  FileLines = 1
  KeepFiles = 1
  MaxFrames = 4
  Requests = {q1, q2, q3}
  MaxWaiting = 1
  MaxAnswers = 3
  Keys = {k1, k2, k3}
  Sizes = {2, 9, 12}
  MaxBuilds = 3
  MaxFaults = 1
  Hosts = {h1, h2}
  HealthTime = 2
  AnswerTime = 1
  Uptime = 2
  Baselines = {0, 1}
  CertTime = 4
  AttemptTime = 1
  RetryTime = 2
  Pages = {p1, p2}
  Owners = {1, 2}
  Totals = {0, 1, 2}
  MaxResources = 1
  Ttl = 3
  FailureTtl = 1
  DfTime = 2
  Names = {"PATH", "SERVICE_PASSWORD"}
  Generated = {"SERVICE_PASSWORD"}
  Reserved = {"PATH"}
  MaxSaves = 3
INVARIANTS
  RowsTellTheTruth
  WholeTree
  PageFollows
  StreamTracked
  GateIsHeld
  WaitsAreBounded
  VariablesLast
PROPERTIES
  PrunesSpare
CHECK_DEADLOCK FALSE
