SPECIFICATION Spec
CONSTANTS
  Service = {web, api}
  NoService = NoService
  Host = {a, b}
  NoHost = NoHost
  Port = {80, 90}
  AutoHost = b
  Dashboards = {b}
  MaxRows = 2
  MaxEdits = 4
  MaxFaults = 1
SYMMETRY Symmetry
INVARIANTS
  RoutesSettle
  DomainsReachable
PROPERTIES
  HostNeverDropped
  NewRouteReachable
CHECK_DEADLOCK FALSE
