SPECIFICATION RouteSpec
CONSTANTS
  a = a
  b = b
  c = c
  w = w
  None = None
  DeviceId = {a, b, c}
  LinkId = {1, 2}
  WorkerId = {w}
  Client = {1}
  max_devices = 3
  max_links = 3
  max_parallel_links_per_pair = 2
  max_measurement_history = 1
  max_observations = 1
  max_path_depth = 2
  max_candidate_paths = 4
  DeviceReports = {}
  LinkReports <- MCLinkReports
  LinkStateReports <- MCLinkStateReports
  HealthReports = {}
  MeasurementReports <- MCMeasurementReports
  ObservationReports = {}
  ForeignStates <- MCForeignStates
  Policies <- MCPolicies
  Requests <- MCRequests
  MaxGeneration = 3
  MaxTopologyGeneration = 5
  MaxObservationId = 5
INVARIANTS
  RouteTypeOK
  ExecutableLinksUsable
  ExecutableRouteConnects
  ExecutableCitesItsView
  ExecutableMeetsPolicy
PROPERTIES
  StaleDecisionStaysStale
  ImplementsRouteLease
CHECK_DEADLOCK FALSE
