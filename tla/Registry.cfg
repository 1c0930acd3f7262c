SPECIFICATION Spec
CONSTANTS
  a = a
  b = b
  c = c
  l1 = l1
  l2 = l2
  l3 = l3
  w = w
  None = None
  DeviceId = {a, b, c}
  LinkId = {l1, l2, l3}
  WorkerId = {w}
  max_devices = 2
  max_links = 3
  max_parallel_links_per_pair = 2
  max_measurement_history = 1
  max_observations = 1
  DeviceReports <- MCDeviceReports
  LinkReports <- MCLinkReports
  LinkStateReports <- MCLinkStateReports
  HealthReports = {"DEGRADED"}
  MeasurementReports <- MCMeasurementReports
  ObservationReports <- MCObservationReports
  ForeignStates <- MCForeignStates
  MaxGeneration = 2
  MaxTopologyGeneration = 6
  MaxObservationId = 7
INVARIANTS
  TypeOK
  NoDanglingLinks
  
  
  LinksStamped
  CapturedStateRestorable
PROPERTIES
  ChangeAdvancesGeneration
  RevalidationNeedsNewerReport
SYMMETRY LinkSymmetry
CHECK_DEADLOCK FALSE
