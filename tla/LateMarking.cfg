SPECIFICATION FleetSpec
CONSTANTS
  w = w
  None = None
  gpu0 = 100
  gpu1 = 101
  DeviceId = {100, 101}
  LinkId <- MCLinkId
  WorkerId = {w}
  Conn = {1, 2}
  Hellos <- MCHellos
  descriptor <- MCDescriptor
  socket_buffer = 2
  max_devices = 2
  max_links = 3
  max_parallel_links_per_pair = 2
  max_measurement_history = 1
  max_observations = 1
  DeviceReports = {}
  LinkReports = {}
  LinkStateReports = {}
  HealthReports = {}
  MeasurementReports = {}
  ObservationReports = {}
  ForeignStates = {}
  MaxGeneration = 0
  MaxEpoch = 1
  MaxPublished = 99
  MaxTopologyGeneration = 99
  MaxObservationId = 99
INVARIANT FreshBootRestoresEligibility
CHECK_DEADLOCK FALSE
