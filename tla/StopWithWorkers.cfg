SPECIFICATION FairSpec
CONSTANTS
  a = a
  b = b
  w1 = w1
  w2 = w2
  None = None
  DeviceId = {a}
  LinkId = {}
  WorkerId = {w1, w2}
  Conn = {c1, c2}
  Hellos <- MCHellos
  MaxEpoch = 2
  max_devices = 2
  max_links = 2
  max_parallel_links_per_pair = 2
  max_measurement_history = 1
  max_observations = 1
  DeviceReports <- MCDeviceReports
  LinkReports = {}
  LinkStateReports = {}
  HealthReports = {}
  MeasurementReports = {}
  ObservationReports = {}
  ForeignStates = {}
  MaxGeneration = 2
  MaxPublished = 2
  MaxTopologyGeneration = 9
  MaxObservationId = 9
PROPERTY StopReturns
CHECK_DEADLOCK FALSE
