SPECIFICATION Spec
CONSTANTS
  None = None
  DeviceId = {a, b, c, d}
  LinkId = {1, 2, 3}
  WorkerId = {}
  max_path_depth = 2
  max_candidate_paths = 2
INVARIANT EnumerationExact
CHECK_DEADLOCK FALSE
