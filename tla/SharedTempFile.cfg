SPECIFICATION Spec
CONSTANTS
  p1 = p1
  p2 = p2
  None = None
  Saver = {p1, p2}
  Loader = {"reader"}
  Inode = {1, 2, 3, 4, 5}
  Checkpoints <- MCCheckpoints
  max_devices = 2
  max_links = 2
  kMaxString = 1
  max_persisted_state_bytes = 6
  Resave = FALSE
INVARIANTS
  FileWrittenAtomically
SYMMETRY SaverSymmetry
