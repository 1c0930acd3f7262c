SPECIFICATION WireSpec
CONSTANTS
  max_bytes = 12
  max_string = 2
  Lengths = {0, 1, 3}
  Devices <- MCDevices
  MaxSent = 2
  MaxCorruptions = 1
  Damage = {0, 1, 4, 7, 8}
INVARIANTS
  DeliveredIsPrefixOfSent
  NoGoodFrameRefused
PROPERTIES
  SentFramesArrive
CHECK_DEADLOCK FALSE
