SPECIFICATION FairSpec
CONSTANTS
  Gone = Gone
  Instances = {i1, i2}
  MaxLen = 2
  MaxMoved = 2
  NumberPayload = TRUE
CHECK_DEADLOCK FALSE
INVARIANTS NothingMissed
PROPERTIES NoHangOnDeadPeer KeepsContract
