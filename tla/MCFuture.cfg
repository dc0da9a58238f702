SPECIFICATION FairSpec
CONSTANTS
  Gone = Gone
  Instances = {i1, i2}
  MaxOps = 2
  NumberPayload = TRUE
CHECK_DEADLOCK FALSE
PROPERTIES KeepsContract
