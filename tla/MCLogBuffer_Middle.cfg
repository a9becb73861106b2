CONSTANTS
  TOTAL_SIZE = 16
  SIZEOF_MATE = 1
  SIZEOF_LOG = 2
  QUEUE_SIZE = 4
  READ_LIMIT = 8
  Classes = {"NORMAL"}
  Inputs <- Harmless
SPECIFICATION Spec
INVARIANT ForwardsValues
CHECK_DEADLOCK FALSE
