CONSTANTS
  TOTAL_SIZE = 16
  SIZEOF_MATE = 1
  SIZEOF_LOG = 2
  QUEUE_SIZE = 4
  READ_LIMIT = 8
  Classes = {"TAIL"}
  Inputs <- HalfRing
SPECIFICATION Spec
INVARIANT ValuesDelivered
CHECK_DEADLOCK FALSE
