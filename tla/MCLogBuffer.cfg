CONSTANTS
  TOTAL_SIZE = 16
  SIZEOF_MATE = 1
  SIZEOF_LOG = 2
  QUEUE_SIZE = 4
  READ_LIMIT = 8
  Classes = {"TAIL", "NORMAL"}
  Inputs <- Harmless
SPECIFICATION FairSpec
INVARIANTS TypeOK ValuesDelivered KeysIntact DirtyMapExact NoAbort SendingNeverFull
PROPERTIES ImplementsRing AllExecuted AllForwarded
CHECK_DEADLOCK FALSE
