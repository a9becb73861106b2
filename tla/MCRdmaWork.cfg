CONSTANTS
  Program <- Mixed
  MayFail = TRUE
  MayBreak = TRUE
SPECIFICATION FairSpec
INVARIANTS TypeOK WorksAlive WriteFlagGuards
PROPERTIES ImplementsMemory CallsReturn
CHECK_DEADLOCK FALSE
