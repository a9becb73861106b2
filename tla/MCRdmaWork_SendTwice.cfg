CONSTANTS
  Program <- SendTwice
  MayFail = FALSE
  MayBreak = FALSE
SPECIFICATION Spec
INVARIANT WorksAlive
CHECK_DEADLOCK FALSE
