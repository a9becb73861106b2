CONSTANTS
  Program <- MallocAndUse
  MayFail = FALSE
  MayBreak = FALSE
SPECIFICATION Spec
INVARIANT MallocComplete
CHECK_DEADLOCK FALSE
