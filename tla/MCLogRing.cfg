CONSTANTS
  SIZE = 8
  MATE = 1
  LogLens = {3, 4, 5}
  MaxLogs = 5
SPECIFICATION Spec
INVARIANTS TypeOK RingInv ParsedInOrder NoOverlap StaleCheckIsSafe ReadsWithinData
