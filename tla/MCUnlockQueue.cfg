CONSTANTS
  Entries = {e1, e2}
  NoEntry = NoEntry
  LEN = 4
SPECIFICATION FairSpec
INVARIANTS TypeOK SlotsExclusive
PROPERTIES ImplementsFIFO Drains
