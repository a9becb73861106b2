CONSTANTS
  NETS_CNT = 3
  MaxTrans = 4
  Troubles <- Mixed
SPECIFICATION FairSpec
INVARIANTS TypeOK CountIsOfList KeptIsServed OneConnectionPerPeer
PROPERTY RetriesConnect
CHECK_DEADLOCK FALSE
