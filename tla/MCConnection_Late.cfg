CONSTANTS
  NETS_CNT = 2
  MaxTrans = 2
  Troubles <- TooLate
SPECIFICATION FairSpec
PROPERTY AllConnected
CHECK_DEADLOCK FALSE
