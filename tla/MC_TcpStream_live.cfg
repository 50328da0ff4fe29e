SPECIFICATION FairSpec
CONSTANTS
  SeqMod = 20
  TxLen = 3
  RxLen = 3
  Mss = 1
  WndMax = 4
  BumpMax = 0
  Plans <- PlansLive
  Isn <- IsnZero
PROPERTIES AllDelivered
CHECK_DEADLOCK FALSE
