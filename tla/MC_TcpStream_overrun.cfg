SPECIFICATION Spec
CONSTANTS
  SeqMod = 20
  TxLen = 3
  RxLen = 3
  Mss = 2
  WndMax = 5
  BumpMax = 0
  Plans <- PlansOverrun
  Isn <- IsnLate
INVARIANTS StreamIntact
CHECK_DEADLOCK FALSE
