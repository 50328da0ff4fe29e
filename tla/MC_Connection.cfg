SPECIFICATION SuiteSpec
CONSTANTS
  Parts = {"stream", "bump"}
  Cores = {c1}
  AtxLen = 1
  ArxLen = 2
  CbSeqMod = 6
  CbLen = 2
  CbWnd = 3
  CbBumps = 2
  SeqMod = 20
  TxLen = 2
  RxLen = 2
  Mss = 2
  WndMax = 5
  BumpMax = 0
  Plans <- PlansSafe
  Isn <- IsnWrap
INVARIANTS StreamIntact AckedArrived AccountsAgree
PROPERTIES ImplementsByteStream
CHECK_DEADLOCK FALSE
