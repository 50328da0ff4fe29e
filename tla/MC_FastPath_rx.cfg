SPECIFICATION Spec
CONSTANTS
  SeqMod = 10
  TxLen = 3
  RxLen = 3
  Mss = 2
  WndMax = 5
  BumpMax = 1
  Cores = {c1}
  Flows = {0}
  FlowIdMod = 1
  FwdLen = 2
  MaxMoves = 0
  Segs <- DataSegs
  Bumps <- RxBumps
INVARIANTS
  OooNearWindow
PROPERTIES
  RxFinFinal
