SPECIFICATION FairSpec
CONSTANTS
  SeqMod = 6
  TxLen = 3
  RxLen = 1
  Mss = 2
  WndMax = 3
  BumpMax = 0
  Cores = {c1, c2}
  Flows = {0}
  FlowIdMod = 1
  FwdLen = 2
  MaxMoves = 1
  Segs <- AckSegs
  Bumps <- TxBumps
INVARIANTS
  TxAccounting
  NoStranded
PROPERTIES
  AckMonotonic
  AvailIsSent
