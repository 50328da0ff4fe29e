SPECIFICATION FairSuite
CONSTANTS
  Parts = {"qman", "apppoll", "bufs", "budget", "kernel", "rings"}
  VmIds = {"v1", "v2"}
  FlowIds = {"a", "b"}
  Levels = 2
  TsHalf = 3
  MaxLag = 1
  IdleTimes = {1, 5}
  Batches = {2}
  Movers = {"b"}
  PollVms = {1, 2}
  BatchSize = 2
  MaxRounds = 2
  MaxNull = 1
  MaxPend = 1
  PollBufs = {2}
  Handles = {1, 2, 3, 4, 5}
  BufcacheSize = 2
  TxbufSize = 3
  BufBatch = 2
  BuVms = {1, 2}
  BuCores = {1, 2}
  BuMax = 2
  BuTotals = {2}
  BuCosts = {1}
  MaxRexmits = 1
  KCores = {0, 1}
  NicRxLen = 2
  NicTxLen = 2
  RingCores = {0, 1}
  RxqLen = 2
  TxqLen = 2
  EvNum = 2
  RingBatch = 2
INVARIANTS
  QueuesIntact
  OneOwner
PROPERTIES
  EveryFlowSent
  EveryContextServed
  BudgetReturns
  KernelRingsServed
  AppRingsServed
CHECK_DEADLOCK FALSE
