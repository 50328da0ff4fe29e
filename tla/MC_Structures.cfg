SPECIFICATION FairSuite
CONSTANTS
  Parts = {"tcp", "packetmem", "timeout", "flowtable", "sched", "law", "rx"}
  SeqMod = 12
  MaxBuf = 4
  MaxLen = 3
  MemLen = 7
  AllocLens = {1, 2, 3}
  Half = 4
  Timers = {"t1", "t2", "t3"}
  Delays = {0, 1, 3}
  MAX_TIMEOUTS = 1
  MaxLate = 2
  Entries = 16
  NBSZ = 2
  Flows = {1, 2, 3}
  Hashes = {15, 0}
  MaxAdds = 4
  Conns = {"c1", "c2", "c3", "d1", "d2"}
  None = "none"
  Batch = 2
  U32 = 15
  I32 = 7
  I16 = 3
  Algorithms = {"dctcp_win", "dctcp_rate", "timely", "const"}
  MSS = 2
  TxLen = 10
  Rate0 = 4
  MinRate = 2
  Step = 1
  Weight = 8
  Beta = 12
  Alpha = 4
  MinPkts = 2
  TLow = 2
  THigh = 3
  MinRtt = 1
  RexmitInts = 2
  RttInit = 1
  LinkBw = 2
  RxbLen = 4
  IovLens = {1, 2, 3}
INVARIANTS
  IntervalsExact
  HandlesTile
  TimersExact
  LookupFinds
  ReadsInOrder
PROPERTIES
  EveryTimeoutEnds
  EveryConnVisited
  ReactsToCongestion
  StalledIsRetransmitted
CHECK_DEADLOCK FALSE
