CONSTANTS
  Threads = {1, 2}
  SockIds = {1, 2, 3, 4}
  FdIds = {1, 2, 3, 4, 5}
  EpIds = {101}
  BacklogLen = 1
  TxLen = 3
  None = 0
  FullOps = {"accept", "listen"}
  Programs <- MCPrograms
SPECIFICATION FairSpec
INVARIANTS NeverAborts RefcntExact EventsSeen
PROPERTIES CallsComplete
CHECK_DEADLOCK FALSE
