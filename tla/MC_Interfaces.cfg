SPECIFICATION FairSuite
CONSTANTS
  Parts = {"wakeup", "shmring", "proxy", "appreg"}
  Senders = {"fp", "sp"}
  CycSenders = {"fp"}
  Receivers = {"core", "slow", "app"}
  Cycle = 1
  MaxLate = 1
  RingSize = 4
  MsgSizes = {1, 3}
  NumMsgs = 5
  PApps = {"p", "q"}
  PFds = {1, 2}
  Targets = {"slow"}
  ChanCap = 2
  VmBatch = 1
  RegApps = {"a", "b"}
  Quitters = {"b"}
PROPERTIES
  
  RingUntilMet
  ProxiesServe
  ContextsServed
CHECK_DEADLOCK FALSE
