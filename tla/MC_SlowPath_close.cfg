SPECIFICATION Spec
CONSTANTS
  ConnIds = {1, 2}
  LstIds = {1, 2}
  Ctxs = {1, 2}
  Opaques = {1, 2, 3}
  Remotes = {"r1", "r2", "r3"}
  Hosts = {"h1"}
  Routes <- MCRoutes
  IpOf <- MCIpOf
  RemHash <- MCRemHash
  MaxPort = 4
  PortFirstEph = 2
  NumFlows = 2
  NumBufs = 4
  KinLen = 2
  KoutLen = 5
  BacklogLen = 2
  ListenMultiMax = 2
  Retries = 1
  ArpTries = 2
  Plans <- MCPlans
  MaxDrops = 2
  InitHints = {1}
INVARIANT ClosedIsClosed
CHECK_DEADLOCK FALSE
