CONSTANTS
  w1 = w1
  w2 = w2
  w3 = w3
  c1 = c1
  c2 = c2
  NoWorker = NoWorker
  NoTarget = NoTarget
  Worker = {w1, w2}
  Target = {t1}
  Coordinator = {c1, c2}
  CoordinatorOf <- TwoProcesses
  UseRedis = TRUE
  DecodeResponses = TRUE
  HeartbeatChoice <- AlwaysBeat
  LeaseTTL = 6
  Interval = 2
  MaxLatency = 1
  MaxFaults = 1
SPECIFICATION FairSpec
INVARIANTS TypeOK Exclusion LeaseBacked WorkingKeepsLease
PROPERTIES OnlyOwnerTouches DeadWorkerRecovered
