CONSTANTS
  w1 = w1
  w2 = w2
  w3 = w3
  c1 = c1
  c2 = c2
  NoWorker = NoWorker
  NoTarget = NoTarget
  Worker = {w1, w2}
  Target = {t1, t2}
  Coordinator = {c1}
  CoordinatorOf <- OneProcess
  UseRedis = FALSE
  DecodeResponses = FALSE
  HeartbeatChoice <- Both
  LeaseTTL = 3
  Interval = 2
  MaxLatency = 1
  MaxFaults = 0
SPECIFICATION FairSpec
PROPERTIES OnlyOwnerTouchesLocal DeadWorkerRecovered ServiceSpec
