SPECIFICATION Spec
CONSTANTS
  Ids = {t1, t2}
  Requests = {r1, r2}
  Janitor = janitor
  Times <- MCTimes
  Capacities <- MCCapacities
  ActiveTTL = 2
  QueueTTL = 1
  Gap = 2
  MaxStall = 1
  MaxNow = 3
  MaxFailures = 1
  MaxRequests = 4
SYMMETRY Interchangeable
INVARIANTS ProxyHoldsSlot WaitMeansWaiting HeartbeatLag CountSkew
PROPERTIES PollersKept SessionsKept PlaceImproves WinnersSpaced
