SPECIFICATION Spec
CONSTANTS
  Ids = {t1, t2, t3}
  Times <- MCTimes
  TicksPerMs = 2
  Capacities <- MCCapacities
  ActiveTTL = 3
  QueueTTL = 2
  MaxSeq = 3
SYMMETRY Tickets
INVARIANTS KeysAgree CapacityBound
PROPERTIES NoOvertaking ImplementsRoom
