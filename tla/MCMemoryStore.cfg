SPECIFICATION Spec
CONSTANTS
  Ids = {t1, t2, t3}
  Times <- MCTimes
  Capacities <- MCCapacities
  ActiveTTL = 1
  QueueTTL = 1
  MaxSeq = 4
SYMMETRY Tickets
INVARIANTS Consistent SeqPartition PositionExact CapacityBound
PROPERTIES NoOvertaking ImplementsRoom
