SPECIFICATION PageSpec
CONSTANTS
  Ids = {v1, v2, v3}
  Times <- MCNow
  Capacities <- MCOneSlot
  ActiveTTL = 2
  QueueTTL = 2
  PollInterval = 1
  Jitter = 1
  MaxBackoff = 2
  TicksPerSecond = 2
  Gated = TRUE
  MaxFaults = 1
PROPERTY LetIn
