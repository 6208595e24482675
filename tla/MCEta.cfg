SPECIFICATION Spec
CONSTANTS
  Requests = {r1, r2}
  Positions = {1, 3}
  Capacities = {1, 2}
  Averages <- MCAverages
  ActiveTTL = 4
  StatsCacheTTL = 2
  PollInterval = 3
  TicksPerSecond = 2
  MaxClock = 4
INVARIANTS EtaFresh EtaHonest
