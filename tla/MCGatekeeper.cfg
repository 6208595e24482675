SPECIFICATION Spec
CONSTANTS
  Ids = {t1, t2, t3}
  Times <- MCNow
  Capacities <- MCOneSlot
  ActiveTTL = 1
  QueueTTL = 1
  Browsers = {b1}
  Slots = {1, 2}
  AdminSession = 1
  MaxMishaps = 1
  MaxRestarts = 1
INVARIANTS WasteBounded
PROPERTIES RefreshKeepsPlace AdminByKey GhostsLeave
