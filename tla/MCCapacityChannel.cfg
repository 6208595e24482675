SPECIFICATION Spec
CONSTANTS
  r1 = r1
  r2 = r2
  w1 = w1
  w2 = w2
  w3 = w3
  Replicas = {r1, r2}
  Writers = {w1, w2, w3}
  Host <- MCHost
  Values = {0, 1, 4}
  Configured <- MCConfigured
  MaxWrites = 2
  MaxFaults = 2
INVARIANTS TypeOK CapacityUsable OverrideAdopted
PROPERTIES Converges
