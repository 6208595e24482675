SPECIFICATION Spec
CONSTANTS
  r1 = r1
  r2 = r2
  Replicas = {r1, r2}
  Deployments <- MCDeployments
  ProbeMin = 1
  ProbeMax = 3
  Configured = 5
  PutValues = {6}
  MaxPuts = 1
  MaxFaults = 2
INVARIANTS TypeOK
PROPERTIES BoundsRegained ProbingContinues IncreaseEarned
