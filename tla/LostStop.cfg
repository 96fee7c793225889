CONSTANTS
  Sizes      <- MCSizes
  Capacities <- MCCapacities
  MaxTokens = 2
  MaxLoads  = 1

SPECIFICATION Spec

INVARIANT
  StopHaltsInference
