SPECIFICATION ModelSpec
CONSTANTS
  Views = {"load"}
  Experts = {e1, e2, e3, e4}
  NoExpert = NoExpert
  Capacity = 2
  MaxDemands = 3
  MaxClock = 6
  MaxSteps = 2
  Blocks = 2
  NExpert = 3
  ResidentBlocks = 1
  RingSlots = 2
  SplitDemands = 3
  SplitSteps = 1
  DecodeBlocks = 2
  Ids = {i1, i2}
  K = 2
  DecodeCapacity = 3
  MaxHost = 2
  FailAt = {"submit", "sync", "add"}
  DecodeClock = 8
  DecodeSteps = 4
  MaxU = 9999
  Quants <- MCQuants
  Files <- MCFiles
  Replacements <- MCReplacements
  Residencies <- MCResidencies
  HostPolicies = {"off", "on"}
  HostRams <- MCHostRams
  EnginePage = 2
  PlannerPage = 4
  HeadroomPercent = 12
  DeviceTypes = {"f32", "q4", "q6"}
  HostTypes = {"q4", "q6"}
  MaxBatchedMats = 4
INVARIANT PoolWithinPlan
