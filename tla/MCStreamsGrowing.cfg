CONSTANTS
  Programs <- MCPrograms
  Leftover <- MCLeftover
  Mixes <- MCMixes
  Evicting = {}
  Idle = Idle
  NoShape = ""
  MaxPlans = 1
  MaxEvictions = 2
  MaxCalls = 2
  MaxGraphs = 2
  MaxSeen = 1
  MaxGeneration = 1
SPECIFICATION Spec
INVARIANTS
  GrowthInvalidatesGraphs
