CONSTANTS
  Programs <- MCPrograms
  Leftover <- MCLeftover
  Mixes <- MCMixes
  Evicting <- MCEvicting
  Idle = Idle
  NoShape = ""
  MaxPlans = 1
  MaxEvictions = 2
  MaxCalls = 2
  MaxGraphs = 1
  MaxSeen = 1
  MaxGeneration = 1
SPECIFICATION Spec
INVARIANTS
  ConcurrentKernelsAreDisjoint
  ReadsAreCurrent
  GraphsStayValid
