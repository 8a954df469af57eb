CONSTANTS
  Lanes = 4
  Warps = 2
  Peaks <- MCPeaks
  Batches <- MCBatches
SPECIFICATION Spec
INVARIANTS
  NoDataRace
  OutputsAreRight
  RoutesReachTheirTokens
  BarriersAreMet
