CONSTANTS
  Caches = {p, b}
  Sources = {p}
  Nobody = Nobody
  Regions = 2
  PageRows = 2
  MaxRows = 5
  Initial = 1
  Reserved = 3
SPECIFICATION Spec
INVARIANTS
  MappedPagesExist
  BranchesAreIsolated
  ResidentRowsAreCommitted
  NeverFaults
PROPERTIES
  SharedPrefixIsFixed
