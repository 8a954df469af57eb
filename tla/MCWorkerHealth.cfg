CONSTANTS
  Callers = {c1}
  Closers = {x1}
  Nobody = Nobody
  MaxRuns = 1
  Parts = 1
  Room = 1
  Readers = {h1}
SPECIFICATION HealthSpec
INVARIANT HealthReports
