CONSTANTS
  Callers = {c1, c2}
  Closers = {x1, x2}
  Nobody = Nobody
  MaxRuns = 3
  Parts = 2
  Room = 1
SPECIFICATION FairSpec
INVARIANTS
  AnswersMatch
  DeadlineCoversExchange
  NoUseOfClosedPipes
  StoppedForGood
PROPERTIES
  EveryCallEnds
