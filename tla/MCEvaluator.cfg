CONSTANTS
  Requests = {r1, r2}
  NoRequest = NoRequest
  Stream <- MCStream
  Latest = {r1, r2}
  Limited = {r2}
  Capacity = 1
  Dispatcher = dispatcher
  Closings = {x}
  Nobody = Nobody
  Parts = 2
  Room = 1
SPECIFICATION FairSpec
INVARIANTS
  ClosedIsQuiet
PROPERTIES
  ResultIsItsOwn
  ShutdownInterrupts
  QueueIsFair
