CONSTANTS
  a1 = a1
  a2 = a2
  mail = mail
  Requests = {a1, a2, mail, patient}
  Latest = {a1, a2}
  Limited = {a2, mail}
  Stream <- MCStream
  NoRequest = NoRequest
  Capacity = 2
  Closers = {stop}
  Joining = {stop}
SPECIFICATION FairSpec
INVARIANTS
  TypeOK
  QueueShape
  FutureProtocol
  ServedInOrder
  InOneHand
PROPERTIES
  ImplementsLedger
  EveryRequestSettles
