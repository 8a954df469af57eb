CONSTANTS
  regular = regular
  Clients = {regular, c2, c3}
  Capacity = 2
  RequestCapacity = 1
  MaxRequests <- MCMaxRequests
SPECIFICATION FairSpec
INVARIANTS
  TypeOK
  PostsLeaveNothing
  OneResponse
  StatusTellsOutcome
PROPERTIES
  SlotsComeBack
