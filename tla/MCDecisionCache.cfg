CONSTANTS
  Settings <- SoundSettings
  States = {"s1", "s2"}
  Images = {"i1", "i2"}
  NoImages = NoImages
  ShapesOf <- ListShapes
  NoShape = NoShape
  NoRequest = NoRequest
  QuestionLists <- Lists
  Batches = {2}
  Chunk = 4
  MaxRevisions = 2
SPECIFICATION Spec
INVARIANTS
  AnswersFromOwnPrompt
  CacheEntryHolds
  SharedBranchesFollowPrefix
  NoRequestInheritsFailure
