CONSTANTS
  Settings <- AllSettings
  States = {"s1", "s2"}
  Images = {}
  NoImages = NoImages
  ShapesOf <- ListShapes
  NoShape = NoShape
  NoRequest = NoRequest
  QuestionLists <- Lists
  Batches = {1, 2}
  Chunk = 4
  MaxRevisions = 0
SPECIFICATION Spec
INVARIANTS
  AnswersFromOwnPrompt
