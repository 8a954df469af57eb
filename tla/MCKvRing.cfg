CONSTANTS
  Window = 4
  MaxTokens = 3
  Block = 1
  MaxPartitions = 3
  Align = 2
  MaxContext = 12
  Slack = 3
  ChunkSizes = {1, 3, 6}
  Tokens = {0, 1}
  PromptTokens = {1}
  Paths <- MCPaths
  Predict <- MCPredict
SPECIFICATION Spec
INVARIANTS
  QueriesSeeTheirWindow
  CopiesAgree
PROPERTIES
  SpeculationIsGreedy
CHECK_DEADLOCK FALSE
