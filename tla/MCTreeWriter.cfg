\* Every tree of up to eight nodes, messages of one or two lines.
CONSTANTS
  MaxNodes = 8
  Trees <- MCTrees
  MaxDepth = 8
  MaxLines = 2
  None = None
SPECIFICATION Spec
INVARIANTS TypeOK PathsIntact PipesConnected DepthFirst FailureReported
CHECK_DEADLOCK FALSE
