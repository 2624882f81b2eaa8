\* The limits of the code and of CPython 3.12.
SPECIFICATION FairSpec
CONSTANTS
  Columns <- ChainColumns
  Missing = {}
  LLMColumns = {}
  Graphs <- ChainGraphs
  ColumnOrder <- ChainOrder
  RecursionLimit = 1000
  BaseFrames = 5
  FramesPerVisit = 2
INVARIANT NoRecursionError
CHECK_DEADLOCK FALSE
