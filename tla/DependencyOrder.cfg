\* Three visits fit in the recursion limit, four do not.
SPECIFICATION FairSpec
CONSTANTS
  Columns <- MCColumns
  Missing <- MCMissing
  LLMColumns = {"d"}
  Graphs <- MCGraphs
  ColumnOrder <- MCOrder
  RecursionLimit = 9
  BaseFrames = 3
  FramesPerVisit = 2
INVARIANTS DecidesCycles AcceptedIsOrderable
PROPERTY SearchEnds
CHECK_DEADLOCK FALSE
