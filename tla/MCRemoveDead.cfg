CONSTANTS
  Root = 0
  Pids <- MCPids
  Trees <- MCTrees
  Keys = {1, 2}
  None = None
SPECIFICATION RowsSpec
PROPERTIES
  RemoveDeadRemovesOnlyDead
CHECK_DEADLOCK FALSE
