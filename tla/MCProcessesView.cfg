CONSTANTS
  Root = 0
  Pids <- MCPids
  Trees <- MCTrees
  Keys = {1, 2}
  None = None
SPECIFICATION RowsSpec
INVARIANTS
  RowsTypeOK
  OneRowEach
  ClearedRowsFollowTree
  SiblingsAreSorted
  SignalsMeetProcesses
CHECK_DEADLOCK FALSE
