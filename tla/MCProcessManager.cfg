CONSTANTS
  Root = 0
  Pids <- MCPids
  Names <- MCNames
  AppBlacklist = {"gnome-shell"}
  AppParentBlacklist = {"bash"}
  WineNames = {"game.exe"}
  Tables <- MCTables
SPECIFICATION Spec
INVARIANTS
  TypeOK
  HeapIsOwned
  Partition
  TreesAreComplete
