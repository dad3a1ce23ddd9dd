CONSTANTS
  Root = 0
  Pids = {1, 2, 3}
  InitPid = 1
  Programs = {shell, thread, web}
  Spaced = {web}
  Silent = {thread}
  MaxLives = 4
SPECIFICATION ScanSpec
INVARIANTS
  ScanTypeOK
  SurvivorsAreListed
  ParentsFormNoCycle
CHECK_DEADLOCK FALSE
