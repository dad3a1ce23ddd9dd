CONSTANTS
  Threads = {t1, t2, t3}
  None = None
SPECIFICATION FairSpec
INVARIANTS
  HandlerExcludesLoop
  NoTerminate
  OnlyDetachedOutlive
PROPERTIES
  HandoffSpec
  JoinReturns
  UpdatesKeepComing
CHECK_DEADLOCK FALSE
