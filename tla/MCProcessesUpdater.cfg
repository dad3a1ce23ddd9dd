CONSTANTS
  Threads = {t1, t2}
  None = None
  CategoryOrder <- TwoCategories
SPECIFICATION FairSpec
INVARIANTS
  RacesNeedOvertaking
  HandlerReadsLiveTrees
  CloseOnPageIsSafe
  LookupSeesRefresh
  PostedCloseIsSafe
PROPERTIES
  SortedRowsFollowLayout
CHECK_DEADLOCK FALSE
