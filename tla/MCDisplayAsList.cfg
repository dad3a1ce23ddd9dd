CONSTANTS
  Threads = {t1, t2}
  None = None
  CategoryOrder <- TwoCategories
SPECIFICATION FairSpec
PROPERTIES
  DisplayAsList
CHECK_DEADLOCK FALSE
