CONSTANTS
  Threads = {t1}
  None = None
  Sleep = 2
  Samples <- MCSamples
  NaN = NaN
  MinValue = 0
  Limit = 100
  Timespan = 2
  Widths = {480, 481}
  Heights = {218}
  Overshoots <- MCOvershoots
  Times = {0, 1, 2, 3, 4, 5}
  MaxPoints = 2
SPECIFICATION Spec
INVARIANTS
  TypeOK
  SamplesApart
  HistoryKept
PROPERTIES
  DrawLeavesRange
CHECK_DEADLOCK FALSE
