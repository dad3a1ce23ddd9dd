CONSTANTS
  Booted = 40
  Gains = {0, 4}
  Second = 3
  Sleep = 2
  MaxClock = 7
  MaxFaults = 2
  MaxLag = 1
  Decimal = 2
  Binary = 3
SPECIFICATION Spec
INVARIANTS
  ReportsCoverMoved
  UsageIsShare
  TextsTellBytes
CHECK_DEADLOCK FALSE
