CONSTANTS
  Names = {a, b}
  Contents = {c1, c2}
  None = None
SPECIFICATION Spec
PROPERTIES
  ClickDoesWhatLabelSays
  ClickKeepsEntries
CHECK_DEADLOCK FALSE
