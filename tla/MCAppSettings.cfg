CONSTANTS
  Main = main
  Workers = {w1, w2}
  Sizes = {1, 2}
  Absent = Absent
  Emptied = Emptied
  NoSettings = NoSettings
SPECIFICATION Spec
INVARIANTS
  KeptUnlessTorn
  LaterSavesAreSafe
