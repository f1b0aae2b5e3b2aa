CONSTANTS
  p1 = p1  p2 = p2
  Proc <- MCProc
  NoProc = NoProc
  Dialects = {"postgres", "mysql"}
  KeepEntity = TRUE
  MaxVersion = 4
  MaxClock = 1
SPECIFICATION Spec
INVARIANTS TypeOK LostOnlyAfterKeptSave HistoryComplete
SYMMETRY Symmetry
CHECK_DEADLOCK FALSE
