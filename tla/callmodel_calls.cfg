SPECIFICATION Spec
CONSTANTS
  Calls = {a, b, c}
  Confs = {k}
  None = None
  AutoAnswer = {FALSE, TRUE}
  CanFail = TRUE
  MaxSignals = 3
CHECK_DEADLOCK FALSE
SYMMETRY Symmetry
INVARIANTS
  TypeOK
  LiveAreShown
  EndedLeave
  HistoryAgrees
