SPECIFICATION Spec
CONSTANTS
  Calls = {a, b}
  Confs = {k, l}
  None = None
  AutoAnswer = {FALSE}
  CanFail = FALSE
  MaxSignals = 2
CHECK_DEADLOCK FALSE
SYMMETRY Symmetry
INVARIANT ShownOnce
