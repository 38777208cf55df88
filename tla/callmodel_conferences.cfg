SPECIFICATION Spec
CONSTANTS
  Calls = {a, b, c, d}
  Confs = {k, l}
  None = None
  AutoAnswer = {FALSE}
  CanFail = FALSE
  MaxSignals = 3
CHECK_DEADLOCK FALSE
SYMMETRY Symmetry
CONSTRAINT AllThere
INVARIANTS
  ConferencesAgree
