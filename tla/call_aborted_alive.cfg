SPECIFICATION Spec
CONSTANTS
  Origins = {"incoming"}
  Inputs <- TransferInputs
  UiOnly = TRUE
  DaemonEvents = {}
  Profiles = {FALSE}
  Videos = {FALSE}
  RingAccount = TRUE
  MaxSignals = 2
INVARIANT AbortedNeverSent
CHECK_DEADLOCK FALSE
