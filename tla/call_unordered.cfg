SPECIFICATION Spec
CONSTANTS
  Origins <- Origin
  Inputs <- TabledInputs
  UiOnly = FALSE
  DaemonEvents = {"unordered", "restart"}
  Profiles <- Both
  Videos = {FALSE}
  RingAccount = FALSE
  MaxSignals = 2
INVARIANTS
  AudioOnlyInProgress
  ProfileSentOnce
  ObjectsFollowLife
PROPERTIES
  EndIsStamped
  HangUpEnds
CHECK_DEADLOCK FALSE
