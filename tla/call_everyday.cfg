SPECIFICATION FairSpec
CONSTANTS
  Origins <- Calling
  Inputs <- EverydayInputs
  UiOnly = TRUE
  DaemonEvents = {"peerHold", "restart"}
  Profiles <- Both
  Videos <- Both
  RingAccount = TRUE
  MaxSignals = 3
INVARIANTS
  TypeOK
  ClientAgrees
  NoFault
PROPERTIES
  ForwardOnly
  EndIsNoticed
CHECK_DEADLOCK FALSE
