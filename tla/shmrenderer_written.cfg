SPECIFICATION Spec
CONSTANTS
  Sizes = {1, 2}
  Threads = {"same"}
  Interrupts = FALSE
  DaemonDies = FALSE
  NAreas = 1
  MaxGen = 3
INVARIANT FrameIsNeverWritten
CHECK_DEADLOCK FALSE
