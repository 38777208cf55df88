SPECIFICATION FairSpec
CONSTANTS
  Sizes = {1, 2}
  Threads <- Both
  Interrupts = TRUE
  DaemonDies = TRUE
  NAreas = 2
  MaxGen = 3
INVARIANTS TypeOK LockBalanced FrameIsMapped NewestFrameIsReadable RendersTheSink SameThreadIsSafe
PROPERTIES StopIsObeyed NewFrameIsTaken
CHECK_DEADLOCK FALSE
