SPECIFICATION FairSpec
CONSTANTS
  Texts = {TRUE, FALSE}
  MaxMessages = 2
  MaxSignals = 3
CHECK_DEADLOCK FALSE
INVARIANTS
  TypeOK
  FileAgrees
  NoStatusMissed
PROPERTIES
  FinalStatusStays
  StatusCatchesUp
