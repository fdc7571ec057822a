SPECIFICATION FairSpec
CONSTANTS
  SegmentSize = 2
  SegmentCount = 2
  InitialCount = 2
  BlockingIn = {TRUE, FALSE}
  BlockingOut = {TRUE, FALSE}
  Reasons = {"closed"}
  FlagsIn = {"ready", "none"}
  FlagsOut = {"ready", "closure", "none"}
  MixAsync = FALSE
  MemoryFails = TRUE
  Counts = {1, 3}
  MaxBytes = 5
  UintRange = 64
INVARIANTS
  BookkeepingExact
  NoMissedNotification
PROPERTIES
  ImplementsPipe
  EndOnlyWhenDrained
  BytesArrive
  WritesReturn
CHECK_DEADLOCK FALSE
