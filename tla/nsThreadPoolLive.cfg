SPECIFICATION FairSpec
CONSTANTS
  Dispatcher = {d1, d2}
  Worker = {w1, w2, w3}
  NoWorker = NoWorker
  ThreadLimits = {}
  IdleLimits = {0}
  InitThreadLimit = 2
  InitIdleLimit = 1
  NewThreadMayFail = FALSE
  RacyShutdown = FALSE
  MaxEvents = 2
  MaxSets = 1
INVARIANTS
  AllShutDown
PROPERTIES
  EventsRun
  ThreadsTerminate
CHECK_DEADLOCK FALSE
