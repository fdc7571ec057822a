SPECIFICATION Spec
CONSTANTS
  Dispatcher = {d1, d2}
  Worker = {w1, w2}
  NoWorker = NoWorker
  ThreadLimits = {}
  IdleLimits = {}
  InitThreadLimit = 2
  InitIdleLimit = 1
  NewThreadMayFail = FALSE
  RacyShutdown = TRUE
  MaxEvents = 2
  MaxSets = 0
INVARIANTS
  NothingLeaked
SYMMETRY Symmetry
CHECK_DEADLOCK FALSE
