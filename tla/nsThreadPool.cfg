SPECIFICATION Spec
CONSTANTS
  Dispatcher = {d1, d2}
  Worker = {w1, w2, w3}
  NoWorker = NoWorker
  ThreadLimits = {1}
  IdleLimits = {0}
  InitThreadLimit = 2
  InitIdleLimit = 1
  NewThreadMayFail = TRUE
  RacyShutdown = TRUE
  MaxEvents = 3
  MaxSets = 1
INVARIANTS
  IdleCountExact
  JoinedOnce
SYMMETRY Symmetry
CHECK_DEADLOCK FALSE
