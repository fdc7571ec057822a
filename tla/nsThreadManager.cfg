SPECIFICATION MFairSpec
CONSTANTS
  Thread = {main, a, b}
  Main = main
  NoThread = NoThread
  JoinFrom = {"app", "Run"}
  Joinable = {b}
  Creator = {main}
  Filter = {{"task", "sync", "shutdown", "ack", "startup"}}
  MaxEvents = 2
  MaxPushes = 1
INVARIANTS
  RunningThreadsListed
  NoBackgroundThreads
PROPERTIES
  ManagerShutdownCompletes
  AcceptedEventsRun
  ShutdownReturns
  SyncDispatchReturns
CHECK_DEADLOCK FALSE
