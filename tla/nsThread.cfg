SPECIFICATION Spec
CONSTANTS
  Thread = {main, a, b}
  Main = main
  NoThread = NoThread
  JoinFrom = {"app", "EventLoop", "Run", "SyncRun"}
  Joinable = {main, a, b}
  Creator = {main, a}
  Filter = {{"task"}, {"sync", "ack"}}
  MaxEvents = 2
  MaxPushes = 1
INVARIANTS
  NoEventLeftBehind
  ContextAlive
  SafeToJoin
  ShutDownForGood
PROPERTIES
  SyncDispatchWaits
  ImplementsTarget
CHECK_DEADLOCK FALSE
