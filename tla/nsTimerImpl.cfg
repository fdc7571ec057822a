SPECIFICATION Spec
CONSTANTS
  Timer = {t1}
  NoTimer = NoTimer
  Types = {"one_shot", "slack", "precise"}
  Delays = {1, 9}
  Calls = {"init", "cancel", "delay", "release"}
  Interval = 16
  DelayLineLength = 1
  FeedbackMax = 0
  Start = 14
  MaxTime = 16
  MaxCalls = 3
  MaxSleeps = 1
INVARIANTS
  NoDanglingTimer
CHECK_DEADLOCK FALSE
