SPECIFICATION FairSpec
CONSTANTS
  Timer = {t1}
  NoTimer = NoTimer
  Types = {"one_shot"}
  Delays = {1, 7}
  Calls = {"init", "cancel"}
  Interval = 16
  DelayLineLength = 32
  FeedbackMax = 1
  Start = 13
  MaxTime = 16
  MaxCalls = 3
  MaxSleeps = 0
PROPERTIES
  NeverEarly
CHECK_DEADLOCK FALSE
