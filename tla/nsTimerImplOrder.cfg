SPECIFICATION FairSpec
CONSTANTS
  Timer = {t1, t2}
  NoTimer = NoTimer
  Types = {"slack"}
  Delays = {1, 7}
  Calls = {"init", "release"}
  Interval = 16
  DelayLineLength = 2
  FeedbackMax = 1
  Start = 13
  MaxTime = 16
  MaxCalls = 3
  MaxSleeps = 0
INVARIANTS
  ArmedMeansListed
  ListOrdered
  NeverOversleeps
  ReleasedTimersGo
PROPERTIES
  TimersFire
CHECK_DEADLOCK FALSE
