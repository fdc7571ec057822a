SPECIFICATION FairSpec
CONSTANTS
  Caller = {c1, c2}
  Event = {e1, e2}
  NoEvent = NoEvent
  EVENTS_PER_PAGE = 2
  MaxPuts = 5
INVARIANTS
  TypeOK
  NoSleepWithPendingEvent
  EmptyOwnsOnePage
  PagesLinked
PROPERTIES
  ImplementsFifo
  BlockedCallerServed
CHECK_DEADLOCK FALSE
