SPECIFICATION FairSpec
CONSTANTS
  h1 = h1
  h2 = h2
  h3 = h3
  Host = {h1, h2, h3}
  Literal = {h3}
  NoRec = NoRec
  MaxWorkers = 2
  HighThreadThreshold = 1
  MaxResolverThreads = 2
  MaxNonPriorityRequests = 1
  MaxCacheEntries = 1
  Calls <- MCCalls
  ThreadMayFail = TRUE
  MaxRequests = 3
  MaxRecords = 4
INVARIANTS
  ResolvedByOne
  CalledOnce
  ReferencesExact
  CountsExact
PROPERTIES
  RequestsAnswered
CHECK_DEADLOCK FALSE
