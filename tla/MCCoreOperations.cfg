SPECIFICATION FairSpec
CONSTANTS
  c1 = c1
  c2 = c2
  Calls <- MCCalls
  MaxRequestId = 2
  None = None
INVARIANTS
  NothingLeftBehind
  WorkerPerOperation
  ResultIsVerdict
PROPERTY
  EveryCallSettles
CHECK_DEADLOCK FALSE
