SPECIFICATION FairSpec
CONSTANTS
  r1 = r1
  r2 = r2
  s1 = s1
  s2 = s2
  k1 = k1
  o1 = o1
  o2 = o2
  Requests <- MCRequests
  Sessions <- MCSessions
  Owner <- MCOwner
  Keys <- MCKeys
  Operations <- MCOperations
  PoolSize = 2
  None = None
PROPERTIES
  NoAnsweredJobUnknown
  ImplementsPromise
  Answered
CHECK_DEADLOCK FALSE
