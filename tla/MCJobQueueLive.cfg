SPECIFICATION LiveSpec
CONSTANTS
  j1 = j1
  j2 = j2
  w1 = w1
  w2 = w2
  Jobs <- MCJobs
  Malformed <- MCMalformed
  Workers <- MCWorkers
  WorkerId <- MCWorkerId
  Rank <- MCRank
  NoJob = NoJob
  NoToken = NoToken
  Lease = 2
  RetryBase = 1
  RetryCap = 3
  MaxClaims = 2
  ClaimsBound = 4
  MaxFaults = 2
VIEW MCView
INVARIANTS
  DispatchIffOpen
  OneLeaseHolder
  ClaimsAccounted
PROPERTIES
  ImplementsLifecycle
  EventuallyFinal
CHECK_DEADLOCK FALSE
