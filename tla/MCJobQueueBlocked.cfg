SPECIFICATION Spec
CONSTANTS
  j1 = j1
  j2 = j2
  w1 = w1
  w2 = w2
  Jobs <- MCJobs
  Malformed <- MCMalformed
  Workers <- MCWorkers
  WorkerId <- MCWorkerId
  Rank <- MCRank
  NoJob = NoJob
  NoToken = NoToken
  Lease = 1
  RetryBase = 1
  RetryCap = 3
  MaxClaims = 2
  ClaimsBound = 2
SYMMETRY MCSymmetry
VIEW MCView
INVARIANT
  ReadyJobCanBeClaimed
CHECK_DEADLOCK FALSE
