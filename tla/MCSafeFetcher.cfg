SPECIFICATION FairSpec
CONSTANTS
  f1 = f1
  f2 = f2
  hostX = hostX
  hostY = hostY
  s1 = s1
  s2 = s2
  s3 = s3
  Fetches <- MCTwoFetches
  Hosts <- MCHosts
  Targets <- MCTargets
  Responsive <- MCResponsive
  Semaphores <- MCSemaphores
  None = None
  MaxRedirects = 1
  PerHost = 1
  Global = 2
INVARIANTS
  TypeOK
  SocketsBounded
PROPERTY
  MapOfHostsInFlight
  ServedDespiteDeadHosts
CHECK_DEADLOCK FALSE
