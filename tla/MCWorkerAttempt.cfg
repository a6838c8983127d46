SPECIFICATION Spec
CONSTANTS
  Commands <- MCCommands
  Headers <- MCHeaders
  Statuses <- MCStatuses
  Days <- MCDays
  FeedCeiling = 2
  MaxBodyBytes = 3
  MaxRedirects = 1
  MaxClaims = 2
  MaxFrame = 2
  None = None
  Null = Null
INVARIANTS
  TypeOK
  RecordedIsContract
  AcceptedCommandRuns
  ExchangeIsRecorded
  HeldWithinBound
PROPERTY
  DatedRight
CHECK_DEADLOCK FALSE
