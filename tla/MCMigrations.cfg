SPECIFICATION FairSpec
CONSTANTS
  r1 = r1
  r2 = r2
  r3 = r3
  r4 = r4
  a = a
  b = b
  c = c
  x = x
  Runs <- MCRuns
  Embedded <- MCEmbedded
  Sums <- MCSums
  Newest = 3
  None = None
INVARIANTS
  SchemaIsRecorded
PROPERTIES
  OutcomeIsTrue
  NoMixedSchema
  EveryRunEnds
CHECK_DEADLOCK FALSE
