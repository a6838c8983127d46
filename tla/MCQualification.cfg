SPECIFICATION FairSpec
CONSTANTS
  None = None
  Unbounded = Unbounded
  c1 = c1
  c2 = c2
  tree = tree
  other = other
  Campaigns = {c1, c2}
  Worktrees = {tree, other}
  Commits = {1, 2}
  Browsers <- MCBrowsers
  Settings <- MCSettings
INVARIANTS
  TypeOK
  MeasuredApart
  QualifiedIsEarned
  SummaryNamesItsBuild
  VolumeIsGuarded
PROPERTIES
  LockIsReleased
CHECK_DEADLOCK FALSE
