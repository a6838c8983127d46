SPECIFICATION BackupSpec
CONSTANTS
  t1 = t1
  t2 = t2
  b1 = b1
  b2 = b2
  o1 = o1
  o2 = o2
  Tabs <- MCTabs
  Backups <- MCBackups
  Restores <- MCRestores
  None = None
PROPERTY
  CleanedWereInterrupted
