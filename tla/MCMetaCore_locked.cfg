SPECIFICATION FairSpec
CONSTANTS
  root = root  left = left  right = right  leaf = leaf
  p1 = p1  p2 = p2
  Null = Null  Absent = Absent  Free = Free
  Procs <- TwoProcs
  Bundles <- TreeBundles
  Parent <- TreeParent
  WellFormed <- ForkBundles
  Valid <- LineBundles
  EnabledCommands <- ApplyAudit
  Failpoints <- None
  MaxLedger = 2
  MaxCrashes = 1
INVARIANTS OnlyAcceptedActive
PROPERTIES AuditNoFalseAlarm CommandsFinish
