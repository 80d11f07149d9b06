SPECIFICATION Spec
CONSTANTS
  root = root  left = left  right = right  leaf = leaf
  p1 = p1  p2 = p2
  Null = Null  Absent = Absent  Free = Free
  Procs <- OneProc
  Bundles <- TreeBundles
  Parent <- TreeParent
  WellFormed <- TreeBundles
  Valid <- TreeBundles
  EnabledCommands <- Everything
  Failpoints <- None
  MaxLedger = 4
  MaxCrashes = 0
INVARIANTS TypeOK ActiveAuditable LedgerRecordsPointers
PROPERTIES ImplementsHistory
