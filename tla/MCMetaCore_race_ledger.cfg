SPECIFICATION Spec
CONSTANTS
  root = root  left = left  right = right  leaf = leaf
  p1 = p1  p2 = p2
  Null = Null  Absent = Absent  Free = Free
  Procs <- TwoProcs
  Bundles <- TreeBundles
  Parent <- TreeParent
  WellFormed <- TreeBundles
  Valid <- TreeBundles
  EnabledCommands <- Operations
  Failpoints <- None
  MaxLedger = 2
  MaxCrashes = 0
PROPERTIES LedgerAppendOnly
