SPECIFICATION Spec
CONSTANTS
  root = root  left = left  right = right  leaf = leaf
  p1 = p1  p2 = p2
  Null = Null  Absent = Absent  Free = Free
  Procs <- OneProc
  Bundles <- ForkBundles
  Parent <- ForkParent
  WellFormed <- ForkBundles
  Valid <- ForkBundles
  EnabledCommands <- Everything
  Failpoints <- BothFailpoints
  MaxLedger = 2
  MaxCrashes = 2
INVARIANTS LedgerChainValid PointersInStore RollbackIsOneGeneration
PROPERTIES LedgerAppendOnly SwapFollowsParent SuccessReconciles
