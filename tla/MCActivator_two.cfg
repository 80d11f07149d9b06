SPECIFICATION ActivatorSpec
CONSTANTS
  root = root  left = left  right = right  leaf = leaf
  d1 = d1  d2 = d2  s3 = s3  op1 = op1  op2 = op2  k0 = k0  k1 = k1  k2 = k2
  Null = Null  Absent = Absent  Free = Free
  Procs <- ThreeProcs
  Daemons <- TwoProcs
  Manual <- None
  Bundles <- TreeBundles
  Parent <- TreeParent
  Key <- TreeKey
  Native <- Modules
  Op <- TwoOps
  WellFormed <- TreeBundles
  Valid <- TreeBundles
  EnabledCommands <- Commands
  Failpoints <- None
  MaxLedger = 4
  MaxCrashes = 0
  MaxKills = 1
INVARIANTS SuccessIsOwn

