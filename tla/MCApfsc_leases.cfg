SPECIFICATION Spec
CONSTANTS
  start1 = start1  start2 = start2  resume = resume  clear = clear  pause = pause
  w1 = w1  w2 = w2
  Service = Service  NoReq = NoReq
  MaxRuns = 2
  Targets <- One
  TTL = 2
  Workers <- TwoWorkers
  Requests <- Starts
  Kind <- StartsKind
  Overlap <- StartOnly
  FirstSnapshot = "seeded"
  EpochMayFail = TRUE
  Timely = TRUE
  MaxCrashes = 0
SYMMETRY WorkerSymmetry
INVARIANTS TypeOK LeasesTogether ExclusiveEpochs
