SPECIFICATION Spec
CONSTANTS
  start1 = start1  start2 = start2  resume = resume  clear = clear  pause = pause
  w1 = w1  w2 = w2
  Service = Service  NoReq = NoReq
  MaxRuns = 2
  Targets <- ZeroTwo
  TTL = 1
  Workers <- OneWorker
  Requests <- Operator
  Kind <- OperatorKind
  Overlap <- Nothing
  FirstSnapshot = "seeded"
  EpochMayFail = TRUE
  Timely = FALSE
  MaxCrashes = 1
INVARIANTS NoOrphan
PROPERTIES NoEpochTwice CompletedNeverDrops OverrideStays
