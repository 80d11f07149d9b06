SPECIFICATION Spec
CONSTANTS
  start1 = start1  start2 = start2  resume = resume  clear = clear  pause = pause
  w1 = w1  w2 = w2
  Service = Service  NoReq = NoReq
  MaxRuns = 2
  Targets <- One
  TTL = 1
  Workers <- OneWorker
  Requests <- Start
  Kind <- StartKind
  Overlap <- Nothing
  FirstSnapshot = "seeded"
  EpochMayFail = FALSE
  Timely = TRUE
  MaxCrashes = 0
INVARIANTS IdempotentRetry
