SPECIFICATION FairSpec
CONSTANTS
  start1 = start1  start2 = start2  resume = resume  clear = clear  pause = pause
  w1 = w1  w2 = w2
  Service = Service  NoReq = NoReq
  MaxRuns = 2
  Targets <- One
  TTL = 1
  Workers <- OneWorker
  Requests <- StartClear
  Kind <- StartClearKind
  Overlap <- StartOrClear
  FirstSnapshot = "seeded"
  EpochMayFail = TRUE
  Timely = TRUE
  MaxCrashes = 1
PROPERTIES RunsLeaveRunning
