CONSTANTS
  NoReq = NoReq
  Requests = {r1, r2}
  Cancels = {r1, r2}
  ReadRequests = {}
  Workers = {w1, w2}
  ReadWorkers = {}
  MainCap = 1
  ReadCap = 1
  MaxConns = 2
  MaxInFlight = 2
INIT OpenInit
NEXT OpenNext
SYMMETRY MainSymmetry
CHECK_DEADLOCK FALSE
INVARIANTS OpenTypeOK TokensMatchJobs OneWorkerPerJob
PROPERTY StartedOnce
