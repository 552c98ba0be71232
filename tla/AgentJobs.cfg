CONSTANTS
  NoReq = NoReq
  Requests = {r1, r2, r3}
  Cancels = {r1}
  ReadRequests = {}
  Workers = {w1}
  ReadWorkers = {}
  MainCap = 1
  ReadCap = 1
  MaxConns = 2
  MaxInFlight = 1
SPECIFICATION OpenFairSpec
CHECK_DEADLOCK FALSE
INVARIANTS OpenTypeOK TokensMatchJobs
PROPERTIES CancelBeforeStartWins CancelledJobsLeave CancelStopsCommand
