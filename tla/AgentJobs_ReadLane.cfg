CONSTANTS
  NoReq = NoReq
  Requests = {r1, r2, r3, r4}
  Cancels = {r1, r2, r3, r4}
  ReadRequests = {r4}
  Workers = {w1, w2}
  ReadWorkers = {w2}
  MainCap = 1
  ReadCap = 1
  MaxConns = 1
  MaxInFlight = 2
INIT OpenInit
NEXT OpenNext
SYMMETRY MainSymmetry
CHECK_DEADLOCK FALSE
INVARIANT ReadsNotBehindWrites
