CONSTANTS
  NoReq = NoReq
  Requests = {r1}
  ReadRequests = {}
  Workers = {w1}
  ReadWorkers = {}
  MainCap = 1
  ReadCap = 1
  MaxConns = 2
SPECIFICATION Spec
CHECK_DEADLOCK FALSE
INVARIANT AbandonedWorkIsCancelled
PROPERTY ImplementsAtMostOnceCall
