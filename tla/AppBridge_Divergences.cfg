CONSTANTS
  Requests = {r1}
  MaxConns = 2
  MaxReplies = 1
INIT AppOpenInit
NEXT AppOpenNext
CHECK_DEADLOCK FALSE
INVARIANTS DisconnectFailsInFlight OneAgentConnection
