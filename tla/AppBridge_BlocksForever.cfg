CONSTANTS
  Requests = {r1}
  MaxConns = 1
  MaxReplies = 1
SPECIFICATION AppOpenSpec
CHECK_DEADLOCK FALSE
PROPERTY NeverBlocksForever
