CONSTANTS
  Requests = {r1}
  MaxConns = 2
  MaxReplies = 2
SPECIFICATION AppOpenSpec
CHECK_DEADLOCK FALSE
INVARIANTS AppOpenTypeOK NoLostWaiter NoLeakedEntry OutcomeExplained
PROPERTY CallsReturn
