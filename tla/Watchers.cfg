CONSTANTS
  Leases = {l1, l2, l3}
  Entries = {e1, e2, e3}
  NoEntry = NoEntry
SPECIFICATION FairLeases
CHECK_DEADLOCK FALSE
INVARIANTS LeasesTypeOK TableIsAlive RemovedIsDisposed
PROPERTY IdleEntryLeaves
