CONSTANTS
  Leases = {l1, l2}
  Entries = {e1, e2}
  NoEntry = NoEntry
SPECIFICATION FairLeases
CHECK_DEADLOCK FALSE
INVARIANT LeasedIsWatched
PROPERTY WatchersAreReleased
