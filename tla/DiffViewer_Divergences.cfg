CONSTANTS
  MaxLoads = 2
  MaxViewers = 1
  TimelyPolls = FALSE
SPECIFICATION ViewerSpec
CHECK_DEADLOCK FALSE
INVARIANTS SelectedIsShown ErrorIsOfSelected ShownIsSelected EditorsAreReleased
PROPERTIES SelectionIsKept
