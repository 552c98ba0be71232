CONSTANTS
  MaxLoads = 2
  MaxViewers = 2
  TimelyPolls = TRUE
SPECIFICATION FairViewer
CHECK_DEADLOCK FALSE
INVARIANTS ViewerTypeOK ShownIsSelected
PROPERTIES LoadingEnds
