CONSTANTS
  Jobs = {j1, j2}
  Workspaces = {w1, w2}
  Loops = 2
SPECIFICATION QueueSpec
INVARIANTS QueueTypeOK TotalCountsWork
