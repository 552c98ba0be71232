CONSTANTS
  Jobs = {j1, j2}
  Workspaces = {w1}
  Loops = 1
SPECIFICATION QueueSpec
INVARIANT WorkspaceCountsWork
