CONSTANTS
  a = a
  b = b
  c = c
  Repos = {a, b, c}
  Graphs <- Chain
  Requests <- Whole
  Edited = {a}
  MaxEdits = 1
  Jobs = {j1, j2}
  NoJob = NoJob
SPECIFICATION Spec
SYMMETRY JobSymmetry
CHECK_DEADLOCK FALSE
INVARIANTS TypeOK GraphsAreRight LevelsAreComplete DoneIsCommitted
