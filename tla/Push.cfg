CONSTANTS
  a = a
  b = b
  Repos = {a, b}
  Graphs <- Layered
  Packaged = {a}
  Jobs = {j1, j2}
  NoJob = NoJob
  MaxConcurrent = 2
SPECIFICATION Spec
SYMMETRY JobSymmetry
CHECK_DEADLOCK FALSE
INVARIANTS TypeOK OneLiveJob PackagesBeforePush LevelsInOrder
