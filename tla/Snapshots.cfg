CONSTANTS
  Mutations = {m1}
  MaxContent = 2
  MaxVersion = 3
  MaxQueue = 2
SPECIFICATION PipelineSpec
CHECK_DEADLOCK FALSE
SYMMETRY MutationSymmetry
INVARIANTS PipelineTypeOK ShownOrComing OneSnapshotPerVersion
