CONSTANTS
  Mutations = {m1}
  MaxContent = 1
  MaxVersion = 3
  MaxQueue = 1
SPECIFICATION PipelineSpec
CHECK_DEADLOCK FALSE
PROPERTY NoStaleWrite
