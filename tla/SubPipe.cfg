SPECIFICATION SubSpec
CONSTANTS
  Capacity = 3
  Chunk = 2
  Outputs = {0, 1, 2, 3}
  Statuses = {0, 1, 255}
  ForkMayFail = TRUE
INVARIANTS TypeOK EndsInOrder Fits TextIsComplete StatusIsRight
PROPERTIES SubTerminates
CHECK_DEADLOCK FALSE
