SPECIFICATION SubSpec
CONSTANTS
  Capacity = 3
  Chunk = 2
  Outputs = {4}
  Statuses = {0, 1, 255}
  ForkMayFail = FALSE
PROPERTIES BothExecuted
CHECK_DEADLOCK FALSE
