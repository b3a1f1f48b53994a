CONSTANTS
  NULL = NULL
  BadLine = BadLine
  Family = "dotlines"
  Scripts <- MCScripts
  Sourced <- MCSourced
  Node <- MCNode
  Dup <- MCDup
  Statuses = {0, 1}
  ForkMayFail = FALSE
SPECIFICATION Spec
PROPERTIES
  AllLinesRun
