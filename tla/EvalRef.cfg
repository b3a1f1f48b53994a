CONSTANTS
  NULL = NULL
  BadLine = BadLine
  Family = "nodot"
  Scripts <- MCScripts
  Sourced <- MCSourced
  Node <- MCNode
  Dup <- MCDup
  Statuses = {0, 1}
  ForkMayFail = FALSE
  MaxTrace = 8
SPECIFICATION RefSpec
CONSTRAINT TraceBound
INVARIANTS
  MatchesReference
