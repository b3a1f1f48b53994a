CONSTANTS
  NULL = NULL
  BadLine = BadLine
  Family = "all"
  Scripts <- MCScripts
  Sourced <- MCSourced
  Node <- MCNode
  Dup <- MCDup
  Statuses = {0, 1}
  ForkMayFail = TRUE
SPECIFICATION Spec
INVARIANTS
  TypeOK
  DepthMatchesLoops
  NothingRunsWhileBreaking
PROPERTIES
  BreakReachesItsLoop
  BreakIsHeard
  AllLinesRun
  BreakIsResolved
