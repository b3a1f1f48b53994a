SPECIFICATION CallsSpec
CONSTANTS
  Name = {f, g, h}
  Tree = {t1, t2, t3, t4, t5}
  MaxCalls = 2
  TouchesRunning = FALSE
  Substitutes = FALSE
  NULL = NULL
  FirstCap = 3
  Variables = {"x", "?", "2"}
  Values = {"", "a"}
  Args <- MCArgs
  MaxArgs = 2
  Decimal <- MCDecimal
SYMMETRY MCSymmetry
INVARIANTS TypeOK ParametersAgree TreesHaveOwners RunningIsLive
PROPERTIES IsCallStack ChangesOneFunction SetsOneVariable
CHECK_DEADLOCK FALSE
