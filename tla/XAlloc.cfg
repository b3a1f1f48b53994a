SPECIFICATION Spec
CONSTANTS
  Addr = {a1, a2, a3}
  NULL = NULL
  Byte = {0, 1}
  Size = {0, 1, 2}
INVARIANTS TypeOK AllLinked
PROPERTIES FreeAllReturns IsAllocator
CHECK_DEADLOCK FALSE
