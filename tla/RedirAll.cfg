SPECIFICATION Spec
CONSTANTS
  MaxFd = 20
  Closed = Closed
  File = {"in", "out", "err", "f", "g"}
  Starts <- MCStarts
  MaxCalls = 3
  MaxLeft = 2
INVARIANTS TypeOK CommandSees SavedKept SavedOpen
PROPERTY Restored
CHECK_DEADLOCK FALSE
