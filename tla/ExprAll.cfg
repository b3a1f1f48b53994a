SPECIFICATION Spec
CONSTANTS
  Alphabets <- MCAlphabets
  MaxLength = 6
  Variable <- MCVariable
  Text <- MCNegative
  IntWidth = 16
INVARIANTS SyntaxChecked ValueIsRight
CHECK_DEADLOCK FALSE
