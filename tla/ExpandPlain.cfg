SPECIFICATION Spec
CONSTANTS
  Ifs = {" ", "n", ":"}
  Whitespace = {" ", "n"}
  NULL = NULL
  Tokens <- MCTokens
  Value <- MCValue
  Args <- MCArgs
  MaxTokens = 3
INVARIANTS CursorsInside WordsAreRight
PROPERTIES Terminates
CHECK_DEADLOCK FALSE
