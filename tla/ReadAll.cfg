CONSTANTS
  Files <- MCFiles
  Contents <- MCContents
  Parse <- ParseInput
  Derived <- MCDerived
SPECIFICATION MCSpec
INVARIANTS
  TypeOK
  ReadsBack
  GrammarAccepted
  AcceptedIsGrammar
PROPERTIES
  EventuallyOver
