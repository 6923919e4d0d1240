SPECIFICATION Spec
CONSTANTS
  Programs <- MCPrograms
  Glue <- MCGlue
  MaxTokens = 44
INVARIANTS LocksBalanced OwnNameIsInert TokensAreKept
PROPERTY Terminates
CHECK_DEADLOCK FALSE
