CONSTANTS
  Letters <- MCLetters
  Inputs <- MCAnySpelling
SPECIFICATION Spec
INVARIANT SearchSameDirectory
CHECK_DEADLOCK FALSE
