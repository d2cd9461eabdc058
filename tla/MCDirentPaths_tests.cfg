CONSTANTS
  Letters <- MCLetters
  Inputs <- MCTestForms
SPECIFICATION Spec
INVARIANT SearchSameDirectory
CHECK_DEADLOCK FALSE
