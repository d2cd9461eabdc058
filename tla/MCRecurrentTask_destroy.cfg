CONSTANTS
  MaxRuns <- MCMaxRuns
  MaxOps <- MCMaxOps
SPECIFICATION Spec
CHECK_DEADLOCK FALSE
INVARIANT NoCallbackAfterDestroy
