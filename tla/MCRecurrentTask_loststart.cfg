CONSTANTS
  MaxRuns <- MCMaxRuns
  MaxOps <- MCMaxOps
SPECIFICATION Spec
CHECK_DEADLOCK FALSE
PROPERTY StartNotLost
