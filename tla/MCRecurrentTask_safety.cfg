CONSTANTS
  MaxRuns <- MCMaxRuns
  MaxOps <- MCMaxOps
SPECIFICATION Spec
INVARIANT InFlightMeansScheduled
INVARIANT StopDisarms
CHECK_DEADLOCK FALSE
