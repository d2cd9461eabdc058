CONSTANTS
  t1 = t1
  t2 = t2
  t3 = t3
  Tasks <- MCTasks
  MaxRuns <- MCMaxRuns
SPECIFICATION Spec
PROPERTY EventuallyDeleted
CHECK_DEADLOCK FALSE
