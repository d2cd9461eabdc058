CONSTANTS
  t1 = t1
  t2 = t2
  f1 = f1
  NoDie = NoDie
  Threads <- MCThreads
  DieFns <- MCDieFns
  MaxSets <- MCMaxSets
SPECIFICATION Spec
PROPERTY FatalErrorTerminates
CHECK_DEADLOCK FALSE
