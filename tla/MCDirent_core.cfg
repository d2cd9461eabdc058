CONSTANTS
  a = a
  b = b
  c = c
  long = long
  Names = {a, b, c}
  LongNames = {long}
  Dot = Dot
  DotDot = DotDot
  NoDir = NoDir
  NoEntry = NoEntry
  Listings <- MCListingsLong
  EnvStates <- MCEnvDeleteLong
  MaxHandles = 4
  MaxChanges = 2
  MaxLoc = 3
SPECIFICATION Spec
INVARIANT TypeOK
INVARIANT HandleDiscipline
PROPERTY ReadDirKeepsErrno
