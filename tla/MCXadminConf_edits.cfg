SPECIFICATION Spec
CONSTANTS
  NULL = NULL
  Scalar <- Texts
  NumOf <- Numbers
  Files <- EditFiles
  PoolAlloc = 1
  MaxFaults = 1
  MaxEdits = 1
INVARIANTS
  LoadedIsComplete
