SPECIFICATION Spec
CONSTANTS
  NULL = NULL
  Scalar <- Texts
  NumOf <- Numbers
  Files <- PoolFiles
  PoolAlloc = 1
  MaxFaults = 0
  MaxEdits = 0
INVARIANT
  UnknownIsRefused
