SPECIFICATION Spec
CONSTANTS
  NULL = NULL
  Scalar <- Texts
  NumOf <- Numbers
  Files <- DocumentedFiles
  PoolAlloc = 1
  MaxFaults = 0
  MaxEdits = 0
INVARIANT
  DocumentedShapeLoads
