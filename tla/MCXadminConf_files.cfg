SPECIFICATION Spec
CONSTANTS
  NULL = NULL
  Scalar <- Texts
  NumOf <- Numbers
  Files <- AllFiles
  PoolAlloc = 1
  MaxFaults = 1
  MaxEdits = 0
INVARIANTS
  TypeOK
  DataFresh
  ValidatorInStep
  ParserInStep
  NoWildAccess
  ArgFits
PROPERTIES
  ImplementsLoader
  FieldsWriteOnce
  Returns
