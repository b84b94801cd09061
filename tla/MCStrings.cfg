SPECIFICATION Spec
CONSTANTS
  NULL = NULL
  Scalars <- MCScalars
  Fields = {"name", "passwd", "gateway"}
  Numbers = {"port"}
  MaxPools = 2
  MaxBlocks = 9
  MaxFaults = 1
  Width = 16
INVARIANT TypeOK
INVARIANT TextHasOneOwner
INVARIANT NothingBeyond
INVARIANT LossBounded
INVARIANT NumberAsWritten
PROPERTY Destroyed
CHECK_DEADLOCK FALSE
