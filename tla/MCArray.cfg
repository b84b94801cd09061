SPECIFICATION Spec
CONSTANTS
  NULL = NULL
  Arrays <- MCArrays
  arg = arg
  pool = pool
  Values = {1, 2}
  Rubbish = {2}
  Blocks = {b1, b2, b3}
  Width = 16
  Size = 3
  Memory = 4
  MaxElements = 3
  Counts = {0, 1}
INVARIANT TypeOK
INVARIANT BooksAgree
INVARIANT OneOwner
INVARIANT PointerGood
PROPERTY ImplementsSeqs
