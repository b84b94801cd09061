SPECIFICATION Spec
CONSTANTS
  NULL = NULL
  LastPid = 3
  Programs = {"web", "database-server-1"}
  Names = {"web", "database-server", "database-server-1"}
  Shown <- MCShown
  List <- MCList
  MaxFaults = 1
INVARIANT TypeOK
INVARIANT SteadyIsFound
INVARIANT RunningRan
INVARIANT AllClosed
PROPERTY SearchEnds
