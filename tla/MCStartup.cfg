SPECIFICATION Spec
CONSTANTS
  NULL = NULL
  here = here
  there = there
  cipher = cipher
  plain = plain
  wrong = wrong
  leftover = leftover
  Confs <- MCConfs
  Plain <- MCPlain
  Rubbish <- MCRubbish
  Ports = {5432, 5433}
  Accounts <- MCAccounts
  LocalHost = here
  DefaultPort = 5432
  MaxFaults = 1
  MaxFlaps = 1
INVARIANT TypeOK
INVARIANT WholePoolHeld
INVARIANT OneMetaPool
INVARIANT ConsoleConnected
INVARIANT ExitHasReason
PROPERTY Ends
CHECK_DEADLOCK FALSE
