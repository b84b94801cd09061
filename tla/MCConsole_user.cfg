SPECIFICATION FairSpec
CONSTANTS
  Typed <- WaitingUser
  TypeAhead = 0
  StackLimit = 2
  Special = {"$"}
INVARIANT TypeOK
INVARIANT OneLineOnePrompt
INVARIANT NothingHeldBack
INVARIANT ConfiguredAsSaved
PROPERTY SavedAsTyped
PROPERTY PasswdTypedTwice
PROPERTY CommandEnds
CHECK_DEADLOCK FALSE
