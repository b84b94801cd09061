SPECIFICATION Spec
CONSTANTS
  Typed <- WaitingUser
  TypeAhead = 0
  StackLimit = 2
  Special = {"$"}
INVARIANT CancelKeepsNetwork
CHECK_DEADLOCK FALSE
