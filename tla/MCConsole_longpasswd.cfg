SPECIFICATION Spec
CONSTANTS
  Typed <- LongPasswdUser
  TypeAhead = 0
  StackLimit = 2
  Special = {"$"}
PROPERTY PasswordChangeComplete
CHECK_DEADLOCK FALSE
