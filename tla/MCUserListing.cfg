CHECK_DEADLOCK FALSE
SPECIFICATION MCSpec
CONSTANTS
  Signup = {1, 2}
  Name = {1, 2}
  Spelling = {1, 2}
  Email = {1, 2}
  Limit = 1
INVARIANTS UsersTypeOK WalkIsComplete
PROPERTIES RegistrySpec EveryoneAnswered
