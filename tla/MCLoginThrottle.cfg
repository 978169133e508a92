SPECIFICATION Spec
CHECK_DEADLOCK FALSE
CONSTANTS
  Attempt = {a1, a2, a3}
  FreeAttempts = 1
  BaseDelay = 1
  MaxDelay = 3
  FailureWindow = 3
  Second = 4
  MaxFailures = 5
  MaxTime = 28
SYMMETRY Symmetry
INVARIANTS DeadlinesBounded LockIsEarned FailuresAreSpaced
PROPERTY AdmittedAfterDelay
