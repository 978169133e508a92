\* The process ends.
CHECK_DEADLOCK FALSE
SPECIFICATION ServerSpec
CONSTANTS
  Request = {r1}
  Probe = {p1, p2}
  PoolSize = 1
  Signals = 2
INVARIANTS ServerTypeOK NobodyCutOff ExitIsTrue
PROPERTIES StopsGracefully Stops ProbeAnswered
