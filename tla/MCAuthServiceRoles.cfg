CHECK_DEADLOCK FALSE
SPECIFICATION AuthSpec
CONSTANTS
  SessionId = {s1}
  User = {u1}
  Role = {r1, r2}
  Hash = {h1, h2, h3}
  Request = {q1, q2}
  None = None
  Second = 1
  IdleTtl = 2
  AbsoluteTtl = 3
  GracePeriod = 1
  AccessTtl = 1
  MaxLag = 1
  MaxLead = 0
  MaxSkew = 0
  MaxHandling = 1
  MaxTime = 3
SYMMETRY Symmetry
INVARIANTS StaleRoleBounded
