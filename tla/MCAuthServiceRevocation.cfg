CHECK_DEADLOCK FALSE
SPECIFICATION AuthSpec
CONSTANTS
  SessionId = {s1, s2}
  User = {u1}
  Role = {r1}
  Hash = {h1, h2, h3}
  Request = {q1, q2}
  None = None
  Second = 1
  IdleTtl = 2
  AbsoluteTtl = 2
  GracePeriod = 1
  AccessTtl = 2
  MaxLag = 1
  MaxLead = 0
  MaxSkew = 0
  MaxHandling = 1
  MaxTime = 2
SYMMETRY Symmetry
INVARIANTS AuthTypeOK RevocationFinal TokensInTurn
PROPERTY StoreSpec
