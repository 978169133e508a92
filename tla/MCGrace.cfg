SPECIFICATION GraceSpec
CONSTANTS
  SessionId = {s1}
  User = {u1}
  Role = {r1}
  Hash = {h1, h2, h3}
  None = None
  Second = 2
  IdleTtl = 2
  AbsoluteTtl = 4
  GracePeriod = 1
  MaxLag = 0
  MaxLead = 0
  MaxTime = 8
INVARIANTS ReuseIsBeyondGrace
