SPECIFICATION StoreSpec
CONSTANTS
  SessionId = {s1, s2}
  User = {u1, u2}
  Role = {r1}
  Hash = {h1, h2, h3}
  None = None
  Second = 2
  IdleTtl = 4
  AbsoluteTtl = 6
  GracePeriod = 1
  MaxLag = 1
  MaxLead = 1
  MaxTime = 8
SYMMETRY Symmetry
INVARIANTS TypeOK AbsoluteCap IndexCovers
PROPERTY ContractSpec
