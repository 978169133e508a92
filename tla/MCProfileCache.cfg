CHECK_DEADLOCK FALSE
SPECIFICATION ProfileSpec
CONSTANTS
  User = {u1}
  Profile = {p1, p2}
  Request = {r1, r2}
  None = None
  CacheTtl = 2
  MaxHandling = 1
  MaxTime = 5
SYMMETRY Symmetry
INVARIANTS ProfileTypeOK StaleProfileBounded
