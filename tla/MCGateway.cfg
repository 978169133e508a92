SPECIFICATION MCSpec
CONSTANTS
  Limiter <- MCLimiter
  Key <- MCKey
  Max <- MCMax
  Window <- MCWindow
  MaxTime = 2
  Request = {q1, q2}
  Client = {c1}
  Session = {s1, s2}
  Proxies <- MCProxies
  MaxHops = 3
  LoadBalancer = LoadBalancer
  Edge = Edge
  Elsewhere = Elsewhere
  None = None
SYMMETRY Symmetry
INVARIANTS GatewayTypeOK HandlersGuarded BurstBounded
