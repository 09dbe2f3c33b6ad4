SPECIFICATION Spec
CONSTANTS
  Requests = {r1, r2}
  Keys = {k1}
  Clients = {c1, c2, c3}
  NoKey = NoKey
  NoClient = NoClient
  GlobalMax = 1
  TargetMax = 1
  MaxWaiters = 1
INVARIANT PhysicalLimit
