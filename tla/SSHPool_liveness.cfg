SPECIFICATION FairSpec
CONSTANTS
  Requests = {r1, r2, r3}
  Keys = {k1}
  Clients = {c1, c2, c3, c4}
  NoKey = NoKey
  NoClient = NoClient
  GlobalMax = 2
  TargetMax = 1
  MaxWaiters = 2
PROPERTIES
  EveryAcquireEnds
  ShutdownDrains
