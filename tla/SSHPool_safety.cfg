SPECIFICATION Spec
CONSTANTS
  Requests = {r1, r2, r3}
  Keys = {k1, k2}
  Clients = {c1, c2, c3, c4}
  NoKey = NoKey
  NoClient = NoClient
  GlobalMax = 2
  TargetMax = 2
  MaxWaiters = 2
SYMMETRY Symmetry
INVARIANTS
  TypeOK
  ExclusiveLease
  SlotsAccounted
  WithinLimits
  OneCreatorPerTarget
  QueueMatchesTickets
  NoLostWakeup
  NoLeak
  ClosedPoolParksNothing
PROPERTIES
  ServedInOrder
  PromiseKept
