SPECIFICATION QuerySpec
CONSTANTS
  Threads = {t1, t2, t3}
  Sources = {1, 2}
  NoSource = NoSource
  MaxPerSource = 1
  MaxWaiters = 1
  PoolMax = 1
  RescueMax = 1
  MaxTotalRows = 1
SYMMETRY Symmetry
INVARIANTS
  QueryTypeOK
  SlotsConserved
  WaitersCounted
  HeldOnlyWhileUsed
  SuccessAccountsForSources
PROPERTY FailureFitsPolicy
