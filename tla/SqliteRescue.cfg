SPECIFICATION Spec
CONSTANTS
  Threads = {t1, t2, t3, t4}
  Sources = {1, 2}
  NoSource = NoSource
  RescueMax = 2
  RescuePerSource = 1
  RescueWaiters = 1
SYMMETRY Symmetry
INVARIANT RescueAccounts
PROPERTY KeepsPromise
