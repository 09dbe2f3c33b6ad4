SPECIFICATION FairQuerySpec
CONSTANTS
  Threads = {t1, t2}
  Sources = {1, 2}
  NoSource = NoSource
  MaxPerSource = 1
  MaxWaiters = 1
  PoolMax = 1
  RescueMax = 1
  MaxTotalRows = 0
PROPERTY EveryQueryAnswered
