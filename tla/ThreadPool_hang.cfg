CONSTANTS
  PoolThreads = {t1, t2}
  LINES = 1
  NoThread = NoThread
SPECIFICATION FairSpec
PROPERTY PoolEnds
CHECK_DEADLOCK FALSE
