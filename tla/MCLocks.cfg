CONSTANTS
  t1 = t1
  t2 = t2
  t3 = t3
  Threads = {t1, t2, t3}
  Delta <- ThreeThreads
  ITERATIONS = 2
  Accounts = {"checking", "savings"}
  Amounts = {2}
  INITIAL_BALANCE = 3
  Turns <- BankTurns
  BufferSize = 2
  N = 3
  MEALS = 2
SPECIFICATION LocksSpec
INVARIANTS TypeOK MutualExclusion NoLostWakeup TotalKept OnlyTheCircleBlocks
PROPERTIES LocksEnd ImplementsSharedCounter LocksImplementSharedCounter
CHECK_DEADLOCK FALSE
