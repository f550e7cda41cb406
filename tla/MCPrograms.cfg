CONSTANTS
  PoolThreads = {t1, t2}
  LINES = 3
  NoThread = NoThread
  Throwers = {b1, b2, b3}
  balls_count = 3
  BIN_COUNT = 2
  arraySize = 3
  INTS = 4
  StudentThreads = {s1, s2}
  PLAYER_COUNT = 3
  DICE_ROUNDS = 2
  Faces = {1, 2}
  FieldPlayers = {f1, f2}
  Fields <- ThreeFields
  Points <- ThreePoints
  Free = Free
  Server = Server
  Kids = {k1, k2, k3}
  LIFE_SPAN = 1
  QueueSize = 2
  Persons = {q1, q2}
  PERSON_ROUNDS = 3
  MAX_MSG_COUNT = 2
  Users = {u1, u2}
  Keys = {x1, x2, x3}
  Values = {v1}
  MAX_ENTRIES = 2
  COMMANDS = 4
  Empty = Empty
  Nothing = Nothing
  Callers = {c1, c2, c3}
  Asks <- ThreeCalls
  Quitters = {c1}
  Fds = {1}
  Frames = {a1, a2}
  CORO_BUF = 1
  Nobody = Nobody
  Askers = {c1, c2}
  Sums <- TwoSums
  Sockets <- TwoSockets
  INT32_MAX = 3
  Twins = {w1, w2}
  PRESSES = 3
  c1 = c1
  c2 = c2
  c3 = c3
SPECIFICATION ProgramsSpec
INVARIANTS OneStartPerRequest PrintedIsTrue PointsKept MessagesHaveReaders StoreIsMap
  EventsOfTheLiving SumsRight
PROPERTIES FairAward ProgramsEnd
CHECK_DEADLOCK FALSE
