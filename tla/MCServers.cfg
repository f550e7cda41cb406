CONSTANTS
  Programs = {"workers", "reactor", "connection", "blocking", "chat"}
  None = None
  Self = Self
  c1 = c1
  c2 = c2
  c3 = c3
  Clients = {c1, c2}
  Cores = {1, 2}
  OpenMax = 3
  OwnFds = {0, 1}
  MAX_FDS = 2
  ULL = 8
  Loads = {"busy", "spaced"}
  Sessions <- PoliteAndHasty
  CAP = 4
  CHUNK = 2
  MsgLen = 3
  Peers = {c1, c2}
  Scripts <- BlockingScripts
  Resets = {c2}
  BUF = 3
  STREAM_CHUNK_SIZE = 2
  Users = {c1, c2, c3}
  Lazy = {c3}
  Says <- ChatSays
  WINDOW = 2
  RecvMax = 2
  MAX_EVENTS = 2
  Listener <- NoFd
SPECIFICATION ServersSpec
INVARIANTS OneUser RightContext GaugesExact OutputInOrder ReadsWithRoom EveryLineAnswered
  ClientsExact HeardInOrder
PROPERTY EveryoneServed
CHECK_DEADLOCK FALSE
