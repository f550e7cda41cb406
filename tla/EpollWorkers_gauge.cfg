CONSTANTS
  Programs = {"workers"}
  None = None
  Self = Self
  c1 = c1
  c2 = c2
  c3 = c3
  Clients = {c1, c2}
  Cores = {2}
  OpenMax = 2
  OwnFds = {0}
  MAX_FDS = 2
  ULL = 8
  Loads = {"busy"}
  Sessions <- PoliteAndHasty
  CAP = 4
  CHUNK = 2
  MsgLen = 3
  Peers = {c1, c2}
  Scripts <- BlockingScripts
  Resets = {c2}
  BUF = 3
  STREAM_CHUNK_SIZE = 2
  Users = {c1, c2, c3}
  Lazy = {c3}
  Says <- ChatSays
  WINDOW = 2
  RecvMax = 2
  MAX_EVENTS = 2
  Listener <- NoFd
SPECIFICATION ServersSpec
INVARIANT GaugeSane
CHECK_DEADLOCK FALSE
