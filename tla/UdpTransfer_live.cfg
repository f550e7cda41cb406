CONSTANTS
  c1 = c1
  c2 = c2
  NoAddr = NoAddr
  Clients = {c1}
  NParts <- OneLong
  MAXADDR = 2
  MaxTries = 2
  PromptRecv = TRUE
SPECIFICATION FairSpec
INVARIANT OneEntryPerAddress
PROPERTY ClientTerminates
CHECK_DEADLOCK FALSE
