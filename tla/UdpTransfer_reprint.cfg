CONSTANTS
  c1 = c1
  c2 = c2
  NoAddr = NoAddr
  Clients = {c1}
  NParts <- OneShort
  MAXADDR = 2
  MaxTries = 5
  PromptRecv = TRUE
SPECIFICATION Spec
INVARIANT PrintedOnce
CHECK_DEADLOCK FALSE
