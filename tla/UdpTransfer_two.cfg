CONSTANTS
  c1 = c1
  c2 = c2
  NoAddr = NoAddr
  Clients = {c1, c2}
  NParts <- TwoAndOne
  MAXADDR = 1
  MaxTries = 1
  PromptRecv = FALSE
SPECIFICATION Spec
INVARIANTS TypeOK ConfirmedIsPrinted
PROPERTY ImplementsFileTransfer
CHECK_DEADLOCK FALSE
