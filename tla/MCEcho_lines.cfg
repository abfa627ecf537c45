CONSTANTS
  any = any
  silent1 = silent1
  silent2 = silent2
  Clients <- MCClients
  LF = "LF"
  NUL = "NUL"
  Chars <- MCChars
  Texts <- MCTexts
  BUFFER_SIZE = 3
  MaxFds = 2
  MaxProcs = 1
  Faults = {"kill", "stop"}
SPECIFICATION Spec
INVARIANTS TypeOK NothingIsLost ReplyIsTheLine NoMutualWait
PROPERTIES ClientEnds ChildEnds
CHECK_DEADLOCK FALSE
