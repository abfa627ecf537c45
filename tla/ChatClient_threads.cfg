CONSTANTS
  IDLE_WAIT_TIME = 1
  MaxLines = 2
  MaxTold = 1
SPECIFICATION Spec
INVARIANTS OneIdlePerLine EndOfInputIsLast
PROPERTIES  SilenceIsAnnounced
CHECK_DEADLOCK FALSE
