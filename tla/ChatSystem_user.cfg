CONSTANTS
  Conns = {c1, c2}
  user = c1
  user_name = ann
  Names = {ann, bob}
  MaxClient = 2
  MaxSays = 3
  Faults = {"close", "reset"}
  None = None
  IDLE_WAIT_TIME = 1
  MaxLines = 1
  MaxTold = 3
SPECIFICATION SystemSpec
INVARIANT HeardInOrder
PROPERTIES HeardInTheEnd EveryoneIsServed
CHECK_DEADLOCK FALSE
