CONSTANTS
  Threads = {t1}
  Urls = {p, q, r}
  MaxNumCache = 2
  MaxVersion = 0
  MaxClock = 2
  Headers <- Plain
  Faults = {}
  None = None
SPECIFICATION Spec
INVARIANT AnswerIsOfTarget
CHECK_DEADLOCK FALSE
