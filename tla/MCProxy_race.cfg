CONSTANTS
  Threads = {t1, t2}
  Urls = {p, q, r}
  MaxNumCache = 2
  MaxVersion = 0
  MaxClock = 2
  Headers <- Plain
  Faults = {}
  None = None
SPECIFICATION Spec
INVARIANT SpaceIsThere
CHECK_DEADLOCK FALSE
