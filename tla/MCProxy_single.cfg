CONSTANTS
  Threads = {t1}
  Urls = {p, q, r}
  MaxNumCache = 2
  MaxVersion = 1
  MaxClock = 2
  Headers <- Various
  Faults = {"unknownHost", "noConnection", "clientGone", "cut", "says304"}
  None = None
SPECIFICATION Spec
SYMMETRY Symmetry
INVARIANTS StaysInArray EntriesMatch AskedIsAnswered
PROPERTY ImplementsLru
CHECK_DEADLOCK FALSE
