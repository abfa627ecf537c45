CONSTANTS
  Sessions = {a, b}
  Texts <- ShortTexts
  BufLen = 2
  LastSecond = 1
  NoFile = NoFile
SPECIFICATION Spec
SYMMETRY Symmetry
INVARIANTS ConvertedSoFar SeparateSecondsAreSafe LeftoversAreFailures
CHECK_DEADLOCK FALSE
