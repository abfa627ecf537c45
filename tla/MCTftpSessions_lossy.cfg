CONSTANTS
  RetryLimit = 3
  BlockMod = 4
  NumBlocks = 5
  Lifetime = 3
  Faults = {"lossToClient", "lossToServer"}
  WriteFaults = {"lossToClient", "lossToServer", "repeat"}
SPECIFICATION SessionsSpec
INVARIANT NoWrongAccusation
PROPERTY SurvivesLosses
CHECK_DEADLOCK FALSE
