CONSTANTS
  RetryLimit = 3
  BlockMod = 4
  NumBlocks = 5
  Lifetime = 3
  Faults = {"late", "stray", "quit", "socket"}
SPECIFICATION Spec
INVARIANTS InOrder NoFalseSuccess Lockstep Inductive
PROPERTIES Terminates ImplementsTransfer
CHECK_DEADLOCK FALSE
