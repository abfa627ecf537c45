CONSTANTS
  RetryLimit = 3
  BlockMod = 4
  NumBlocks = 5
  Lifetime = 3
  Faults = {"late", "stray", "quit", "resend", "repeat", "socket"}
SPECIFICATION Spec
INVARIANTS InOrder AckedIsStored Lockstep Inductive
PROPERTIES Terminates ImplementsTransfer
CHECK_DEADLOCK FALSE
