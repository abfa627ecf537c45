CONSTANTS
  Conns = {c1, c2, c3}
  Names = {ann, bob, cyd}
  MaxClient = 2
  MaxSays = 1
  Faults = {"close", "reset"}
  None = None
SPECIFICATION Spec
SYMMETRY Symmetry
INVARIANT Consistent
PROPERTY ImplementsRoom
CHECK_DEADLOCK FALSE
