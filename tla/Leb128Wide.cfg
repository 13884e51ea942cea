SPECIFICATION Spec
CONSTANTS
  Group = 2
  IntBits = 7
  LongBits = 13
  Shapes = {"wide negative"}
INVARIANTS
  ReadsNumber
CHECK_DEADLOCK FALSE
