SPECIFICATION Spec
CONSTANTS
  Refs = {0, 1}
  Code <- Functions
  Bodies <- Hosted
  PtrSize = 2
  Layout <- Small
  ByteRange = 2
  Numbers = {0, 3}
  MaxDepth = 2
INVARIANTS
  TypeOK
PROPERTIES
  ImplementsWasmTables
CHECK_DEADLOCK FALSE
