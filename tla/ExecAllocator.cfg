SPECIFICATION HeapSpec
CONSTANTS
  Chunks = {c1, c2, c3}
  HeaderSize = 16
  Requests = {20, 20000, 45000}
  MaxHeld = 3
INVARIANTS
  HeapTypeOK
  BlocksApart
  Coalesced
SYMMETRY Anyone
CHECK_DEADLOCK FALSE
