SPECIFICATION MemorySpec
CONSTANTS
  Word <- ScaledWord
  PageSize <- ScaledPage
  DefaultMax <- ScaledMax
  Declared <- SmallDeclared
  Deltas <- SmallDeltas
  Funcs = {f1, f2}
  MaxDepth = 3
  MaxMoves = 3
INVARIANTS
  MemoryTypeOK
  BaseCurrent
  BlockHoldsPages
PROPERTIES
  ImplementsWasmMemory
