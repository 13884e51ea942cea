SPECIFICATION Spec
CONSTANTS
  Threads = {main, t1}
  Main = main
  Nobody = nobody
  Addresses = {a1, a2}
  Maximum = 2
  Values = {"stored"}
  Liberties = {}
  MaxDepth = 2
INVARIANTS
  TypeOK
  AccessCurrent
  RecordsKept
PROPERTIES
  ImplementsWasmMemory
SYMMETRY Anywhere
CHECK_DEADLOCK FALSE
