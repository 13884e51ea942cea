SPECIFICATION Spec
CONSTANTS
  HostFunctions = {h1, h2}
  HostTables = {t1}
  HostMemories = {x1}
  HostGlobals = {g1}
  TableSize = 2
  Shapes <- Plain
  MaxOwn = 2
  MaxItems = 4
INVARIANTS
  TypeOK
  CallsReachCode
  GlobalsInPlace
  NoFault
  HeapExact
SYMMETRY HostsAlike
CHECK_DEADLOCK FALSE
