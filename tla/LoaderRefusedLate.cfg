SPECIFICATION Spec
CONSTANTS
  HostFunctions = {h1}
  HostTables = {}
  HostMemories = {x1}
  HostGlobals = {g1}
  TableSize = 1
  Shapes <- RefusedLate
  MaxOwn = 1
  MaxItems = 3
INVARIANTS
  NoFault
CHECK_DEADLOCK FALSE
