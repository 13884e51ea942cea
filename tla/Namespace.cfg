SPECIFICATION Spec
CONSTANTS
  Names = {n1, n2}
  Hosts = {h1, h2}
  States = {s1, s2}
  Liberties <- Careful
  MaxCalls = 5
INVARIANTS
  TypeOK
  NamesUnique
  OneOwner
  NoFault
PROPERTIES
  ImplementsRegistry
  DeleteEnds
CHECK_DEADLOCK FALSE
