SPECIFICATION Spec
CONSTANTS
  Values <- TwoValues
  Binop <- AndNot
  ParamTypes <- OneI32
  VarTypes <- OneI32
  ResultTypes <- OneI32
  Callees <- SomeCallees
  SavedRegs = 1
  Scratch = 2
  FirstSaved = 3
  MaxStack = 3
  FrameWords = 10
  Instructions <- All
  Shapes <- NoShapes
INVARIANTS
  TypeOK
  OneHolder
  FlagsOnTop
  PlacesApart
PROPERTIES
  ImplementsWasmStack
CHECK_DEADLOCK FALSE
