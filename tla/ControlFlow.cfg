SPECIFICATION Spec
CONSTANTS
  Values <- TwoValues
  ParamTypes <- None
  VarTypes <- OneI32
  SavedRegs = 1
  Scratch = 2
  FirstSaved = 3
  FrameWords = 10
  BlockTypes <- SomeTypes
  ResultType = "i32"
  Callees <- OneCallee
  Shapes <- NoShapes
  MaxStack = 2
  MaxBlocks = 2
INVARIANTS
  TypeOK
  EnclosingSaved
  FollowsWasm
CHECK_DEADLOCK FALSE
