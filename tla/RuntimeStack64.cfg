SPECIFICATION Spec
CONSTANTS
  PtrSize = 8
  MaxVals = 3
  MaxFrames = 3
  MaxGap = 4
INVARIANTS
  TypeOK
  ReadWhereWritten
  NaturallyAligned
  CallersUntouched
  SlotsDisjoint
