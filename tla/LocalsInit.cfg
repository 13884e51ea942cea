SPECIFICATION ScanSpec
CONSTANTS
  Params = {p}
  Vars = {v}
  MaxBlocks = 3
INVARIANTS
  ScanTypeOK
  ReadsZeroed
