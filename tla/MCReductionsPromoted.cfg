SPECIFICATION ReductionsSpec
CONSTANTS
  Null = Null
  Elements = {0, 1}
  SmallHalf = 2
  WideHalf = 32
  MaxRows = 3
INVARIANT SumsKeepDType
CHECK_DEADLOCK FALSE
