SPECIFICATION Spec
CONSTANTS
  Null = Null
  Junk = Junk
  None = None
  MaxRows = 3
  MaxCells = 4
  MaxCols = 2
  UsizeMax = 7
  Resumes = FALSE
INVARIANTS RightRow NextReadable BuffersFit MatrixWhole
CHECK_DEADLOCK FALSE
