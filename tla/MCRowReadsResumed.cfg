SPECIFICATION Spec
CONSTANTS
  Null = Null
  Junk = Junk
  None = None
  MaxRows = 3
  MaxCells = 4
  MaxCols = 2
  UsizeMax = 7
  Resumes = TRUE
INVARIANT RightRow
CHECK_DEADLOCK FALSE
