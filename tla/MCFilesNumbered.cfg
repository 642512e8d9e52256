SPECIFICATION OptionsSpec
CONSTANTS
  Headers <- MCHeaders
  Heights = {2}
  CsvHeaders <- MCHeaders
  CsvHeight = 1
  IdxMax = 3
  Offsets = {2}
  MaxChosen = 1
  GroupSizes = {0}
  Levels <- MCLevels
  Firsts = {0}
  Indices <- MCIndices
  CsvFirsts = {1}
  CsvIndices = {0, 1, 2}
  MaxNames = 3
  Names = {"a", "b", "i"}
  None = None
  Free = 0
  Never = 2
  RowBytes = 2
  Deflate = 2
  Zstd = 4
  MaxBytes = 0
  Unset = Unset
  x1 = x1
  x2 = x2
  new = new
  next = next
  Installers <- MCInstallers
  Builds <- MCBuilds
  Candidate = Candidate
  MaxRuns = 1
  Partial = Partial
  Absent = Absent
INVARIANT
  IndexesThatFitAreGiven
CHECK_DEADLOCK FALSE
