SPECIFICATION OptionsSpec
CONSTANTS
  Headers <- MCHeaders
  Heights = {0, 3}
  CsvHeaders <- MCHeaders
  CsvHeight = 3
  IdxMax = 3
  Offsets = {0, 2}
  MaxChosen = 2
  GroupSizes = {0, 1, 2, 4}
  Levels <- MCLevels
  Firsts = {0, 2}
  Indices <- MCIndices
  CsvFirsts = {1}
  CsvIndices = {0, 1, 2}
  MaxNames = 3
  Names = {"a", "b", "i"}
  None = None
  Free = 2
  Never = 14
  RowBytes = 2
  Deflate = 2
  Zstd = 4
  MaxBytes = 2
  Unset = Unset
  x1 = x1
  x2 = x2
  new = new
  next = next
  Installers <- MCInstallers
  Builds <- MCBuilds
  Candidate = Candidate
  MaxRuns = 2
  Partial = Partial
  Absent = Absent
INVARIANTS
  FilesAsAsked
  ReadMeansRequest
  InferenceReach
  LibraryUnharmed
  RunsEndAsAsked
CHECK_DEADLOCK FALSE
