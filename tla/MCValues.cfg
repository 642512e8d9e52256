SPECIFICATION ValuesSpec
CONSTANTS
  Slots = {s1, s2}
  None = None
  IdxMax = 4
  I64Max = 7
  Texts <- MCTexts
  WordBytes = 2
  Spellings <- MCSpellings
  Zones <- MCZones
  Canonical <- MCCanonical
  NoZone = NoZone
  Null = Null
  Elements = {0, 1}
  SmallHalf = 2
  WideHalf = 32
  MaxRows = 3
  IntBits = {2, 3, 4}
  LitBits = 4
  Half <- MCHalf
  MaxInts = 2
  Missing = Missing
  main = main
  elsewhere = elsewhere
  Nothing = Nothing
  NoValue = NoValue
  worker = worker
  finalizer = finalizer
  side = side
  Places <- MCPlaces
  Tasks <- MCTasks
  home <- MCHome
  MaxCalls = 2
  MaxGuards = 2
  SeriesArgs = 2
  ExprArgs = 1
  MaxArgs = 3
INVARIANTS
  SortFitsItsInput
  KeptIsAsked
  StringsSurvive
  DamageContained
  DTypesSurvive
  ReductionsAgree
  IntegersFit
  ReasonIsOwn
  DepthBalanced
  HookTellsPanicsApart
  ActiveWhileGuarded
  CallersKept
  OwnedByOneClause
  BoundIsLive
  NothingLeft
CHECK_DEADLOCK FALSE
