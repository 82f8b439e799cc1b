SPECIFICATION Spec
CONSTANTS
  count = count
  low = low
  high = high
  HERE = HERE
  NONE = NONE
  MaxLines = 4
  JumpLines = 6
  SymbolLines = 3
  Labels <- MCLabels
  SpecialLabels = {}
  BackendLabels = {}
  Programs <- MCPrograms
  Sections = {2, 4}
  DefaultSection = 2
  FirstFreeSegment = 6
  ShortLen = 2
  NearLen = 5
  MinDisp <- MCMinDisp
  MaxDisp = 5
  MinLen = 2
  MaxLen = 6
  ReferLen = 4
  LimitStalled = 2
  LimitPasses = 1000
  HugeCount = 1000
  LateIsError = TRUE
  PhaseIsError = FALSE
INVARIANTS
  TypeOK
  EquatesAreCurrent
  NoPhaseErrors
  PassesAreBounded
  ShortJumpsReach
  FirstPassSettles
PROPERTIES
  AssemblyEnds
  OutputContractKept
CHECK_DEADLOCK FALSE
