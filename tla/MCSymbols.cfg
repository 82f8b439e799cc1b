SPECIFICATION Spec
CONSTANTS
  foo = foo
  start = start
  HERE = HERE
  NONE = NONE
  MaxLines = 4
  MaxLinesOfPasses = 3
  Labels <- MCLabels
  SpecialLabels <- MCSpecial
  BackendLabels = {}
  Programs <- MCPrograms
  Sections = {2, 4}
  DefaultSection = 2
  FirstFreeSegment = 6
  ShortLen = 2
  NearLen = 3
  MinDisp <- MCMinDisp
  MaxDisp = 3
  MinLen = 2
  MaxLen = 3
  ReferLen = 4
  LimitStalled = 2
  LimitPasses = 100
  HugeCount = 1000
  LateIsError = FALSE
  PhaseIsError = TRUE
INVARIANTS
  SymdefsAgree
  LabelsMarkTheirPlace
  ReferencedExternsAreKept
  ReferencesAgree
CHECK_DEADLOCK FALSE
