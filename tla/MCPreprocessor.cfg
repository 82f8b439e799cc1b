SPECIFICATION Spec
CONSTANTS
    Programs <- MCPrograms
    Main = "main"
    LIMIT_MACRO_LEVELS = 3
    LIMIT_MMACROS = 20
    ConditionLines = 7
    LoopLines = 7
    MacroLines = 6
    IncludeLines = 3
    AnyTextLines = 4
INVARIANTS
    OutputIsTheMeaning
    NestedTextIsAccepted
    InnermostEnds
PROPERTY
    ProcessingEnds
CHECK_DEADLOCK FALSE
