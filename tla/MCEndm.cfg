SPECIFICATION Spec
CONSTANTS
    Programs <- MCEndm
    Main = "main"
    LIMIT_MACRO_LEVELS = 3
    LIMIT_MMACROS = 20
    ConditionLines = 5
    LoopLines = 5
    MacroLines = 5
    IncludeLines = 3
    AnyTextLines = 4
INVARIANT
    DefinitionsEndInside
CHECK_DEADLOCK FALSE
