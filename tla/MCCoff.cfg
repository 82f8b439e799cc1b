SPECIFICATION Spec
CONSTANTS
    Text = ".text"
    Bss = ".bss"
    NONE = "NONE"
    PLACEHOLDER = "?"
    NO_SEG <- MCNoSegment
    Externs <- MCExterns
    Directives <- MCSections
    Exports = {}
    Handlers = {}
    Settings = {"coff", "win32", "win64"}
    Definitions <- MCDefinitions
    References <- MCReferences
    ASSOCIATIVE = 5
    MAX_RELOC = 2
    MaxSections = 2
    MaxSyms = 2
    MaxBytes = 8
    MaxHandlers = 0
INVARIANT LocalsStayLocal
CHECK_DEADLOCK FALSE
