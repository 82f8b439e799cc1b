SPECIFICATION Spec
CONSTANTS
    ElfSections = {".text", ".data", ".bss"}
    MaxSyms = 2
    MaxBytes = 8
    MAX_RELOC = 2
    MaxSections = 3
    MaxHandlers = 1
    BinSections = {".text", ".bss", "a", "b"}
    MaxDirectives = 2
    MaxOuts = 2
    RECORD_MAX = 13
    WORD_MAX = 12
    Lengths = {1, 2, 5}
    Offsets = {3, 20}
    MaxCalls = 4
    SegNames = {"s", "t"}
    GroupNames = {"g", "FLAT"}
    ExtNames = {"e"}
    MaxNamings = 4
    MaxRefs = 1
INVARIANTS
    LinksAsAssembled
    ObjectIsWellFormed
    ImageIsFaithful
    
    NamesAreResolved
CHECK_DEADLOCK FALSE
