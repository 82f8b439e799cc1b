SPECIFICATION MCSpec
CONSTANTS
    INSN_MAX = 3
    Inputs <- MCInputs
    SYNC_INITIAL_CHUNK = 8
    MaxPoints = 8
    Width <- MCWidth
    RegOrder <- MCRegOrder
    Templates <- MCInsns
    Lines <- MCLines
    Origin = 100
INVARIANTS
    
    
    AddressesSurvive
    InstructionsSurvive
PROPERTY
    EveryFileEnds
CHECK_DEADLOCK FALSE
