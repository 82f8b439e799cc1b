SPECIFICATION MCSpec
CONSTANTS
    INSN_MAX = 3
    Inputs <- OneInput
    SYNC_INITIAL_CHUNK = 8
    MaxPoints = 8
    Width <- MCWidth
    RegOrder <- MCRegOrder
    Templates <- MCInsns
    Lines <- MCLines
    Origin = 100
INVARIANT
    VexIsShown
CHECK_DEADLOCK FALSE
