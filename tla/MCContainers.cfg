SPECIFICATION Spec
CONSTANTS
    TreeKeys = {1, 2, 3, 4, 5}
    MaxNodes = 7
    Indices = {0, 1, 2, 3, 4, 5, 7, 8, 15, 16}
    Values = {1, 2}
    MaxWrites = 4
    elem_len = 2
    BLKLEN = 3
    Data <- Strings
    Positions = {0, 2, 3, 6}
    Lengths = {2, 3}
    MaxLength = 6
    Keys = {k1, k2, k3, k4, k5}
    Lows = {0, 4, 8}
    Highs = {0, 2}
    HASH_INIT_SIZE = 4
INVARIANTS
    TreeIsOrdered
    ReadsWhatWasWritten
    NoBlockAhead
    HashIsAMap
PROPERTY
    ImplementsTheArray
CHECK_DEADLOCK FALSE
