SPECIFICATION Spec
CONSTANTS
    Base = 16
    LenSize = 2
    MaxEntry = 17
    MaxDepth = 4
    STR = 6
    STRLONG = 8
    LIST = 10
    LISTLONG = 14
    Word = 2
    Usize = 256
    MinTx = 2
    None = None
    PrefixSizes <- MCPrefixSizes
    Bodies <- MCBodies
    Pieces <- MCPieces
    Samples = {0, 1, 3}
    Permilles <- MCPermilles
    MaxBytes = 21
    MaxPieces = 3
    MaxSamples = 20
    LastYear = 2401
INVARIANTS SignedTxsExact SplitExact RanksRight DateRight
CHECK_DEADLOCK FALSE
