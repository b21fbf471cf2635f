SPECIFICATION Spec
CONSTANTS
    MaxByte = 1
    PageTerms = 2
    GramLen = 2
    MaxUnits = 2
    PosBuf = 2
    BlockSize = 2
    PageBlocks = 1
    MantissaBits = 1
    PosRoom = 3
    MaxRetries = 1
    MaxMoves = 2
    HighBytes = {3, 4}
    Pattern <- MCPattern
    Starts <- MCStarts
    FoldOf <- MCFoldOf
    LowerOf <- MCLowerOf
INVARIANT QueryExact
CHECK_DEADLOCK FALSE
