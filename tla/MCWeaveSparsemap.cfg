SPECIFICATION Spec
CONSTANTS
    BitsPerVector = 2
    VectorsPerChunk = 2
    SmallMaxWords = 1
    RleMax = 100
    MaxIndex = 8
    Capacities = {6}
    GrowMin = 10
    MaxWords = 20
    Batches <- MCBatches
    Ranges <- MCRanges
    Operands <- MCOperands
INVARIANT Valid
INVARIANT AnswersExact
INVARIANT CursorExact
PROPERTY ImplementsSet
