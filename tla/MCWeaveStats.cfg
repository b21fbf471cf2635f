SPECIFICATION StatsSpec
CONSTANTS
    Tids = {t1, t2}
    Backends = {b1, b2}
    NoBackend = NoBackend
    NoTid = NoTid
    NullFlags = {FALSE}
    MaxSegments = 2
    GenMod = 2
    MaxBolts = 2
    MaxInc = 2
SYMMETRY Symmetry
INVARIANTS NoRowLost NoStaleEntry NoRowTwice MergeInputsStay SwapHitsItsBolt PendingCounted CorpusCounted
PROPERTIES GenerationMoves ImplementsContents
