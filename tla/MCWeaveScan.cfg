SPECIFICATION ScanSpec
CONSTANTS
    Tids = {t1}
    Backends = {b1}
    NoBackend = NoBackend
    NoTid = NoTid
    NullFlags = {FALSE, TRUE}
    MaxSegments = 2
    GenMod = 3
    MaxBolts = 1
    MaxInc = 2
    MaxRetries = 1
    Passes = {"lexical", "docvals", "ranked", "vector", "cgram", "count"}
INVARIANTS ScanExact NonzeroCountExact StoreAlarmTrue
