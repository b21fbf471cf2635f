SPECIFICATION LiveSpec
CONSTANTS
    Tids = {t1}
    Backends = {b1, b2}
    NoBackend = NoBackend
    NoTid = NoTid
    NullFlags = {FALSE}
    MaxSegments = 2
    GenMod = 2
    MaxBolts = 2
    MaxInc = 3
PROPERTIES MutexGranted DeadRowReclaimed
