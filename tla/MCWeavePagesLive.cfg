SPECIFICATION RestartSpec
CONSTANTS
    MaxBlocks = 2
    Backends = {b1, b2}
    Scans = {}
    NoBackend = NoBackend
    MaxSegments = 1
PROPERTIES StrandedReturns SessionEnds
CHECK_DEADLOCK FALSE
