SPECIFICATION Spec
CONSTANTS
    InitialK = 1
    WidthFloor = 1
    Factor = 2
    WidthMax = 4
    ProbeMin = 1
    SearchCap = 4
    INF = 90
    MaxMoves = 2
    MaxRescans = 1
    Starts <- MCStarts
INVARIANTS RankOrdered RankComplete HitsBounded
CHECK_DEADLOCK FALSE
