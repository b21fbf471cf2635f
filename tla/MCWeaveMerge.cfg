SPECIFICATION Spec
CONSTANTS
    MaxSegments = 4
    Fanout = 3
    Threshold = 2
    MaxLevels = 2
    MaxPairs = 2
    Request = 2
    Geometries = {"g1", "g2"}
    Jobs = {"segments", "all", "parallel", "build"}
    Directories <- MCDirectories
    Arrivals <- MCArrivals
    MaxArrivals = 1
INVARIANTS FreedOnce DocsKept WeftsCover Converged RoomMade
PROPERTY MergeEnds
