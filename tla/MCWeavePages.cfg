SPECIFICATION Spec
CONSTANTS
    MaxBlocks = 3
    Backends = {b1, b2}
    Scans = {s1}
    NoBackend = NoBackend
    MaxSegments = 2
SYMMETRY Symmetry
INVARIANTS NoPageStolen ScanUndisturbed
