SPECIFICATION Spec
CONSTANTS
    Slots = {1, 2}
    Patterns = {p1, p2, p3}
    Handles = {h1, h2, h3, h4}
    NoHandle = NoHandle
    NoPattern = NoPattern
    Walks = {w1, w2, w3}
    MaxClock = 5
SYMMETRY Symmetry
INVARIANTS HandleValid PinsHeld
CHECK_DEADLOCK FALSE
