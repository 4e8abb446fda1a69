SPECIFICATION TamperSpec
CONSTANTS
    Writers = {w1, w2}
    NoWriter = NoWriter
    Events = {e1, e2}
    MaxId = 3
    MaxClock = 4
SYMMETRY Symmetry
INVARIANTS TamperDetected

