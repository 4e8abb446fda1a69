SPECIFICATION Spec
CONSTANTS
    Writers = {w1, w2, w3}
    NoWriter = NoWriter
    Events = {e1}
    MaxId = 4
    MaxClock = 4
SYMMETRY Symmetry
INVARIANTS ChainLinked NoFalseBreak OkIsComplete OkIsDurable
PROPERTY ImplementsLog

