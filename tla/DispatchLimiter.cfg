SPECIFICATION Spec
CONSTANTS
    Senders = {s1, s2}
    Chats = {c1, c2}
    Unit = 2
    gRate = 3
    gBurst = 5
    pRate = 1
    pBurst = 4
    MaxTime = 4
SYMMETRY Symmetry
INVARIANTS WithinRate
