SPECIFICATION Spec
CONSTANTS
    Handlers = {h1, h2}
    IPs = {i1, i2}
    Second = 2
    TTL = 2
    Unit = 2
    Limit = 3
    Rate = 1
    Threshold = 2
    Delay = 1
    Decay = 2
    MaxCookies = 2
    MaxRestarts = 1
    Start = 1
    MaxTime = 4
SYMMETRY Symmetry
INVARIANTS AttemptsWithinRate GuessesBounded
PROPERTIES LogoutSticks
