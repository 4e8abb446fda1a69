SPECIFICATION Spec
CONSTANTS
    Requests = {r1, r2}
    Bot = Bot
    Nobody = Nobody
    Conns = 2
INVARIANTS LocksReleased
PROPERTIES WorkEnds ServerStops
