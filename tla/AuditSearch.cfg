SPECIFICATION SearchSpec
CONSTANTS
    Writers = {s, w1}
    Searcher = s
    NoWriter = NoWriter
    Events = {"received", "validated", "delivered", "denied"}
    Others = {"received"}
    MaxId = 4
    MaxClock = 8
    Filters <- MCFilters
    PageSizes = {1, 2}
    MaxLimit = 2
INVARIANTS PagesComplete
CHECK_DEADLOCK FALSE
