SPECIFICATION Spec
CONSTANTS
    Users = {u1}
    Chats = {c1, c2}
    None = None
    Apps = {}
    Commands <- LinkCommands
    Joiners = {u1}
    AppChanges <- NoChanges
    Grades = {}
    MaxTokens = 2
    MaxThreads = 0
    MaxQueue = 2
    MaxFaults = 1
SYMMETRY Symmetry
INVARIANTS ConsentFirst TokenUsedOnce FlagMatchesChat
