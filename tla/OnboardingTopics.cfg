SPECIFICATION Spec
CONSTANTS
    Users = {u1}
    Chats = {c1}
    None = None
    Apps = {1, 3}
    Commands <- TopicCommands
    Joiners = {}
    AppChanges <- TopicChanges
    Grades = {1}
    MaxTokens = 1
    MaxThreads = 2
    MaxQueue = 1
    MaxFaults = 1
INVARIANTS TopicOfItsApp OneTopicPerApp Provisioned
