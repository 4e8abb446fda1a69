SPECIFICATION FairSpec
CONSTANTS
    Reqs = {m1}
    Inputs <- MCInputs
    Registries <- MCRegistries
    MaxChanges = 2
INVARIANTS NothingSilent FailClosed AtMostOnce DeliveredIsTrue ResponseComplete
    QualifiedDuringRequest
PROPERTIES Answered
CHECK_DEADLOCK FALSE
