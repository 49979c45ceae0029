CONSTANTS
    a = a
    b = b
    Sessions = {a}
    NoOwner = NoOwner
    MaxConnections = 2
    MaxUpdates = 2
    Albums <- SecondUpdate
    Commands <- NoUpdates
    MaxFailures = 0
    MaxCrashes = 0
    MaxDisconnects = 1
    AgentsAnswer = TRUE
    MaxLocalTurns = 1
SPECIFICATION Spec
CHECK_DEADLOCK FALSE
INVARIANTS
    OneJobPerUpdate
    NothingIsPassedOver
