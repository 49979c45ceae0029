CONSTANTS
    a = a
    b = b
    Sessions = {a}
    NoOwner = NoOwner
    MaxConnections = 1
    MaxUpdates = 2
    Albums <- FirstUpdate
    Commands <- NoUpdates
    MaxFailures = 0
    MaxCrashes = 0
    MaxDisconnects = 0
    AgentsAnswer = TRUE
    MaxLocalTurns = 0
SPECIFICATION Spec
CHECK_DEADLOCK FALSE
INVARIANTS
    SharedIdsPassOverNothing
