CONSTANTS
    a = a
    b = b
    Sessions = {a, b}
    NoOwner = NoOwner
    MaxConnections = 2
    MaxUpdates = 1
    Albums <- NoUpdates
    Commands <- NoUpdates
    MaxFailures = 0
    MaxCrashes = 1
    MaxDisconnects = 1
    AgentsAnswer = FALSE
    MaxLocalTurns = 0
SPECIFICATION FairSpec
CHECK_DEADLOCK FALSE
PROPERTIES
    EvictedStandsDown
