CONSTANTS
    a = a
    b = b
    Sessions = {a, b}
    NoOwner = NoOwner
    MaxConnections = 2
    MaxUpdates = 2
    Albums <- NoUpdates
    Commands <- SecondUpdate
    MaxFailures = 1
    MaxCrashes = 1
    MaxDisconnects = 1
    AgentsAnswer = FALSE
    MaxLocalTurns = 0
SPECIFICATION Spec
SYMMETRY SymmetricSessions
CHECK_DEADLOCK FALSE
INVARIANTS
    HandoverWithoutGap
    StraysAreOnTheirWay
