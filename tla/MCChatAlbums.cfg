CONSTANTS
    a = a
    b = b
    Sessions = {a, b}
    NoOwner = NoOwner
    MaxConnections = 2
    MaxUpdates = 2
    Albums <- SecondUpdate
    Commands <- NoUpdates
    MaxFailures = 0
    MaxCrashes = 0
    MaxDisconnects = 0
    AgentsAnswer = FALSE
    MaxLocalTurns = 0
SPECIFICATION Spec
SYMMETRY SymmetricSessions
CHECK_DEADLOCK FALSE
INVARIANTS
    AlbumsSurviveHandover
