CONSTANTS
    r1 = r1
    r2 = r2
    m1 = m1
    Request <- MCRequests
    Notice <- MCNotices
    OutboundCap = 1
    IncomingCap = 1
    FramesCap = 1
    StdinCap = 1
    MaxEvents = 2
SPECIFICATION Spec
CHECK_DEADLOCK FALSE
INVARIANTS
    NoDeadEntry
    StrayAnswersAreLate
    EventsKeepOrder
PROPERTIES
    PromiseKept
    ClosedBridgeDrains
