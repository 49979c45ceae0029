CONSTANTS
    i1 = i1
    i2 = i2
    i3 = i3
    w1 = w1
    t1 = t1
    s1 = s1
    s2 = s2
    k1 = k1
    k2 = k2
    c1 = c1
    c2 = c2
    InstanceId <- MCInstances2
    WorkspaceId = {w1}
    SessionId <- MCSessions2
    Temporary = {t1}
    Key <- MCKeys
    Caller <- MCCallers
    NoResult = NoResult
    Capacity = 1
    MaxSequence = 20
    MaxAccepted = 20
    Faults = {"attach"}
    Operations = {"spawn"}
    FrameType = {"other"}
    MaxFrames = 0
    MaxCalls = 2
SPECIFICATION ManagerSpec
CHECK_DEADLOCK FALSE
INVARIANTS
    NoPiIsLost
