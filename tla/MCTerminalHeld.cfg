CONSTANTS
    t1 = t1
    t2 = t2
    p1 = p1
    c1 = c1
    c2 = c2
    TerminalId <- MCTerminals1
    Partition <- MCPartitions1
    TabQuota = 2
    GlobalQuota = 1
    MaxGeneration = 2
    Caller <- MCCallers
    Operations = {"create", "close"}
    PtyEnds = {"hold"}
    MaxChunks = 0
    MaxCalls = 2
SPECIFICATION FairManagerSpec
CHECK_DEADLOCK FALSE
PROPERTY DeadShellsAreNoticed
