CONSTANTS
    t1 = t1
    t2 = t2
    p1 = p1
    c1 = c1
    c2 = c2
    TerminalId <- MCTerminals2
    Partition <- MCPartitions1
    TabQuota = 2
    GlobalQuota = 1
    MaxGeneration = 3
    Caller <- MCCallers
    Operations = {"create", "restart", "close", "kill_all"}
    PtyEnds = {"mute", "hold"}
    MaxChunks = 1
    MaxCalls = 3
SPECIFICATION FairManagerSpec
CHECK_DEADLOCK FALSE
INVARIANTS
    NoPtyOutlivesItsTab
    EveryPtyIsOwned
    QuotaBoundsProcesses
    RunningTabsAreLive
    GenerationsAreAllocated
    RunningWithinQuota
PROPERTIES
    StaleHandlesStayStale
    NoLateOutput
    ExitsAreNoticed
    ClosingEnds
