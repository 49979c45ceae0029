CONSTANTS
    t1 = t1
    t2 = t2
    Tasks = {t1, t2}
    Early <- OneEarly
    Unrouted = {t2}
    MaxClicks = 2
    MaxApprovals = 1
    MaxReads = 1
    MaxIncidents = 1
SPECIFICATION FairSpec
CHECK_DEADLOCK FALSE
INVARIANTS
    BreadcrumbBeforePrompt
    SessionsAreTheirTasks
PROPERTIES
    PanelShowsTheFile
