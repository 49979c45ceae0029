CONSTANTS
    t1 = t1
    t2 = t2
    Tasks = {t1, t2}
    Early <- BothEarly
    Unrouted = {}
    MaxClicks = 2
    MaxApprovals = 1
    MaxReads = 1
    MaxIncidents = 0
SPECIFICATION Spec
CHECK_DEADLOCK FALSE
INVARIANTS
    OnlyApprovedTasksAreDispatched
