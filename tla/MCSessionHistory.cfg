SPECIFICATION Spec
CONSTANTS
    a = a
    b = b
    c = c
    Sessions = {a, b, c}
    Start = a
    Error = Error
    Before <- OneBefore
    MaxEvents <- OneMore
    MaxSwitches = 1
    MaxIncidents = 1
CHECK_DEADLOCK FALSE
INVARIANT HistoryAndTargetChangeTogether
