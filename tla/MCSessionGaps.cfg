SPECIFICATION FairSpec
CONSTANTS
    a = a
    b = b
    c = c
    Sessions = {a, b, c}
    Start = a
    Error = Error
    Before <- OneBefore
    MaxEvents <- TwoMore
    MaxSwitches = 0
    MaxIncidents = 1
CHECK_DEADLOCK FALSE
PROPERTY GapsAreRepaired
