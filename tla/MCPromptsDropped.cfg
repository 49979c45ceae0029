SPECIFICATION Spec
CONSTANTS
    a = a
    b = b
    p1 = p1
    p2 = p2
    p3 = p3
    Sessions = {a, b}
    Start = a
    Prompts = {p1, p2, p3}
    Asker <- TwoAndOne
    MaxCards = 6
    MaxSwitches = 2
    MaxGaps = 0
    MaxDisconnects = 0
    MaxAborts = 0
CHECK_DEADLOCK FALSE
INVARIANT BackgroundPromptsAreQueued
