SPECIFICATION Spec
CONSTANTS
    a = a
    b = b
    p1 = p1
    p2 = p2
    p3 = p3
    Sessions = {a, b}
    Start = a
    Prompts = {p1, p2, p3}
    Asker <- TwoAndOne
    MaxCards = 6
    MaxSwitches = 2
    MaxGaps = 1
    MaxDisconnects = 1
    MaxAborts = 1
CHECK_DEADLOCK FALSE
INVARIANT OneResponsePerDelivery
INVARIANT CardsAreOfTheHistory
INVARIANT LonePromptsAreKept
