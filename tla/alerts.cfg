\* Two circuits of one rule and a link; an hour of three ticks with room for one event.
SPECIFICATION AlertsFairSpec
CONSTANTS
    Plain = {1, 2}
    Link = {3}
    Longest = 2
    For = 1
    Clear = 1
    Repeat = 1
    Window = 2
    MaxEvents = 1
    MaxTracked = 2
    Faults = {"write", "unsure", "restart", "rule"}
    MaxTroubles = 1
INVARIANTS AlertsTypeOK LogIsKept
PROPERTIES GapNeverCounts AlertsAreTold
CHECK_DEADLOCK FALSE
