SPECIFICATION LiveSpec
CONSTANTS
    Tx = {t1, t2}
    Pairing = {p1}
    MaxCodes = 2
    MaxBegun = 4
    MaxSlow = 1
INVARIANTS SingleUse OldCodesAreDead NoDeadlock
PROPERTY ApprovedIsCollected
CHECK_DEADLOCK FALSE
