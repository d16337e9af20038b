SPECIFICATION FairSpec
CONSTANTS
    Command = {1, 2}
    None = None
    CommandTtl = 1
    MaxOpen = 1
    Retention = 1
    MaxLifetime = 3
    LedgerMax = 1
    ResultAttempts = 2
    Skews <- SlowClock
    MaxTime = 2
    MaxRestarts = 0
    MaxSetBacks = 0
    MaxEnrolments = 1
    MaxRuns = 1
INVARIANT OpenWithinCap
PROPERTY CommandsEnd
