SPECIFICATION Spec
CONSTANTS
    Command = {1, 2}
    None = None
    CommandTtl = 1
    MaxOpen = 2
    Retention = 0
    MaxLifetime = 3
    LedgerMax = 2
    ResultAttempts = 1
    Skews <- SlowOrRight
    MaxTime = 1
    MaxRestarts = 1
    MaxSetBacks = 1
    MaxEnrolments = 0
    MaxRuns = 2
INVARIANTS RunsWithinForgetting NothingWaitsOnLocal ConfirmedNotUndone
PROPERTY KeepsPromise
