SPECIFICATION FairSpec
CONSTANTS
    Process = {p1, p2}
    Discord = {"hookA"}
    Push = {"push1"}
    MaxRow = 2
    TargetOf <- OneHook
    ServerOf <- Servers
    Lease = 3
    Budget = 1
    Batch = 2
    MaxCall = 1
    MaxRelease = 1
    Base = 1
    MaxDelay = 2
    Recheck = 2
    DeadAfter = 2
    Asked = {2}
    Answers = {"sent", "timeout", "limited", "gone", "unreadable", "rejected"}
    MaxFaults = 1
    MaxSaves = 1
INVARIANT RepeatsOnlyLosses
PROPERTY RowsSettle
CHECK_DEADLOCK FALSE
