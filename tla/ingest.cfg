\* Snapshots late, twice and out of order, and a save loaded between them.
SPECIFICATION Spec
CONSTANTS
    Part <- MCPart
    Save <- MCSave
    Kind <- SomeKinds
    Skew <- NearClock
    Tolerance = 2
    Interval = 2
    Capacity = 2
    Start = 1
    MaxTime = 4
    MaxArrivals = 3
    MaxLoads = 1
INVARIANTS TypeOK OutageIsTold LoadsStayApart RowsKeepCadence
PROPERTY NewerStays
CHECK_DEADLOCK FALSE
