\* One process after another; a load and a write may fail.
SPECIFICATION RowLiveSpec
CONSTANTS
    Part <- MCPart
    Arrival <- MCArrival
    Oversized <- MCOversized
    Instance = {i1}
    MaxClock = 3
    MaxBoots = 2
    MaxFails = 1
INVARIANT RowTypeOK
PROPERTIES RowNeverGoesBack StopSaves RowCatchesUp
CHECK_DEADLOCK FALSE
