SPECIFICATION FairSpec
CONSTANTS
    Instance = {i1, i2}
    None = None
    MaxFaults = 2
INVARIANT OneLeader
PROPERTY SomeoneLeads
CHECK_DEADLOCK FALSE
