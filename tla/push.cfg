\* A queue of two; requests are lost, late and refused, the backend restarts.
SPECIFICATION PushLiveSpec
CONSTANTS
    Room = 2
    MaxSamples = 4
    MaxFaults = 2
INVARIANT Accounted
PROPERTY QueueDrains
CHECK_DEADLOCK FALSE
