\* Two sessions of the app, four launches, one command line that cannot be read.
SPECIFICATION LiveSpec
CONSTANTS
    MaxRestarts = 1
    MaxLaunches = 4
    MaxSessions = 2
    MaxUnread = 1
INVARIANTS NeverTwo UpdatesAlone
PROPERTIES SavedFirst StopResolves LeftoverTaken
CHECK_DEADLOCK FALSE
