\* Two servers, two writes, one fault.
SPECIFICATION LiveSpec
CONSTANT Server = {s1, s2}
CONSTANTS MaxWrites = 2 MaxTerms = 1 MaxFaults = 1
INVARIANTS PolledByItsEntry RuntimeFollowsRows
PROPERTY AgentGetsItsEntry
CHECK_DEADLOCK FALSE
