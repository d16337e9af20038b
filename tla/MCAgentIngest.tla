---------------------------- MODULE MCAgentIngest ----------------------------
\* Two saves of one session and one of another.
EXTENDS AgentIngest
MCSave == {[name |-> "a", played |-> 1], [name |-> "a", played |-> 0], [name |-> "b", played |-> 0]}
MCPart == {"status", "power", "factory"}
Found(paused, parts, generators) ==
    [up |-> TRUE, paused |-> paused, parts |-> parts, generators |-> generators]
Down == [up |-> FALSE, paused |-> FALSE, parts |-> {}, generators |-> FALSE]
StatusOnly == Found(FALSE, {"status"}, FALSE)
Everything == Found(FALSE, MCPart, TRUE)
Paused == Found(TRUE, MCPart, FALSE)
SomeKinds == {Down, StatusOnly, Everything, Paused}
\* The agent's clock right or a little behind.
NearClock == {-1, 0}
=============================================================================
