--------------------------- MODULE MCAgentCommands ---------------------------
(* AgentCommands on small instances. *)
EXTENDS AgentCommands

\* The agent's clock a tick behind, or right.
SlowOrRight == {-1, 0}
\* Right, or so slow that no command expires for the agent.
SlowClock == {-2, 0}
=============================================================================
