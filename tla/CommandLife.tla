----------------------------- MODULE CommandLife -----------------------------
(***************************************************************************)
(* What the command protocol promises the person who asked for a change    *)
(* (the contract of commandsService.ts and commandRepository.ts): a        *)
(* command is asked for once and ends once; it is run only after it was    *)
(* asked for; and it is said to have succeeded or failed only if the agent *)
(* got that result from the game.  How often it may run is not promised    *)
(* here: AgentCommands states that as RunsWithinForgetting.                *)
(***************************************************************************)
CONSTANTS Command, Result

VARIABLES
    state, \* what the dashboard can say of each command
    seen   \* the results the agent got from the game for it

vars == <<state, seen>>

Answer(r) == IF r = "ok" THEN "succeeded" ELSE "failed"
Ended == {"succeeded", "failed", "expired"}

Init ==
    /\ state = [c \in Command |-> "none"]
    /\ seen = [c \in Command |-> {}]

Ask(c) ==
    /\ state[c] = "none"
    /\ state' = [state EXCEPT ![c] = "open"]
    /\ UNCHANGED seen

\* Nothing stops a run whose command ended meanwhile: the agent may hold it already.
Run(c, r) ==
    /\ state[c] # "none"
    /\ seen' = [seen EXCEPT ![c] = @ \cup {r}]
    /\ UNCHANGED state

Conclude(c, r) ==
    /\ state[c] = "open" /\ r \in seen[c]
    /\ state' = [state EXCEPT ![c] = Answer(r)]
    /\ UNCHANGED seen

Expire(S) ==
    /\ \A c \in S : state[c] = "open"
    /\ state' = [c \in Command |-> IF c \in S THEN "expired" ELSE state[c]]
    /\ UNCHANGED seen

Forget(S) ==
    /\ \A c \in S : state[c] \in Ended
    /\ state' = [c \in Command |-> IF c \in S THEN "purged" ELSE state[c]]
    /\ UNCHANGED seen

Next ==
    \/ \E c \in Command : Ask(c) \/ \E r \in Result : Run(c, r) \/ Conclude(c, r)
    \/ \E S \in SUBSET Command : Expire(S) \/ Forget(S)

Spec == Init /\ [][Next]_vars
=============================================================================
