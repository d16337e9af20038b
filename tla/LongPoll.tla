------------------------------- MODULE LongPoll -------------------------------
(***************************************************************************)
(* The long-poll of one server's agent inside the backend: the route       *)
(* GET /commands (agentApi.ts), AgentCommandsService.poll                  *)
(* (commandsService.ts) and the CommandNotifier that wakes it.  A step is  *)
(* what runs between two awaits of one request; requests, commits,         *)
(* hang-ups and the notifier's timer interleave.  Rows here are only open  *)
(* or not: their life is the subject of AgentCommands.                     *)
(***************************************************************************)
EXTENDS Naturals, FiniteSets

CONSTANTS
    Poll,       \* connections the agents of the server may have open at once
    None,       \* not a poll
    Command,
    MaxWaiters, \* MAX_WAITERS_PER_SERVER
    MaxSecrets, \* bound: credentials ever issued
    MaxLosses   \* bound: polls that lose their client

ASSUME NoneAssumption == None \notin Poll
ASSUME LimitAssumption == MaxWaiters \in Nat \ {0, 1} /\ MaxSecrets \in Nat \ {0} /\ MaxLosses \in Nat

VARIABLES
    asked,      \* commands whose transaction was begun
    open,       \* commands committed, and not ended
    unannounced,\* commands committed, whose notify() has not been called yet
    delivered,  \* commands an answer took to the agent
    credential, \* the secret that is valid, 0 if none
    issued,     \* how many were issued
    phase, secret, rows, aborted, hungUp, \* per connection
    waiters,    \* the notifier's set for the server
    arrival,    \* per waiter: its place in that set's insertion order
    slot,       \* openPolls: the poll that holds the server's slot
    losses

commandVars == <<asked, open, unannounced, delivered>>
secretVars == <<credential, issued>>
pollVars == <<phase, secret, rows, aborted, hungUp>>
noticeVars == <<waiters, arrival, slot>>
vars == <<commandVars, secretVars, pollVars, noticeVars, losses>>

InRoute == {"looking", "looked", "waiting", "again", "glancing", "answering"}
Phase == {"idle", "admitted"} \cup InRoute

Init ==
    /\ asked = {} /\ open = {} /\ unannounced = {} /\ delivered = {}
    /\ credential = 1 /\ issued = 1
    /\ phase = [p \in Poll |-> "idle"]
    /\ secret = [p \in Poll |-> 0]
    /\ rows = [p \in Poll |-> {}]
    /\ aborted = [p \in Poll |-> FALSE]
    /\ hungUp = [p \in Poll |-> FALSE]
    /\ waiters = {} /\ arrival = [p \in Poll |-> 0] /\ slot = None
    /\ losses = 0

-----------------------------------------------------------------------------
\* Mutant: notify() before the commit.
CommitLast(c) ==
    /\ c \notin asked /\ credential # 0
    /\ asked' = asked \cup {c}
    /\ open' = open \cup {c}
    /\ UNCHANGED <<unannounced, delivered, secretVars, pollVars, noticeVars, losses>>

\* requestAutoPause commits, and calls notify() only then.
Commit(c) ==
    /\ c \notin asked /\ credential # 0
    /\ asked' = asked \cup {c}
    /\ open' = open \cup {c}
    /\ unannounced' = unannounced \cup {c}
    /\ UNCHANGED <<delivered, secretVars, pollVars, noticeVars, losses>>

\* Every waiter is released, and with that leaves the set.
Notify(c) ==
    /\ c \in unannounced
    /\ unannounced' = unannounced \ {c}
    /\ waiters' = {}
    /\ UNCHANGED <<asked, open, delivered, secretVars, pollVars, arrival, slot, losses>>

\* Reported, expired or dropped.
End(c) ==
    /\ c \in open
    /\ open' = open \ {c}
    /\ UNCHANGED <<asked, unannounced, delivered, secretVars, pollVars, noticeVars, losses>>

\* Revoking when nothing is enrolled is still "revoked".
Revoke ==
    /\ credential' = 0
    /\ UNCHANGED <<issued, commandVars, pollVars, noticeVars, losses>>

Enroll ==
    /\ issued < MaxSecrets
    /\ issued' = issued + 1 /\ credential' = issued'
    /\ UNCHANGED <<commandVars, pollVars, noticeVars, losses>>

-----------------------------------------------------------------------------
\* The bearer secret is looked up: the one time this request's own credential is checked.
Admit(p) ==
    /\ phase[p] = "idle" /\ credential # 0
    /\ phase' = [phase EXCEPT ![p] = "admitted"]
    /\ secret' = [secret EXCEPT ![p] = credential]
    /\ UNCHANGED <<commandVars, secretVars, rows, aborted, hungUp, noticeVars, losses>>

Oldest(S) == CHOOSE p \in S : \A q \in S \ {p} : arrival[p] < arrival[q]
\* subscribe(): the oldest waiters beyond the cap are released first.
Subscribe(S, p) ==
    LET kept == IF Cardinality(S) >= MaxWaiters THEN S \ {Oldest(S)} ELSE S
    IN  /\ waiters' = kept \cup {p}
        /\ arrival' = [q \in Poll |-> IF q = p THEN Cardinality(kept) + 1
                                      ELSE Cardinality({r \in kept : arrival[r] <= arrival[q]})]

\* Mutant: the poll that held the slot is left waiting.
OpenPollBeside(p, waits) ==
    /\ phase[p] = "admitted"
    /\ slot' = p
    /\ phase' = [phase EXCEPT ![p] = IF waits THEN "looking" ELSE "glancing"]
    /\ IF waits THEN Subscribe(waiters, p) ELSE UNCHANGED <<waiters, arrival>>
    /\ UNCHANGED <<commandVars, secretVars, secret, rows, aborted, hungUp, losses>>

\* The poll that holds the slot is aborted, this one takes it, and if it may wait it subscribes
\* before it looks.  With waitSeconds = 0 it only looks once.
OpenPoll(p, waits) ==
    /\ phase[p] = "admitted"
    /\ slot' = p
    /\ aborted' = [q \in Poll |-> IF q = slot THEN TRUE ELSE aborted[q]]
    /\ phase' = [phase EXCEPT ![p] = IF waits THEN "looking" ELSE "glancing"]
    /\ IF waits THEN Subscribe(waiters \ {slot}, p)
                ELSE waiters' = waiters \ {slot} /\ UNCHANGED arrival
    /\ UNCHANGED <<commandVars, secretVars, secret, rows, hungUp, losses>>

\* CLAIM_OPEN in the database; any credential of the server will do.
Look(p) ==
    /\ phase[p] \in {"looking", "again", "glancing"}
    /\ rows' = [rows EXCEPT ![p] = IF credential # 0 THEN open ELSE {}]
    /\ phase' = [phase EXCEPT ![p] = IF @ = "looking" THEN "looked" ELSE "answering"]
    /\ UNCHANGED <<commandVars, secretVars, secret, aborted, hungUp, noticeVars, losses>>

\* Back from the first look: answer with what there is, or wait.
Resume(p) ==
    /\ phase[p] = "looked"
    /\ phase' = [phase EXCEPT ![p] = IF rows[p] # {} \/ aborted[p] THEN "answering" ELSE "waiting"]
    /\ UNCHANGED <<commandVars, secretVars, secret, rows, aborted, hungUp, noticeVars, losses>>

\* The timer of the wait.
Deadline(p) ==
    /\ p \in waiters
    /\ waiters' = waiters \ {p}
    /\ UNCHANGED <<commandVars, secretVars, pollVars, arrival, slot, losses>>

\* Released: notified, out of time, evicted or aborted.
Wake(p) ==
    /\ phase[p] = "waiting" /\ p \notin waiters
    /\ phase' = [phase EXCEPT ![p] = IF aborted[p] THEN "answering" ELSE "again"]
    /\ UNCHANGED <<commandVars, secretVars, secret, rows, aborted, hungUp, noticeVars, losses>>

\* Both `finally` blocks: stop waiting, and give the slot back if it is still this poll's.
Close(p) ==
    /\ phase' = [phase EXCEPT ![p] = "idle"]
    /\ secret' = [secret EXCEPT ![p] = 0]
    /\ rows' = [rows EXCEPT ![p] = {}]
    /\ aborted' = [aborted EXCEPT ![p] = FALSE]
    /\ hungUp' = [hungUp EXCEPT ![p] = FALSE]
    /\ waiters' = waiters \ {p}
    /\ slot' = IF slot = p THEN None ELSE slot

\* Mutant: a poll ended by a newer one answers with an empty list whatever it claimed.
AnswerIfNewest(p) ==
    /\ phase[p] = "answering"
    /\ delivered' = IF aborted[p] THEN delivered ELSE delivered \cup rows[p]
    /\ Close(p)
    /\ UNCHANGED <<asked, open, unannounced, secretVars, arrival, losses>>

Answer(p) ==
    /\ phase[p] = "answering"
    /\ delivered' = IF hungUp[p] THEN delivered ELSE delivered \cup rows[p]
    /\ Close(p)
    /\ UNCHANGED <<asked, open, unannounced, secretVars, arrival, losses>>

\* The database failed under a look: 503.
LookFails(p) ==
    /\ phase[p] \in {"looking", "again", "glancing"}
    /\ losses < MaxLosses
    /\ losses' = losses + 1
    /\ Close(p)
    /\ UNCHANGED <<commandVars, secretVars, arrival>>

HangUp(p) ==
    /\ phase[p] \in InRoute /\ ~hungUp[p]
    /\ losses < MaxLosses
    /\ losses' = losses + 1
    /\ hungUp' = [hungUp EXCEPT ![p] = TRUE]
    /\ aborted' = [aborted EXCEPT ![p] = TRUE]
    /\ waiters' = waiters \ {p}
    /\ UNCHANGED <<commandVars, secretVars, phase, secret, rows, arrival, slot>>

-----------------------------------------------------------------------------
Handle(p) == (\E waits \in BOOLEAN : OpenPoll(p, waits)) \/ Look(p) \/ Resume(p) \/ Wake(p) \/ Answer(p)

Next ==
    \/ \E c \in Command : Commit(c) \/ Notify(c) \/ End(c)
    \/ Revoke \/ Enroll
    \/ \E p \in Poll : Admit(p) \/ Handle(p) \/ Deadline(p) \/ LookFails(p) \/ HangUp(p)

Spec == Init /\ [][Next]_vars

\* The event loop serves every request, timers fire, and the agent polls again.
FairSpec ==
    /\ Spec
    /\ \A p \in Poll : WF_vars(Admit(p)) /\ WF_vars(Handle(p)) /\ WF_vars(Deadline(p))
    /\ \A c \in Command : WF_vars(Notify(c))

-----------------------------------------------------------------------------
TypeOK ==
    /\ asked \subseteq Command /\ open \subseteq Command
    /\ unannounced \subseteq Command /\ delivered \subseteq Command
    /\ credential \in 0..MaxSecrets /\ issued \in 1..MaxSecrets
    /\ phase \in [Poll -> Phase] /\ secret \in [Poll -> 0..MaxSecrets]
    /\ rows \in [Poll -> SUBSET Command]
    /\ aborted \in [Poll -> BOOLEAN] /\ hungUp \in [Poll -> BOOLEAN]
    /\ waiters \subseteq Poll /\ arrival \in [Poll -> Nat]
    /\ slot \in Poll \cup {None} /\ losses \in Nat

\* No lost wake-up: a poll of the valid credential that is left waiting has missed nothing;
\* whatever is open was committed after it looked, and its notify() is still to come.
NoLostWakeUp ==
    \A p \in waiters : phase[p] = "waiting" /\ secret[p] = credential => open \subseteq unannounced

\* A server holds at most one waiting poll, the one in the slot, and the slot is held only by a
\* poll whose route is still running: connections cannot pile up, and the notifier's own cap is
\* never what keeps them down.
OneWaiter ==
    /\ waiters \subseteq {slot}
    /\ slot # None => phase[slot] \in InRoute

\* An open command reaches the agent, however polls are cut off, unless it ends or the agent is
\* revoked first.
CommandsAreDelivered ==
    \A c \in Command : c \in open ~> c \in delivered \/ c \notin open \/ credential = 0
=============================================================================
