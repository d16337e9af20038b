---------------------------- MODULE AgentCommands ----------------------------
(***************************************************************************)
(* Commands from the dashboard to an edge agent.  The backend cannot reach *)
(* into a player's network, so a change to the game becomes a row of       *)
(* agents.commands which the agent fetches with a long-poll, runs against  *)
(* the game, and reports back.  This module is one server end to end: the  *)
(* rows and the transactions that write them (commandRepository.ts,        *)
(* commandsService.ts, commandSweeper.ts, agentsService.ts,                *)
(* releaseAgent.ts), the agent's runner and its ledger (commandRunner.ts,  *)
(* ledger.ts), and between them a network that loses answers, repeats      *)
(* requests and delivers them late.  How a waiting poll is woken is the    *)
(* subject of LongPoll.                                                    *)
(***************************************************************************)
EXTENDS Integers, FiniteSets

CONSTANTS
    Command,        \* the command ids: numbers, so that ties in createdAt sort
    None,           \* not a command
    CommandTtl,     \* COMMAND_TTL_MS, in ticks of the database clock
    MaxOpen,        \* MAX_OPEN_COMMANDS
    Retention,      \* COMMAND_RETENTION_DAYS, in ticks
    MaxLifetime,    \* MAX_COMMAND_LIFETIME_MS, in ticks of the agent's clock
    LedgerMax,      \* LEDGER_MAX_ENTRIES
    ResultAttempts, \* RESULT_ATTEMPTS
    Skews,          \* what the agent's clock may differ from the database's
    MaxTime,        \* bound: the last tick
    MaxRestarts,    \* bound: restarts of the agent process
    MaxSetBacks,    \* bound: times the agent's clock is set back
    MaxEnrolments,  \* bound: credentials issued after the first
    MaxRuns         \* bound: runs of one command

ASSUME CommandAssumption == Command \subseteq Nat /\ IsFiniteSet(Command)
ASSUME NoneAssumption == None \notin Command
ASSUME ClockAssumption == CommandTtl \in Nat \ {0} /\ Retention \in Nat /\ MaxLifetime \in Nat
                          /\ Skews \subseteq Int
ASSUME LimitAssumption == MaxOpen \in Nat \ {0} /\ LedgerMax \in Nat \ {0}
                          /\ ResultAttempts \in Nat \ {0}
ASSUME BoundAssumption == MaxTime \in Nat /\ MaxRestarts \in Nat /\ MaxSetBacks \in Nat
                          /\ MaxEnrolments \in Nat /\ MaxRuns \in Nat

VARIABLES
    \* the database
    now,        \* its clock
    kind,       \* servers.connection_kind
    credential, \* the credential that is enrolled and not revoked, 0 if none
    issued,     \* how many credentials were ever issued
    lock,       \* the request whose transaction holds the server's row
    request,    \* per command: how far requestAutoPause has come
    status, created, \* the row of each command
    \* the network
    inbox,      \* result reports the backend has not handled yet
    reply,      \* a poll's answer on its way to the agent
    \* the agent process
    skew, pc, key, batch, cur, tries, ledger, begun,
    \* the game: the command whose setting it holds
    game,
    \* history
    runs, outcomes, serial, restarts, setBacks, evictions

dbVars == <<now, kind, credential, issued, lock, request, status, created>>
rowVars == <<status, created>>
serverVars == <<kind, credential, issued>>
agentVars == <<skew, pc, key, batch, cur, tries, ledger, begun>>
historyVars == <<runs, outcomes, serial, restarts, setBacks, evictions>>
vars == <<dbVars, inbox, reply, agentVars, game, historyVars>>

-----------------------------------------------------------------------------
Open == {"pending", "sent"}
Ended == {"succeeded", "failed", "expired"}
Status == {"none", "purged"} \cup Open \cup Ended
PC == {"idle", "polling", "handling", "running", "reporting", "waiting", "stopped"}
Result == {"ok", "error"}
Key == 1..(MaxEnrolments + 1)
Report == [id : Command, result : Result, key : Key]
NoReply == [answered |-> FALSE, commands |-> {}]

ExpiresAt(c) == created[c] + CommandTtl
OpenRows == {c \in Command : status[c] \in Open}
Live(at) == {c \in OpenRows : ExpiresAt(c) > at}

AgentClock == now + skew
\* The order of one poll's answer: by createdAt, then by id.
Before(c, d) == created[c] < created[d] \/ (created[c] = created[d] /\ c < d)
\* Mutant: newest first.
NewestIn(c, S) == c \in S /\ \A d \in S \ {c} : Before(d, c)
FirstIn(c, S) == c \in S /\ \A d \in S \ {c} : Before(c, d)

Authentic(k) == k = credential /\ kind = "agent"

Init ==
    /\ now = 0 /\ kind = "agent" /\ credential = 1 /\ issued = 1
    /\ lock = None
    /\ request = [c \in Command |-> "idle"]
    /\ status = [c \in Command |-> "none"]
    /\ created = [c \in Command |-> 0]
    /\ inbox = {} /\ reply = NoReply
    /\ skew \in Skews
    /\ pc = "idle" /\ key = 1 /\ batch = {} /\ cur = None /\ tries = 0
    /\ ledger = [c \in Command |-> "absent"]
    /\ begun = [c \in Command |-> 0]
    /\ game = None
    /\ runs = [c \in Command |-> 0]
    /\ outcomes = [c \in Command |-> {}]
    /\ serial = [c \in Command |-> 0]
    /\ restarts = 0 /\ setBacks = 0 /\ evictions = 0

-----------------------------------------------------------------------------
(* A user asks for a change: one transaction, stamped when it begins.      *)

\* BEGIN: now() of everything the transaction writes is the time of this step.
\* Bound: no request begins so late that its command could not run out.
BeginRequest(c) ==
    /\ request[c] = "idle"
    /\ now + CommandTtl <= MaxTime
    /\ request' = [request EXCEPT ![c] = "begun"]
    /\ created' = [created EXCEPT ![c] = now]
    /\ UNCHANGED <<now, serverVars, lock, status, inbox, reply, agentVars, game, historyVars>>

\* Mutant: a plain read instead of the row lock.
CheckUnlocked(c) ==
    /\ request[c] = "begun"
    /\ kind = "agent" /\ credential # 0
    /\ Cardinality(Live(created[c])) < MaxOpen
    /\ request' = [request EXCEPT ![c] = "locked"]
    /\ UNCHANGED <<now, serverVars, lock, rowVars, inbox, reply, agentVars, game, historyVars>>

\* The server's row is locked and everything is checked under that lock.
LockServer(c) ==
    /\ request[c] = "begun"
    /\ lock = None
    /\ kind = "agent" /\ credential # 0
    /\ Cardinality(Live(created[c])) < MaxOpen
    /\ lock' = c
    /\ request' = [request EXCEPT ![c] = "locked"]
    /\ UNCHANGED <<now, serverVars, rowVars, inbox, reply, agentVars, game, historyVars>>

\* Refused by a check, or rolled back because the database failed.
AbandonRequest(c) ==
    /\ request[c] \in {"begun", "locked"}
    /\ request' = [request EXCEPT ![c] = "done"]
    /\ lock' = IF lock = c THEN None ELSE lock
    /\ created' = [created EXCEPT ![c] = 0]
    /\ UNCHANGED <<now, serverVars, status, inbox, reply, agentVars, game, historyVars>>

CommitRequest(c) ==
    /\ request[c] = "locked"
    /\ request' = [request EXCEPT ![c] = "done"]
    /\ lock' = None
    /\ status' = [status EXCEPT ![c] = "pending"]
    /\ serial' = [serial EXCEPT ![c] = Cardinality({d \in Command : serial[d] > 0}) + 1]
    /\ UNCHANGED <<now, serverVars, created, inbox, reply, agentVars, game,
                   runs, outcomes, restarts, setBacks, evictions>>

-----------------------------------------------------------------------------
(* The credential.  Each of these is one transaction under the row's lock. *)

Revoke ==
    /\ lock = None
    /\ credential' = 0
    /\ UNCHANGED <<now, kind, issued, lock, request, rowVars, inbox, reply, agentVars, game, historyVars>>

\* installAgentCredential: a new secret replaces whatever was there.
Enroll ==
    /\ lock = None
    /\ issued <= MaxEnrolments
    /\ issued' = issued + 1
    /\ credential' = issued'
    /\ kind' = "agent"
    /\ UNCHANGED <<now, lock, request, rowVars, inbox, reply, agentVars, game, historyVars>>

\* The switch revokes, and ends every waiting command whatever its age.
SwitchToLocal ==
    /\ lock = None
    /\ kind = "agent"
    /\ kind' = "local"
    /\ credential' = 0
    /\ status' = [c \in Command |-> IF c \in OpenRows THEN "expired" ELSE status[c]]
    /\ UNCHANGED <<now, issued, lock, request, created, inbox, reply, agentVars, game, historyVars>>

-----------------------------------------------------------------------------
(* Time and the sweeper.                                                   *)

Tick ==
    /\ now < MaxTime
    /\ now' = now + 1
    /\ UNCHANGED <<serverVars, lock, request, rowVars, inbox, reply, agentVars, game, historyVars>>

\* Mutant: commands already handed out are not swept.
StalePending == {c \in Command : status[c] = "pending" /\ ExpiresAt(c) <= now}

\* Open rows past their expiry, as one UPDATE writes them.
Stale == OpenRows \ Live(now)

ExpireStale ==
    /\ status' = [c \in Command |-> IF c \in Stale THEN "expired" ELSE status[c]]
    /\ UNCHANGED <<now, serverVars, lock, request, created, inbox, reply, agentVars, game, historyVars>>

\* Rows are purged Retention after they ended.  Counted here from their creation, which is
\* earlier: the model purges whenever the code may, and sooner.
PurgeOld ==
    /\ status' = [c \in Command |-> IF status[c] \in Ended /\ created[c] + Retention < now
                                      THEN "purged" ELSE status[c]]
    /\ UNCHANGED <<now, serverVars, lock, request, created, inbox, reply, agentVars, game, historyVars>>

-----------------------------------------------------------------------------
(* The agent's poll.                                                       *)

\* GET /commands: the credential is looked up once, when the request arrives.
StartPoll ==
    /\ pc = "idle"
    /\ pc' = IF Authentic(key) THEN "polling" ELSE "stopped"
    /\ UNCHANGED <<dbVars, inbox, reply, skew, key, batch, cur, tries, ledger, begun, game, historyVars>>

\* CLAIM_OPEN, of the first look or of the one after the wait: it asks only that some
\* credential of this server is enrolled and not revoked.
Claim ==
    /\ pc = "polling" /\ ~reply.answered
    /\ LET claimed == IF credential # 0 THEN Live(now) ELSE {}
       IN  /\ status' = [c \in Command |-> IF c \in claimed THEN "sent" ELSE status[c]]
           /\ reply' = [answered |-> TRUE, commands |-> claimed]
    /\ UNCHANGED <<now, serverVars, lock, request, created, inbox, agentVars, game, historyVars>>

ReceiveReply ==
    /\ pc = "polling" /\ reply.answered
    /\ pc' = "handling"
    /\ batch' = reply.commands
    /\ reply' = NoReply
    /\ UNCHANGED <<dbVars, inbox, skew, key, cur, tries, ledger, begun, game, historyVars>>

\* The request or its answer was lost, timed out or refused: back off and ask again.
PollFails ==
    /\ pc = "polling"
    /\ pc' = "idle"
    /\ reply' = NoReply
    /\ UNCHANGED <<dbVars, inbox, skew, key, batch, cur, tries, ledger, begun, game, historyVars>>

-----------------------------------------------------------------------------
(* The agent's runner: one command at a time, oldest first.                *)

Fresh(c) == ExpiresAt(c) > AgentClock /\ ExpiresAt(c) - AgentClock <= MaxLifetime

\* Mutant: entries are purged a tick early.
RememberedShort == {d \in Command : ledger[d] # "absent" /\ ExpiresAt(d) > AgentClock + 1}

\* What the ledger still holds once begin() has purged it.
Remembered == {d \in Command : ledger[d] # "absent" /\ ExpiresAt(d) > AgentClock}
\* begin() of a new id: insert it, then drop the oldest entry beyond the cap.
Oldest(S) == CHOOSE d \in S : \A e \in S \ {d} : begun[d] < begun[e]
Evicted(c) == IF Cardinality(Remembered \cup {c}) > LedgerMax THEN {Oldest(Remembered)} ELSE {}
LedgerBegin(c) ==
    [d \in Command |-> IF d \in Evicted(c) THEN "absent"
                       ELSE IF d = c THEN "running"
                       ELSE IF d \in Remembered THEN ledger[d] ELSE "absent"]
NextStamp == Cardinality(Remembered) + 1
\* The insertion order of the entries kept, renumbered from 1.
Stamps(c) ==
    [d \in Command |-> IF d = c THEN NextStamp
                       ELSE IF d \in Remembered
                            THEN Cardinality({e \in Remembered : begun[e] <= begun[d]}) ELSE 0]

NextInBatch(c) == pc = "handling" /\ FirstIn(c, batch)

SkipCommand(c) ==
    /\ NextInBatch(c)
    /\ ~Fresh(c)
    /\ batch' = batch \ {c}
    /\ UNCHANGED <<dbVars, inbox, reply, skew, pc, key, cur, tries, ledger, begun, game, historyVars>>

\* Seen before and finished: the same result is reported again, nothing is run.
RepeatResult(c) ==
    /\ NextInBatch(c)
    /\ Fresh(c)
    /\ c \in Remembered /\ ledger[c] \in Result
    /\ ledger' = [d \in Command |-> IF d \in Remembered THEN ledger[d] ELSE "absent"]
    /\ batch' = batch \ {c}
    /\ pc' = "reporting" /\ cur' = c /\ tries' = 0
    /\ UNCHANGED <<dbVars, inbox, reply, skew, key, begun, game, historyVars>>

StartRun(c) ==
    /\ NextInBatch(c)
    /\ Fresh(c)
    /\ c \notin Remembered
    /\ runs[c] < MaxRuns
    /\ ledger' = LedgerBegin(c)
    /\ begun' = Stamps(c)
    /\ batch' = batch \ {c}
    /\ pc' = "running" /\ cur' = c
    /\ runs' = [runs EXCEPT ![c] = @ + 1]
    /\ evictions' = evictions + Cardinality(Evicted(c))
    /\ UNCHANGED <<dbVars, inbox, reply, skew, key, tries, game, outcomes, serial, restarts, setBacks>>

\* applyAutoPause answered, or failed: a call that failed may have been applied all the same.
FinishRun(result, applied) ==
    /\ pc = "running"
    /\ result = "ok" => applied
    /\ game' = IF applied THEN cur ELSE game
    /\ ledger' = [ledger EXCEPT ![cur] = result]
    /\ outcomes' = [outcomes EXCEPT ![cur] = @ \cup {result}]
    /\ pc' = "reporting" /\ tries' = 0
    /\ UNCHANGED <<dbVars, inbox, reply, skew, key, batch, cur, begun, runs, serial, restarts, setBacks, evictions>>

BatchDone ==
    /\ pc = "handling" /\ batch = {}
    /\ pc' = "idle"
    /\ UNCHANGED <<dbVars, inbox, reply, skew, key, batch, cur, tries, ledger, begun, game, historyVars>>

-----------------------------------------------------------------------------
(* The report of a result.                                                 *)

SendResult ==
    /\ pc = "reporting"
    /\ inbox' = inbox \cup {[id |-> cur, result |-> ledger[cur], key |-> key]}
    /\ tries' = tries + 1
    /\ pc' = "waiting"
    /\ UNCHANGED <<dbVars, reply, skew, key, batch, cur, ledger, begun, game, historyVars>>

\* The runner is done with the command in hand.
Leave(to) == pc' = to /\ cur' = None /\ tries' = 0

\* Mutant: the UPDATE does not ask for an open row.
CompleteAnyRow(m) ==
    status' = [status EXCEPT ![m.id] = IF m.result = "ok" THEN "succeeded" ELSE "failed"]

\* completeCommand: the guarded UPDATE, and what it does when it matched no row.
Complete(m) ==
    LET c == m.id
    IN  status' = [status EXCEPT ![c] =
                     IF c \in Live(now) THEN IF m.result = "ok" THEN "succeeded" ELSE "failed"
                     ELSE IF c \in Stale THEN "expired" ELSE @]

\* The backend handles a report, perhaps long after the agent gave up on it; `heard` when its
\* answer (204, 404, 409 or 401) still finds the agent waiting for it.
HandleReport(m, heard) ==
    /\ m \in inbox
    /\ inbox' = inbox \ {m}
    /\ IF Authentic(m.key) THEN Complete(m) ELSE UNCHANGED status
    /\ heard => pc = "waiting" /\ m = [id |-> cur, result |-> ledger[cur], key |-> key]
    /\ IF heard THEN Leave(IF Authentic(m.key) THEN "handling" ELSE "stopped")
                ELSE UNCHANGED <<pc, cur, tries>>
    /\ UNCHANGED <<now, serverVars, lock, request, created, reply, skew, key, batch,
                   ledger, begun, game, historyVars>>

\* The request never arrived, or was refused before anything was written (429, 503).
LoseReport(m) ==
    /\ m \in inbox
    /\ inbox' = inbox \ {m}
    /\ UNCHANGED <<dbVars, reply, agentVars, game, historyVars>>

\* An attempt without an answer: stop once expired or out of attempts, else try again.
AttemptFails ==
    /\ pc = "waiting"
    /\ IF AgentClock >= ExpiresAt(cur) \/ tries = ResultAttempts
       THEN Leave("handling")
       ELSE pc' = "reporting" /\ UNCHANGED <<cur, tries>>
    /\ UNCHANGED <<dbVars, inbox, reply, skew, key, batch, ledger, begun, game, historyVars>>

-----------------------------------------------------------------------------
(* What happens to the agent's PC.                                         *)

\* The process ends, in the middle of anything, and a new one starts with nothing remembered.
\* It uses the credential it had, or the newest one if that reached it.
Restart(k) ==
    /\ restarts < MaxRestarts
    /\ k \in {key, issued}
    /\ pc = "stopped" => k # key
    /\ \/ game' = game
       \/ pc = "running" /\ game' = cur
    /\ pc' = "idle" /\ key' = k /\ batch' = {} /\ cur' = None /\ tries' = 0
    /\ reply' = NoReply
    /\ ledger' = [c \in Command |-> "absent"]
    /\ begun' = [c \in Command |-> 0]
    /\ restarts' = restarts + 1
    /\ UNCHANGED <<dbVars, inbox, skew, runs, outcomes, serial, setBacks, evictions>>

AdjustClock(s) ==
    /\ s # skew
    /\ s < skew => setBacks < MaxSetBacks
    /\ skew' = s
    /\ setBacks' = IF s < skew THEN setBacks + 1 ELSE setBacks
    /\ UNCHANGED <<dbVars, inbox, reply, pc, key, batch, cur, tries, ledger, begun, game,
                   runs, outcomes, serial, restarts, evictions>>

-----------------------------------------------------------------------------
RequestStep == \E c \in Command :
    BeginRequest(c) \/ LockServer(c) \/ AbandonRequest(c) \/ CommitRequest(c)
CredentialStep == Revoke \/ Enroll \/ SwitchToLocal
PollStep == StartPoll \/ Claim \/ ReceiveReply \/ PollFails
RunStep ==
    \/ \E c \in Command : SkipCommand(c) \/ RepeatResult(c) \/ StartRun(c)
    \/ \E result \in Result, applied \in BOOLEAN : FinishRun(result, applied)
    \/ BatchDone
ReportStep ==
    \/ SendResult \/ AttemptFails
    \/ \E m \in inbox : (\E heard \in BOOLEAN : HandleReport(m, heard)) \/ LoseReport(m)
FaultStep == (\E k \in Key : Restart(k)) \/ (\E s \in Skews : AdjustClock(s))

Next ==
    \/ RequestStep \/ CredentialStep \/ PollStep \/ RunStep \/ ReportStep \/ FaultStep
    \/ Tick \/ ExpireStale \/ PurgeOld

Spec == Init /\ [][Next]_vars

\* Time passes, the sweeper runs again 15 s after each sweep, failed or not, and the runner is
\* one loop in which every call has a timeout.
FairSpec ==
    /\ Spec
    /\ WF_vars(Tick) /\ WF_vars(ExpireStale)
    /\ WF_vars(PollStep) /\ WF_vars(RunStep) /\ WF_vars(SendResult \/ AttemptFails)

-----------------------------------------------------------------------------
TypeOK ==
    /\ now \in Nat /\ kind \in {"agent", "local"}
    /\ credential \in Key \cup {0} /\ issued \in Key
    /\ lock \in Command \cup {None}
    /\ request \in [Command -> {"idle", "begun", "locked", "done"}]
    /\ status \in [Command -> Status]
    /\ created \in [Command -> Nat]
    /\ inbox \subseteq Report
    /\ reply \in [answered : BOOLEAN, commands : SUBSET Command]
    /\ skew \in Skews /\ pc \in PC /\ key \in Key
    /\ batch \subseteq Command /\ cur \in Command \cup {None} /\ tries \in Nat
    /\ ledger \in [Command -> {"absent", "running"} \cup Result]
    /\ begun \in [Command -> Nat]
    /\ game \in Command \cup {None}
    /\ runs \in [Command -> Nat] /\ outcomes \in [Command -> SUBSET Result]
    /\ serial \in [Command -> Nat]
    /\ restarts \in Nat /\ setBacks \in Nat /\ evictions \in Nat
-----------------------------------------------------------------------------
(* Properties.                                                             *)

\* The agent runs a command again only if it lost its memory of the first run: a restart (the
\* ledger is in memory only), an agent clock set back after the entry was purged, or an entry
\* evicted by newer ones.  Redelivery, lost answers and retries alone never cause a second run.
RunsWithinForgetting == \A c \in Command : runs[c] <= 1 + restarts + setBacks + evictions

\* At most MAX_OPEN_COMMANDS commands of a server are open, whatever requests run side by side.
OpenWithinCap == Cardinality(Live(now)) <= MaxOpen

\* Nothing waits for an agent on a server that was switched back to local: a request that
\* checked the kind before the switch cannot add its command after it (releaseAgent.ts).
NothingWaitsOnLocal == kind = "local" => OpenRows = {}

\* While the agent forgets nothing, the game never goes back behind a change that was confirmed:
\* its setting is that of the confirmed command, or of one created or committed after it.  It
\* needs an agent clock that is behind by at most MAX_COMMAND_LIFETIME_MS - COMMAND_TTL_MS:
\* further behind, an older command looks too far from its expiry and may run after a newer one.
ConfirmedNotUndone ==
    restarts + setBacks + evictions = 0 =>
        \A c \in Command : status[c] = "succeeded" =>
            game = c \/ \E d \in Command : d = game /\ (Before(c, d) \/ serial[d] > serial[c])

\* Every command that is open comes to an end, whether the agent answers or not.
CommandsEnd == \A c \in Command : c \in OpenRows ~> c \notin OpenRows

\* The steps above as steps of the promise.
LifeState(c) == IF status[c] \in Open THEN "open" ELSE status[c]
Life == INSTANCE CommandLife WITH state <- [c \in Command |-> LifeState(c)], seen <- outcomes
KeepsPromise == Life!Spec
=============================================================================
