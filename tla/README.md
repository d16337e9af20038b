# satisfactory-dash: verification project

TLA+ models of the parts of satisfactory-dash whose correctness depends on the order in which
several processes act, the TLC runs that check them on small instances, and TLAPS proofs of their
main properties for every value of the constants. Paths below are relative to the repository.

- [The system](#the-system): components, their state, how they interact, what is hard about them
- [Plan](#plan): modules, abstract specifications, runs and theorems, in order
- [What is modelled](#what-is-modelled): module by module, with the correspondence to the code
- [Runs](#runs): bounds, fairness, what each shows
- [Where code and comments differ](#where-code-and-comments-differ)
- [Proofs](#proofs): what is proved, from what, and how
- [Limits](#limits): what is only model-checked, what is abstracted, what is left out

Run a model with `tlc -workers 2 -config commands_safe.cfg MCAgentCommands.tla`, check a proof
with `tlapm AgentCommandsProofs.tla`.

## The system

A dashboard for Satisfactory game servers. A **backend** (`backend/src`, one or two Node processes
during a rollout, one Postgres database) serves the **frontend**; game servers it can reach it
polls itself, and for the others an **edge agent** (`agent/src`) on the player's network pushes
samples to the backend and fetches commands from it. A Windows app (`server-manager/src`)
supervises a game server process and the agent.

| Component | State it keeps | Operations | Talks to | Hard because |
|---|---|---|---|---|
| Agent commands (`modules/agents`: `commandRepository`, `commandsService`, `commandSweeper`, `releaseAgent`) | `agents.commands` rows (pending, sent, succeeded, failed, expired) | request, poll (claim), report, sweep, purge, end on switch to local | agent by long-poll and report; server row lock; database clock | redelivery, lost and late reports, two requests at once, a switch during a request, order by begin time |
| Command runner and ledger (`agent/src/commandRunner.ts`, `ledger.ts`) | in-memory map of seen ids, oldest evicted, purged by the agent's clock | poll, run one at a time, report with retries | backend, game API | restart forgets, clock skew, a game call that failed but was applied |
| Long-poll (`agentApi.ts`, `commandNotifier.ts`) | one slot per server, set of waiters with timers | open, subscribe, look, wake, abort, answer | commands service; commits of other requests | a commit between look and wait, an aborted poll that already claimed, pile-up |
| Leader lock (`platform/db/leaderLock.ts`, `leaderWorkers.ts`, `server.ts`) | one client, locked, leader, a queue of steps | tick, client error, stop | Postgres session advisory lock; workers; shutdown | half-open connections, stop in the middle of a try, slow callbacks, process death |
| Credentials, enrolment, pairing (`enrollmentService`, `pairingService`, `agentAuth`, `agentsService`) | codes, pairings, hash of the current secret, failure budgets | enrol, pair, poll a pairing, revoke, rotate, authenticate | server row, audit | single-use code twice, retry and consume, secrets replaced while a request waits |
| Push pipeline (`pusher.ts`, `queue.ts`, `sampler.ts`, `agentRunner.ts`) | bounded queue of samples | sample, push head, drop for room, back off | backend ingest | the head dropped while in flight |
| Map reader (`worldReader.ts`) | hash sent per layer | read, send if changed | backend | the backend lost what was sent |
| Live state (`telemetry`, `gameConnection.ts`) | last snapshot per server, series | ingest, read, write settings back | agent or pollers | chained writes, replaced servers |
| Alerts (`modules/alerts`) | rule state with hysteresis, events, outbox with leases | evaluate, queue, claim, send, retry | live state, database, webhooks, push | commit against quota, lease against a slow send, at-least-once |
| Server directory (`serverRuntime.ts`, `serverManagement.ts`, `loadDatabaseServers.ts`, sweepers) | runtime entry and workers per server; rows | add, replace, remove, setLeader, reconcile | leader lock, database, pollers | runtime changes after the commit, stops awaited by nobody |
| Identity (`modules/identity`) | sessions, login budgets | sign in, rotate, refund | database | two requests rotate one token, refunds at a window's end |
| Supervisor (`server-manager/src/supervisor.ts`) | process, state, restarts in ten minutes | start, clean stop, forced stop, crash | game process, game API | exits during an await |
| Boot and shutdown (`server.ts`, `bootSequence.ts`, `shutdown.ts`) | workers started, server listening | start, drain, release the lock last | everything | a step that hangs |
| Map, metrics, settings, gameserver modules, game adapter, shared schemas, frontend, scripts, infrastructure | rows, files, user interface | CRUD, mapping of game data, rendering | | data transformation rather than protocol |

What makes the chosen components correct:

- **commands**: a command ends once and its result is one the agent really got; it runs again only if the
  agent forgot it; the cap holds; nothing waits for an agent of a local server; confirmed changes
  are not undone by older ones; every command ends.
- **long-poll**: no wake-up is lost, polls do not pile up or leave anything behind, every poll is
  answered, every open command is delivered.
- **leader lock**: the leader-only workers never run twice, terms do not overlap, stop is final,
  somebody leads again after any fault, a stopped or dead instance frees the lock.
- **snapshots**: the queue loses only its oldest; a late, repeated or restored snapshot never replaces a
  newer reading; a chart or a history row never mixes two loads of a game; the stored row never goes back.
- **server runtime**: at most one set of pollers per server and only on the leader; a removed server leaves
  nothing; rows and runtime agree once everything under way is done.
- **enrolment**: a code or a pairing gives one credential; nothing survives a removal; no deadlock of row locks.
- **alerts**: the log of events agrees with the states, the quota holds, what lasts is told in the end; a
  delivery has one sender at a time, is repeated only after a loss, and is settled in the end.
- **server manager**: never two servers, never an update under a running one, never an unasked end without
  a save; each stop is answered and a server left running is found again.

## Plan

In order of importance; all of it exists.

1. `AgentCommands` (implements the abstract `CommandLife`), `AgentCommandsProofs`.
2. `LongPoll`, with its proofs in `AgentTrafficProofs`: what `AgentCommands` takes as one step, in detail.
3. `LeaderLock`, `LeaderLockProofs`.
4. `ServerRuntime`, `ServerRuntimeProofs`: the runtime entries, the rows they come from, the attach, the reload
   on leadership. What `LeaderLock` has as one flag per instance is here the pollers of each server.
5. `PushQueue`, proofs in `AgentTrafficProofs` too: the agent's queue and the upload route; `LatestStore` with `AgentIngest` (what
   the backend does with each snapshot) and with `SnapshotRow` (how the store survives a restart), proved about in
   `SnapshotProofs`.
6. `Enrollment`, `EnrollmentProofs`: codes, pairings and letting an agent go, as transactions with row locks.
7. `AlertState` with `AlertEvaluator`, and `AlertDelivery`, both with `AlertProofs`: from a reading to an event,
   from an event to a message.
8. `ServerManager`, `ServerManagerProofs`: the Windows app's supervisor over several sessions.

Left for later, each a single statement or counter rather than a protocol today: the login limiter's refunds,
the rotation of session tokens, the map reader's hashes, the order of shutdown, and two processes that write
one snapshot row during a rollout.

Modules that are proved about use no RECURSIVE operator, name their assumptions on constants, and have one
action per operation, so that a proof has one step per action.

## What is modelled

### AgentCommands and CommandLife

One server end to end. `kind`, `credential` and `lock` are the server's row, `status` and `created`
the rows of `agents.commands`; `reply` and `inbox` are the answers and reports in the network;
`pc`, `batch`, `cur`, `tries`, `ledger` and `begun` are the agent's runner; `game` is the setting
the game holds.

| Actions | Code |
|---|---|
| `BeginRequest`, `LockServer`, `AbandonRequest`, `CommitRequest` | `commandsService.ts` `requestAutoPause`: the transaction begins (its `now()` stamps the row), locks the server row and checks under that lock, commits or not |
| `Revoke`, `Enroll`, `SwitchToLocal` | `agentsService.ts`, `installAgentCredential`, `serverManagement.ts` with `releaseAgent.ts`: transactions under the same lock |
| `StartPoll`, `Claim`, `ReceiveReply`, `PollFails` | the runner's poll; `CLAIM_OPEN` marks open rows `sent` and hands them out |
| `SkipCommand`, `RepeatResult`, `StartRun`, `FinishRun`, `BatchDone` | `commandRunner.ts` `handle` and `execute`; `ledger.ts` `begin`, with its purge and eviction in the same step |
| `SendResult`, `HandleReport`, `LoseReport`, `AttemptFails` | `report` with its retries; `completeCommand`, the guarded UPDATE and what follows when it matches no row |
| `ExpireStale`, `PurgeOld`, `Tick` | `commandSweeper.ts` and the database clock |
| `Restart`, `AdjustClock` | the agent process starts again with an empty ledger; its clock is changed |

Created and commit order may differ: two requests begin in one order and get the row lock in the
other. A poll that was given up on may still claim, because `Claim` belongs to the next poll of the
same runner: all an abandoned claim changes is pending to sent, and both are open. A report the
agent gave up on stays in `inbox` and may be handled much later.

`CommandLife` is the promise to the person who asked: a command is asked for once and ends once,
its result is one the agent got, and nothing changes after the end. `AgentCommands` implements it
under the mapping `pending, sent -> open` (`KeepsPromise`).

### LongPoll

The steps between two awaits of `GET /commands`, for several connections at once: admission by
secret, `openPolls` (`slot`) aborting the previous poll, `subscribe` before the first look, the
look, the wait, the wake-up, the second look, the answer and the two `finally` blocks (`Close`).
`waiters` and `arrival` are the notifier's set and its insertion order with the cap and eviction.
Commits and their `notify()` are two steps. Hang-ups and failed queries can come anywhere.
`AgentCommands` does not repeat this: there a poll ends and whatever it returns was claimed; that what is
open is indeed returned is `CommandsAreDelivered`.

### LeaderLock

The database has sessions (`alive`), one of which may hold the lock (`holder`). An instance has one
queue of steps; `pc` says what the running step is waiting for: a connect, the try, the check, the
callbacks, the unlock or the close. Anything may happen during a wait: `stop()` sets `stopped` and
queues its step, client errors queue a `lose` step, sessions end, the process dies.

| Actions | Code |
|---|---|
| `TimerFires`, `Stop`, `ErrorEvent` | what queues a step: `schedule`, `stop`, the error listener of `connected` |
| `BeginTick`, `Connected`, `ConnectFails`, `TryGranted`, `TryRefused`, `CheckPasses`, `QueryFails` | `tick`, cut at its awaits |
| `FinishAcquire`, `FinishLose`, `FinishStepDown` | the end of the callbacks wired in `server.ts` (`LeaderWorkerGroup` start and stop) |
| `BeginLose` and `Lose` | `lose`: the client is dropped only after `onLost` |
| `BeginStop`, `LetGo`, `Unlock`, `End` | the step of `stop()` |
| `SessionEnds`, `Sever`, `Die` | Postgres, the network and the operating system |

`severed` remembers sessions the database ended while the instance still used them; `closing` those
the instance closed. A query that fails on a live session may have been granted the lock. `client`
is the number of the client, so that an older client's late error is told apart.

### ServerRuntime

`row` is the database's view of a server (none, an agent's, or polled with a version of its connection),
`entry` the runtime's `byId`, `pollers` how many sets of pollers really run, `op` what holds the mutex of
server writes, `attach` and `asked` the attach of an agent's server, which runs outside it.

| Actions | Code |
|---|---|
| `Create`, `Update`, `Remove`, `SwitchToLocal`; `Replaces`, `Removes`, `SwitchDrops`, `SwitchAdds` | `serverManagement.ts`, `selfServe.ts`, `pendingServerSweeper.ts`: the commit, then what the runtime does, under the mutex; a switch waits for the old entry's workers in between |
| `Put`, `Drop`, `Replace`, `Add`, `SetLeader`, `Stop` | `serverRuntime.ts`; workers are one-shot, so an entry's pollers are fresh, on or spent |
| `ReloadStarts` .. `ReloadEnds`, `ReloadFails` | `reconcileDatabaseServers`: two listings with a read between, then drops, additions and attaches in the code's order |
| `Snapshot`, `Enroll`, `AttachStarts`, `AttachNames`, `AttachAdds`, `AttachChecks`, `AttachTakesBack`, `AttachFails` | `attachAgentRuntime` and `addUnlessRemoved` |
| `Elected`, `Leads`, `Lost`, `OtherWrites` | the callbacks of the leader lock, and the process that leads meanwhile |

### PushQueue

The sample loop, the bounded queue, the pusher and `POST /snapshots` of one agent. A request the agent gave
up on stays in `uploads` with its connection open until the backend notices, so the retry of the same
snapshot may meet it (`AdmitUpload` answers busy). `BackendRestarts` drops what was under way.

### LatestStore, AgentIngest, SnapshotRow

`LatestStore` has the operators of `LatestSnapshotStore`: record a snapshot, keep a newer part over an older,
restore from a row. `AgentIngest` feeds it with snapshots in any order, repeated, dated by an agent's
clock that may be wrong, over loads of other saves; it adds the power chart and the history rows. A snapshot whose
time is further from its arrival than the tolerance (`Near`) is dated with its arrival; `redated` remembers
that one was. Both clocks begin at `Start`, so that no reading is older than the beginning of time, and `NoSave`,
the code's `undefined`, is no save.
`SnapshotRow` adds the load on start (which may be late or fail), the periodic and final writes, the
guarded upsert and a process that stops or dies at any point. The code lets the row differ from the store in two
ways, and so does the model: `ToWrite` leaves a factory out that is over `LATEST_FACTORY_MAX_BYTES` (the constant
`Oversized` says which readings are), though the key of the whole state is taken for written; and a load may drop any
stored part that no longer fits its schema (`Unreadable`), over which the next write puts nothing. `lost`
remembers what a load dropped until the row is replaced. `RowNeverGoesBack`, `StopSaves` and
`RowCatchesUp` say exactly how far the row may differ for these two reasons (`Omits`, `Saved`).

| Actions | Code |
|---|---|
| `Sample`, `Load`, `Arrives` | the agent's sampler, the game, and `AgentIngest.ingest` as a whole (`Ingest`) |
| `Boot`, `FetchRow`, `ApplyRow`, `LoadFails`, `LoadIsLate` | `loadLatestSnapshot` and the two seconds that `ready` waits for it |
| `Arrive`, `TimerFires`, `Flush`, `BeginWrite`, `Send`, `ToWrite`, `UpsertLands`, `UpsertReturns`, `UpsertFails`, `AfterWrite` | `LatestSnapshotWriter`: one write at a time, one more asked for meanwhile |
| `Stop`, `LastWrite`, `Exit` | `stop`, `finalFlush`, the end of the process |

### Enrollment

Transactions `tx` read, wait for the lock of the server's row, then for the pairing's, and their writes are
seen when they commit. `era` counts how often the agent was let go, `madeIn` remembers in which era a code
was made, `mints` how often it gave a credential.

| Actions | Code |
|---|---|
| `StartsOnServer`, `StartsEnroll`, `StartsApprove`, `StartsApproveNew`, `StartsPoll` | the beginnings of `enrollmentService.ts`, `agentsService.ts`, `pairingService.ts`, `releaseAgent.ts`, `serverRepository.ts` |
| `Peek`, `LocksServer`, `LocksPairing`, `Retries`, `SlowsDown`, `RollsBack` | `peekPairingServer`, the row locks and what is decided under them, the three attempts of `poll` |
| `CommitsCode`, `CommitsEnroll`, `CommitsApprove`, `CommitsPoll`, `CommitsRevoke`, `CommitsRelease`, `CommitsRemove` | what each transaction writes |
| `CodeExpires`, `PairingExpires` | ten minutes, fifteen minutes, the sweep |

### AlertState, AlertEvaluator, AlertDelivery

`AlertState.Step` is the state machine of one subject (`alertStateMachine.ts`). `AlertEvaluator.Evaluate`
is one tick of one server: what the readings say of each subject, suppression and its end, the steps,
the hourly quota, and the one transaction after which the evaluator's memory advances (`Advance`); the write may
fail, or succeed without an answer. `stateRows` are the subjects with a row in `alerts.alert_state`, which may say `ok`:
a rule goes on evaluating them, and they count towards its limit of circuits until a fresh reading no longer has the
circuit (`Forgotten`). The log is a set of pairs of an age and a subject, as one evaluation
writes at most one event of each, to the end of the quota's window. `AlertDelivery` is the outbox: `Claim` under a lease with a limit per
server, then per row `Deliver`, `Answer` or `Limited`, `Record`, and `OutOfTime`, `Release` when the budget
of the tick is used up. `Tick` is time, `Abandon` a tick whose process died, `Save` and `Disable` the
settings.

### ServerManager

`sup` is the supervisor, `proc` the operating system's processes, `file` the pid file, `waiters` what awaits
the pending stop. The app may quit or be started again at any time; processes live on.

| Actions | Code |
|---|---|
| `Start`, `Stop`, `Restart`, `Update`, `StopAndQuit`, `Forget` | the buttons and the tray, `main.ts` |
| `Spawned`, `SpawnFails`, `ProcEnds`, `EndEvent` | `launch`, `watch`, `onEnded` with its restarts in ten minutes |
| `TokenRead`, `Saved`, `SaveFails`, `ShutDownAnswered`, `TimerFires`, `KillCheck` | `cleanStop` and `forceStop`, cut at their awaits; `watchPid.kill` reads the command line first |
| `UpdateEnds` | `runUpdate` |
| `Quit`, `AppStarts`, `AdoptReads`, `AdoptEnds` | the session's end, `leftoverPid`, `findLeftover`, `adopt` |

## Runs

Each run checks what the proofs do not settle, and the statements whose failure would show first if a
model went wrong. A type invariant or a lesser invariant that is proved for every value of the constants
(see [Proofs](#proofs)) is not checked again, unless another property rests on it.

| Run | Bounds | Shows |
|---|---|---|
| `commands_safe` | two commands, a clock right or a tick behind, one restart, one set-back | a command runs at most `1 + restarts + set-backs + evictions` times; none waits on a server that went local; a confirmed change is not undone by one older in creation and commit; `CommandLife` is implemented |
| `commands_ends` | two commands, room for one, a new credential, a clock too slow to see them expire; fair | the cap holds, every command ends |
| `longpoll` | two polls, one command, two secrets, two losses; fair | no lost wake-up; one waiter, and nothing of a finished poll left; commands delivered |
| `leader` | two instances, two faults; fair | one leader, none before it has the lock; a leader again |
| `runtime` | two servers, two writes, one term, one fault; fair | each server polled by its entry on the leader alone; without faults nothing left of a removed one and a local one polled on its stored connection; an agent gets its entry |
| `push` | a queue of two, four samples, two faults; fair | every snapshot accounted for; the queue drains |
| `ingest` | two names, two times played, a clock right or behind, three arrivals, one load, a tolerance of two of four instants | the newest reading stays; reachable and outage as they were; chart, rows and generators never mix two loads; the rows' cadence |
| `row` | two parts, one of them over the cap at one instant of four, two starts, one failure of each kind, one load that cannot read all; fair | the row does not go back; a stop saves; the row catches up, so what is taken for written is in it, but for what the cap or a load left out |
| `enroll` | two transactions at once, one pairing, two codes, four begun; fair | secrets used once, codes die with the credential, no deadlock, an approved pairing is collected |
| `alerts` | two circuits and a link, a quota of one in three ticks, one fault of any kind; fair | log and states agree and the quota is kept; gaps never count; firing and resolving in the end |
| `delivery` | two processes, two rows of one webhook, one abandoned tick, one change of settings; fair | repeats only after losses; rows settle |
| `manager` | two sessions, four launches, one automatic restart, one unreadable command line; fair | never two servers, no update beside a server, saved first, stops are answered, a leftover is taken |

**Why the bounds are enough.** Two of each thing that compete (commands, polls, instances, servers,
transactions, senders, parts of a row) are the fewest for which order, eviction, locks and limits matter, and a third repeats
the pairwise situations. Lifetimes of a tick or two and a last tick just past them make a thing fresh, stale
for one clock and not for the other, and stale for both. One fault can fall at every point of every
behaviour, and two allow a fault during the recovery from one (`leader`, `push`, `longpoll`). `push`: with a
queue of two, four samples drop the head while it is in flight and again while it is retried. `runtime`:
two writes give a switch and a switch back, or a removal and a re-creation. `ingest`: three arrivals
are the fewest for new, late, new again, and a snapshot that comes three instants late is beyond the tolerance. Its one
load misses none (`NoLoadMissed`); two loads between two snapshots are beyond the run's five minutes, and
in the proof. `row`: the factory is over the cap after it fitted and before it fits again, so that it leaves the
row and comes back. `enroll`: two codes show that making the second drops the first,
and four transactions allow a code, its enrolment, a release and another. `delivery`: a lease of three
is just what a budget of one, a call and a release of one each need (`InTime`), so a tick can run out of time
at every place and a lease end right behind it; both rows go to one webhook, since the second of a batch then
waits for the first and is passed over when the first was told to; a backlog of more than a batch, and the rows of
push subscriptions, are not in the run. `manager`: four launches are needed: with three, a restart of a
restarted server that is left over and taken by a second session does not happen. The proofs remove
the bounds for the safety properties they cover.

**Fairness.** Faults are never fair, and in no run is an answer assumed to come. `commands_ends`: time passes,
the sweeper runs again (it re-arms its timer whether or not a sweep failed), and the runner is one loop in
which every call has a timeout. `longpoll`: the event loop runs every handler and armed timer, `notify()`
follows its commit in the same continuation, and the agent polls again. `leader`: queues and timers run,
queries have a `query_timeout`, callbacks end (the reload in `onAcquired` is bounded by
`RELOAD_ON_LEADERSHIP_MS`), and the database notices a closed connection, by its keepalives at the latest.
`runtime`: the event loop serves what is under way, and an agent goes on sending. `push`: the loops of the
agent go on, every request has a timeout, the backend handles or closes what it has. `row`: timers fire and
statements return or fail. `enroll`: strong fairness of each transaction's next step (the database queues
waiters of a row lock, so a lock that is free again and again is granted) and of the agent's polls. `alerts`:
the evaluator ticks. `delivery`: time passes, claims are tried, a sender's calls end. `manager`: the event
loop goes on and a process the system was told to end ends.

**Deadlock.** The commands and poll runs check it. The others do not, because there the system may
rightly stop: instances stopped, samples, writes or launches used up.

**Mutants.** Each property of a run is broken by a plausible bug in one definition, kept before that
definition in its module and marked `Mutant`.

## Where code and comments differ

Met while modelling; the properties above are stated so that they hold of the code.

- `commandRepository.ts:82`: an agent that restarted before reporting "de-duplicates by id"; the ledger is a
  `Map` in memory, so it runs the command again (`RunsWithinForgetting` counts that). The command sets a
  value, so a second run is harmless unless a newer change came between.
- `commandRepository.ts:196`: commands ended by the switch to local "will not run"; those already handed out do.
- `commandRepository.ts:81`: a poll begun before a revoke gets nothing when it wakes; if another agent was
  enrolled meanwhile, it gets that agent's commands.
- `latestSnapshotWriter.ts:15`: over the cap the row carries no factory; the reading it had before goes too, and as
  the key of the whole state is taken for written, only another change writes the row again
  (`RowNeverGoesBack` and `StopSaves` allow that). A part that a load could not read likewise stays in the
  row until something changes, and is gone with the next write.
- `latestSnapshotWriter.ts:28`: a partial state never replaces the row; `ready` also resolves when the load failed
  or took over two seconds, and the first flush then does (`RowNeverGoesBack` has `lateLoads = 0`).
- `agentSnapshotStore.ts:114`: a late snapshot never replaces a newer reading; of a clock that is ahead it does.
  `agentIngest.ts:18`: that old data cannot look fresh; a snapshot more than a minute late is dated with its
  arrival, so it replaces newer readings, and one on time may then be refused as the late one. The statements about
  order therefore have `skew <= 0` and `~redated`.
- `agentIngest.ts` tells a load from the session's name and a game time that went back: two loads between two
  snapshots, the second of the first save further on, are not noticed, and the chart then spans
  two loads (`NoLoadMissed`).
- `agentApi.ts:153`: an agent "never waits on" the one-upload limit; after a timeout its retry is refused until
  the old connection is seen to close.
- `serverManagement.ts:394`: no duplicate-id error in the switch; an attach under way, which takes no such lock,
  can cause one. `runtimeGuard.ts:9`: "either way none is left"; not when the second read fails. Both are
  `faults` in `ServerRuntime`.
- `loadDatabaseServers.ts:152`: an enrolled server is never built as a polled one; one enrolled after both listings
  is, until its next snapshot (`AgentGetsItsEntry`).
- `releaseAgent.ts:10`: only a fresh code brings an agent back after the switch to local; an approved pairing not
  yet collected does too (`OldCodesAreDead` speaks of codes).
- `alertDeliveryWorker.ts:154`: handing rows back is not bounded by the budget, so a slow release can make due
  a row that another process is sending (`InTime` in `AlertProofs`). `:222`: a second attempt is taken for
  a repeated 404. `deliveryRepository.ts:93`: an answer of the replaced webhook switches the new one off.
- `serverAlertEvaluator.ts:155`: a gap never counts; that there was one is kept in memory, so after a restart
  during a mute it does (`GapNeverCounts` has `troubles = 0`).
- `leftoverServer.ts`: a second server is "the one thing this app must never cause"; when the command line cannot be
  read, `watchPid.kill` reports the process as gone, which frees Start (`NeverTwo` counts unreadable ones).
- `updater.ts`: "the caller makes sure the server is stopped first"; a Restart still awaited when the update
  begins starts it beside SteamCMD, as does quitting the app during an update (`mixed`).

## Proofs

Checked by TLAPS for every value of the constants that satisfies the named assumptions; the bounds
of the runs are arbitrary parameters there. Each module proves `Init => IInv`,
`IInv /\ [Next]_vars => IInv'`, one lemma per action, and `IInv => property`.

| Module and theorems | State | Inductive invariant, and why it takes that |
|---|---|---|
| `AgentCommandsProofs`: `TypeCorrect`, `RunsBounded` | `TypeOK`, `RunsWithinForgetting` | A command that was run is in the ledger for as long as it is fresh by the agent's clock, or a forgetting was counted for it (`RunsRemembered`): the count is strengthened per command by what the ledger holds. |
| `PromiseKept` | `KeepsPromise` | Refinement, one step per action. It needs that a result in the network or the ledger came from the game (`ResultsFromGame`) and that a run command was committed (`CommittedFirst`). |
| `CapHolds` | `OpenWithinCap` | While a request is past its checks it holds the lock, and the rows live at its stamp are below the cap (`CheckedUnderLock`); the clock only makes live rows fewer. |
| `ConfirmedStays` | `ConfirmedNotUndone` | `OInv`: while nothing is forgotten, a command that may yet run is newer than all that ran, and what is not in the agent's hands is newer than what is (`InOrder`), because a poll claims every live command, the runner takes them oldest first, and a commit is newer than all before it (`Serials`). So the run under way is newest (`RunsInOrder`), and the game holds the newest of those that succeeded (`GameKept`). |
| `LocalWaitsForNothing` | `NothingWaitsOnLocal` | A request past its checks holds the lock, so no switch can have come since (`LockHeld`). |
| `AgentTrafficProofs`: `AtMostOneWaiter`, `NoWakeUpIsLost` | `OneWaiter`, `NoLostWakeUp` | `MissedNothing` extends the property from waiting polls to those between subscription and wait: what is open and not among their rows is unannounced. |
| `LeaderLockProofs`: `WorkersRunOnce`, `StopIsForGood`, `TermsApart` | `OneLeader`, `StoppedForGood`, `TermsDoNotOverlap` | Running workers imply a term or a wait for `onLost`, and during both the session in use holds the lock or was severed (`WorkersHeld`). Closed session numbers are below every new one (`Numbered`), so the end of a closed session never frees the lock of one in use; `Placed` ties each await to the flags, `Stopping` makes a stop final. |
| `ServerRuntimeProofs`: `TypeCorrect`, `PolledOnce` | `TypeOK`, `PolledByItsEntry` | The pollers that run are those of the entries, on the leader; inductive nearly as it stands, faults included. |
| `RemovedLeavesNone`, `StoredIsPolled`, `RowsAreFollowed` | `NoneLeft`, `LocalIsPolled`, `RuntimeFollowsRows` | `Agrees` says, without faults, what every operation still has to do at each of its steps: what it carries is the row (`Carried`), what a reload listed is in the rows and the other way round, unless another process wrote since (`ListedAsStored`), an entry without a row has somebody coming to drop it (`Leaving`), a polled entry has the row's connection or somebody coming to replace it (`Current`), and the leader's entries run (`Ready`). |
| `UploadsTyped`, `NoneIsLost`, `OldestGoFirst`, `OneUpload` | `PushTypeOK`, `Accounted`, `OldestFirst`, `OneIsRead` | `Fine`: uploads are of taken snapshots, what was answered ok came, and at most one upload that is open is read. Rests on lemmas about `RemoveAt`, `Tail` and `Append`: which elements stay, and that they stay in order. |
| `SnapshotProofs`: `RowTyped`, `RowGoesOn`, `StoppingSaves` | `RowTypeOK`, `RowNeverGoesBack`, `StopSaves` | `RowInv`: one process at most is there; a store that was touched is no older than the row (`Sound`); the write under way is of the store as it was, and the row is that write or older (`Sending`); the row is that of a state (`Carries`) between what is taken for written and the store (`Writing`), in the order `Before` of the keys that tell states apart; after loads in time the store has all of the row that could be read (`Loaded`, `Covers`), and nothing in the row is over the cap (`Fits`). Rests on what recording, restoring and leaving parts out do to each field (`RecordFields`, `WithoutFields`, `ToWriteFields`). |
| `IngestTyped`, `NewerReadingStays`, `HistoryKeepsCadence` | `TypeOK`, `NewerStays`, `RowsKeepCadence` | Snapshots are told apart by their times, and of two neighbouring loads the save tells (`GameInv`); as long as the clock is not ahead and none was redated, what is kept is dated as it was taken (`ReadingInv`), so that comparing dates compares readings. |
| `OutagesAreTold`, `LoadsDoNotMix` | `OutageIsTold`, `LoadsStayApart` | The store's state is that of a snapshot than which none is newer, and an outage has the date of its run's first (`OutageInv`). In order, session and status are of the last snapshot of a game that answered, and without a missed load the chart and the generators are of its load (`LoadInv`). |
| `EnrollmentProofs`: `TypeCorrect`, `GivesOnce`, `OneCode`, `RemovedIsEmpty`, `LocksAreOrdered`, `RetriesEnd`, `CodesDie` | `TypeOK`, `SingleUse`, `OneLiveCode`, `RemovedKeepsNothing`, `NoDeadlock`, `RetriesSuffice`, `OldCodesAreDead` | What a transaction decided under a lock stays true while it holds it (`Kept`, `Found`); each place in a transaction holds exactly the locks it should, the server's before the pairing's (`Locking`); what gave a credential is spent or gone and gives none again, and an open code is of this era (`Once`); at most one code is open (`OneOpen`); a second attempt means the pairing was approved meanwhile (`Retried`). |
| `AlertProofs`: `TypeCorrect`, `OneAtATime`, `LossesOnly` | `TypeOK`, `OneSender`, `RepeatsOnlyLosses` | A tick's claimed rows are in turn order and different (`Queueing`, `Distinct`), two ticks have none in common that may still be sent (`Apart`), each such row is leased for longer than the tick can still take (`Leased`, `Timed`), and every acceptance is a first, an answered loss, or counted (`Counted`). |
| `AlertsTyped`, `LogAgrees` | `AlertsTypeOK`, `LogIsKept` | `LogIsKept` itself, with `StatesProper`: a state that is not firing tells its last answer, so a step says whenever it begins or ends an alert (`Steps`), and a fire without room goes back to pending. Of a set, `Lowest` takes no more than it is asked for (`LowestFew`: a member is placed by how many are below it), and an hour that passes adds nothing to the log (`ShiftedFew`), so what is kept fits the room (`LogFits`). |
| `GapsDoNotCount` | `GapNeverCounts` | `Watched`: what is pending has been observed true, and what is clearing false, for longer than the state says, unless the evaluator remembers a gap; then resuming starts it again (`GetsReady`). A circuit whose state is more than `ok` has a row (`RowsKept`), so its rule evaluates it however many circuits there are. |
| `ServerManagerProofs`: `TypeCorrect`, `OneServer`, `PidFileNames`, `UpdatedAlone`, `SaveComesFirst` | `TypeOK`, `NeverTwo`, `PidFileTells`, `UpdatesAlone`, `SavedFirst` | Processes are numbered by launch (`Numbered`) and no more were born than launches account for (`Credit`); while command lines can be read, the server is the supervised process or the one the pid file names (`Supervised`, `Spawning`); without saving only what was asked for in this stop is killed (`Excused`); an update has the folder (`Updating`); what a new session looks at was up and is not yet adopted (`Adopting`). |

**Assumed**: the constants' named assumptions, which TLC evaluates in the runs, and nothing else, but for
two hypotheses. In `LongPoll`, `MaxWaiters` is at least 2 (the code has 3): with 1 the cap would evict
the poll that is just arriving in its place. `ConfirmedStays` has the hypothesis `InSight`:
the agent's clock is behind by at most the difference of `MAX_COMMAND_LIFETIME_MS` and the commands' time to
live (nine minutes in the code). With a clock further behind, the property is false: a fresh command looks too
far from its expiry and is dropped unrun, and when the clock has been put right it may be delivered again after a
newer one was confirmed. The run `commands_safe` satisfies it. The theorems about `AlertDelivery` have the
hypothesis `InTime`: a tick's budget, one call that begins just before its end and the releases of the other rows fit in
the lease. In the code the lease is 120 s, the budget 60 s, a call to Discord or the push service takes 10 s or
5 s at most and is followed by a write, and the last nine rows of a batch are given back one by one. With
releases that take milliseconds the bound holds with much to spare; a release may take up to 15 s, however
(5 s for a connection, 10 s for the statement), and nine of those do not fit. That is why it is a hypothesis
and not an assumption about the constants. It is satisfiable: the run `delivery` has it with equality.

Among the assumptions, `KindAssumption` says that a game that answers gives its status, and one that does not gives
nothing, as the agent's sampler does; `ArrivalAssumption` the same of what `SnapshotRow` gets, and `OversizedAssumption` only that `Oversized` is a set of
readings; `SaveAssumption` that the
code's `undefined` is no save; `TimeAssumption` that both clocks begin past the time that stands for never.

`RuntimeFollowsRows` is about behaviours without faults: with one (a read that fails, an attach that overtakes a
switch), the code itself may leave an entry until the next reload, as
[above](#where-code-and-comments-differ). `OneServer` is about what `kill()` could read.

## Limits

**Only model-checked.** Every liveness property (`CommandsEnd`, `CommandsAreDelivered`, `SomeoneLeads`,
`RowCatchesUp`, `QueueDrains`, `AgentGetsItsEntry`, `ApprovedIsCollected`, `RowsSettle`, `AlertsAreTold`,
`StopResolves`, `LeftoverTaken`): the proof system has no ENABLED, which fairness is made of. Every safety property
that a run checks has a theorem.

**Abstracted.**

- *Commands.* Ids are numbers that order like the code's tie-break; a command's content is its id, and its effect
  is that the game holds it. Error codes are one value. A poll hands out every open command: the code's limit of
  20 per poll is above its cap of 5 open. Identical reports of one command merge in `inbox`. Authentication and
  completion of a report are one step: a revocation between the two queries would let one report of the old
  secret through. A game call that timed out is applied when it fails at the latest, so what the game does later with
  it is not covered (`ConfirmedNotUndone`). Rate limits and 503 appear as lost calls. Rows are purged by age since creation, which is
  earlier than the code does.
- *Long-poll.* The notifier's cap cannot be reached through the route (`OneWaiter`), but it is modelled.
- *Leader lock.* A failed `onAcquired` leaves no worker running, where some may run in the code, and keeps the
  leadership as in the code. Log messages and the failure streak are left out.
- *Runtime.* Display names are left out, a connection is a version number. The id of a self-served server is
  never used again. Another process writes only while this one is not elected. Operations get the mutex in any
  order, and at most one reload waits.
- *Push.* An answer that refuses a snapshot for good drops the head: a 3xx, which the agent never follows,
  as well as a 4xx other than 401 and 429 (`backendClient.ts:212`).
- *Snapshots.* `ingest`: interval and capacity are small, one load of a save. `row`: one process at a time, whose
  last statement has landed, or never will, before the next one reads; snapshots in order; the server is not
  removed. `RowNeverGoesBack` speaks of starts that found the row in time. The reading of the auto-pause setting, which
  the store and the row carry beside the parts, is left out.
- *Enrolment.* A transaction's effects appear at its commit; the locks of code rows are always taken under the
  server's. When something expires is not tied to a clock; the purge does not wait.
- *Alerts.* A reminder comes every tick (`Repeat = 1`). Alerts of groups of machines and the writes of the game connection
  are left out. `GapNeverCounts` speaks of behaviours without faults. In the outbox, instants are distances from
  now, and of overdue rows only their order is kept. Removing a destination, subscribing, "Send test", wording
  and the `Retry-After` of a push service's 5xx are left out.
- *Server manager.* Processes are not renumbered, so a pid is never reused while it matters; a dead pid in the file
  is no pid. A call to the game's API reaches the process it was made for; of a clean stop that is out of date only
  the waiters stay. A spawn reports before the app can quit. `Forget` is a restart that leaves the window. The choice of folders,
  usage figures, the agent's panel and disk errors on the pid file are left out.

**Not modelled.** The login limiter's refunds, the rotation of session tokens, the map reader's hashes per
layer, the order of shutdown, and two processes that write one snapshot row during a rollout: each is a
statement or a counter, not a protocol. User interface, data mapping, schemas, deployment and tooling
are not intended; PROJECT.json gives the reason component by component.
