------------------------------ MODULE LeaderLock ------------------------------
(***************************************************************************)
(* One leader among the backend instances (leaderLock.ts, leaderWorkers.ts *)
(* and their wiring in server.ts): a session advisory lock of the          *)
(* database, held through a client of its own, decides which instance runs *)
(* the workers that must run once.  Each instance takes its steps (a tick, *)
(* an error of a client, stop) one at a time from one queue; a step waits  *)
(* for the database and for the workers, and anything may happen meanwhile.*)
(***************************************************************************)
EXTENDS Naturals, Sequences

CONSTANTS
    Instance, \* the backend processes of a rollout
    None,     \* not a session
    MaxFaults \* bound: broken connections, failed queries and deaths

ASSUME NoneAssumption == None \notin Instance \X Nat
ASSUME BoundAssumption == MaxFaults \in Nat

VARIABLES
    \* the database: its sessions are <<instance, number of the client>>
    alive,    \* the sessions it has open
    holder,   \* the session that holds the lock
    severed,  \* history: the sessions that ended though nobody closed them
    closing,  \* the sessions whose client was closed, or whose process died
    \* per instance
    queue, pc,
    inTick,   \* the running step is a tick: it schedules the next one
    timer,
    client,   \* this.client, 0 if undefined
    created,  \* clients created so far
    dropped,  \* the client a running step is letting go of
    locked, leader, stopped,
    halted,   \* the promise of stop() is resolved, or the process died
    workers,  \* the leader-only workers run
    faults

dbVars == <<alive, holder, severed, closing>>
stepVars == <<queue, pc, inTick, timer>>
lockVars == <<client, created, dropped, locked, leader>>
vars == <<dbVars, stepVars, lockVars, stopped, halted, workers, faults>>

PC == {"idle", "connecting", "trying", "checking", "acquiring", "losing", "stepping", "unlocking", "ending"}
TickStep == [kind |-> "tick", client |-> 0]
StopStep == [kind |-> "stop", client |-> 0]
LoseStep(g) == [kind |-> "lose", client |-> g]
Step == [kind : {"tick", "lose", "stop"}, client : Nat]

\* The session an instance uses, or is letting go of.
Using(i) == <<i, IF client[i] # 0 THEN client[i] ELSE dropped[i]>>
Session(i) == <<i, client[i]>>
Without(s) == IF holder = s THEN None ELSE holder

\* start() was called on every instance.
Init ==
    /\ alive = {} /\ holder = None /\ severed = {} /\ closing = {}
    /\ queue = [i \in Instance |-> <<>>]
    /\ pc = [i \in Instance |-> "idle"]
    /\ inTick = [i \in Instance |-> FALSE]
    /\ timer = [i \in Instance |-> TRUE]
    /\ client = [i \in Instance |-> 0]
    /\ created = [i \in Instance |-> 0]
    /\ dropped = [i \in Instance |-> 0]
    /\ locked = [i \in Instance |-> FALSE]
    /\ leader = [i \in Instance |-> FALSE]
    /\ stopped = [i \in Instance |-> FALSE]
    /\ halted = [i \in Instance |-> FALSE]
    /\ workers = [i \in Instance |-> FALSE]
    /\ faults = 0

Fault == faults < MaxFaults /\ faults' = faults + 1

\* The running step is over; a tick schedules the next one unless stop() was called.
StepOver(i) ==
    /\ pc' = [pc EXCEPT ![i] = "idle"]
    /\ inTick' = [inTick EXCEPT ![i] = FALSE]
    /\ timer' = [timer EXCEPT ![i] = @ \/ (inTick[i] /\ ~stopped[i])]
Await(i, at) == pc' = [pc EXCEPT ![i] = at] /\ UNCHANGED <<inTick, timer>>
Running(i, at) == pc[i] = at /\ UNCHANGED queue

-----------------------------------------------------------------------------
(* The queue.                                                              *)

TimerFires(i) ==
    /\ timer[i]
    /\ timer' = [timer EXCEPT ![i] = FALSE]
    /\ queue' = [queue EXCEPT ![i] = Append(@, TickStep)]
    /\ UNCHANGED <<dbVars, pc, inTick, lockVars, stopped, halted, workers, faults>>

Stop(i) ==
    /\ ~stopped[i]
    /\ stopped' = [stopped EXCEPT ![i] = TRUE]
    /\ timer' = [timer EXCEPT ![i] = FALSE]
    /\ queue' = [queue EXCEPT ![i] = Append(@, StopStep)]
    /\ UNCHANGED <<dbVars, pc, inTick, lockVars, halted, workers, faults>>

Dequeue(i, kind) ==
    /\ pc[i] = "idle" /\ queue[i] # <<>> /\ Head(queue[i]).kind = kind
    /\ queue' = [queue EXCEPT ![i] = Tail(@)]

\* A tick connects, tries for the lock, or checks the session that holds it.
BeginTick(i) ==
    /\ Dequeue(i, "tick")
    /\ IF stopped[i]
       THEN UNCHANGED <<pc, inTick, client, created>>
       ELSE /\ inTick' = [inTick EXCEPT ![i] = TRUE]
            /\ IF client[i] = 0
               THEN /\ created' = [created EXCEPT ![i] = @ + 1]
                    /\ client' = [client EXCEPT ![i] = created'[i]]
                    /\ pc' = [pc EXCEPT ![i] = "connecting"]
               ELSE /\ pc' = [pc EXCEPT ![i] = IF locked[i] THEN "checking" ELSE "trying"]
                    /\ UNCHANGED <<client, created>>
    /\ UNCHANGED <<dbVars, timer, dropped, locked, leader, stopped, halted, workers, faults>>

-----------------------------------------------------------------------------
(* Losing the client, in a tick or after an 'error' event.                 *)

\* Mutant: the client is closed before the workers have stopped.
LoseClosingFirst(i) ==
    /\ client' = [client EXCEPT ![i] = 0]
    /\ locked' = [locked EXCEPT ![i] = FALSE]
    /\ leader' = [leader EXCEPT ![i] = FALSE]
    /\ closing' = closing \cup {Session(i)}
    /\ IF leader[i]
       THEN dropped' = [dropped EXCEPT ![i] = client[i]] /\ Await(i, "losing")
       ELSE StepOver(i) /\ UNCHANGED dropped
    /\ UNCHANGED created
\* Mutant: the tick that failed schedules no other.
LoseForEver(i) ==
    /\ client' = [client EXCEPT ![i] = 0]
    /\ locked' = [locked EXCEPT ![i] = FALSE]
    /\ leader' = [leader EXCEPT ![i] = FALSE]
    /\ inTick' = [inTick EXCEPT ![i] = FALSE]
    /\ IF leader[i]
       THEN /\ dropped' = [dropped EXCEPT ![i] = client[i]]
            /\ pc' = [pc EXCEPT ![i] = "losing"]
            /\ UNCHANGED closing
       ELSE /\ closing' = closing \cup {Session(i)}
            /\ pc' = [pc EXCEPT ![i] = "idle"]
            /\ UNCHANGED dropped
    /\ UNCHANGED <<created, timer>>
\* lose(): the workers stop before the client is closed.
Lose(i) ==
    /\ client' = [client EXCEPT ![i] = 0]
    /\ locked' = [locked EXCEPT ![i] = FALSE]
    /\ leader' = [leader EXCEPT ![i] = FALSE]
    /\ IF leader[i]
       THEN /\ dropped' = [dropped EXCEPT ![i] = client[i]]
            /\ Await(i, "losing")
            /\ UNCHANGED closing
       ELSE /\ closing' = closing \cup {Session(i)}
            /\ StepOver(i)
            /\ UNCHANGED dropped
    /\ UNCHANGED created

\* An older client's late error changes nothing.
BeginLose(i) ==
    /\ Dequeue(i, "lose")
    /\ IF Head(queue[i]).client = client[i]
       THEN Lose(i)
       ELSE UNCHANGED <<closing, pc, inTick, timer, lockVars>>
    /\ UNCHANGED <<alive, holder, severed, stopped, halted, workers, faults>>

\* onLost is over.
FinishLose(i) ==
    /\ Running(i, "losing")
    /\ workers' = [workers EXCEPT ![i] = FALSE]
    /\ closing' = closing \cup {Using(i)}
    /\ dropped' = [dropped EXCEPT ![i] = 0]
    /\ StepOver(i)
    /\ UNCHANGED <<alive, holder, severed, client, created, locked, leader, stopped, halted, faults>>

-----------------------------------------------------------------------------
(* The tick.                                                               *)

Connected(i) ==
    /\ Running(i, "connecting")
    /\ alive' = alive \cup {Session(i)}
    /\ IF stopped[i] THEN StepOver(i) ELSE Await(i, "trying")
    /\ UNCHANGED <<holder, severed, closing, lockVars, stopped, halted, workers, faults>>

\* The session may have been opened all the same.
ConnectFails(i, opened) ==
    /\ Running(i, "connecting")
    /\ Fault
    /\ alive' = IF opened THEN alive \cup {Session(i)} ELSE alive
    /\ Lose(i)
    /\ UNCHANGED <<holder, severed, stopped, halted, workers>>

\* A stop() that came meanwhile releases the lock; no worker starts.
TryGranted(i) ==
    /\ Running(i, "trying")
    /\ Session(i) \in alive /\ holder = None
    /\ holder' = Session(i)
    /\ locked' = [locked EXCEPT ![i] = TRUE]
    /\ IF stopped[i]
       THEN StepOver(i) /\ UNCHANGED leader
       ELSE leader' = [leader EXCEPT ![i] = TRUE] /\ Await(i, "acquiring")
    /\ UNCHANGED <<alive, severed, closing, client, created, dropped, stopped, halted, workers, faults>>

\* onAcquired is over; if it failed the instance is the leader all the same.
FinishAcquire(i, started) ==
    /\ Running(i, "acquiring")
    /\ IF started THEN UNCHANGED faults ELSE Fault
    /\ workers' = [workers EXCEPT ![i] = started]
    /\ StepOver(i)
    /\ UNCHANGED <<dbVars, lockVars, stopped, halted>>

TryRefused(i) ==
    /\ Running(i, "trying")
    /\ Session(i) \in alive /\ holder # None
    /\ StepOver(i)
    /\ UNCHANGED <<dbVars, lockVars, stopped, halted, workers, faults>>

CheckPasses(i) ==
    /\ Running(i, "checking")
    /\ Session(i) \in alive
    /\ StepOver(i)
    /\ UNCHANGED <<dbVars, lockVars, stopped, halted, workers, faults>>

\* The query failed: because the session is gone, or timed out on one that is not.  A lock that was
\* granted meanwhile is then held by a session nobody uses.
QueryFails(i, granted) ==
    /\ pc[i] \in {"trying", "checking"} /\ UNCHANGED queue
    /\ IF Session(i) \in alive THEN Fault ELSE UNCHANGED faults
    /\ granted => (pc[i] = "trying" /\ Session(i) \in alive /\ holder = None)
    /\ holder' = IF granted THEN Session(i) ELSE holder
    /\ Lose(i)
    /\ UNCHANGED <<alive, severed, stopped, halted, workers>>

-----------------------------------------------------------------------------
(* stop().                                                                 *)

\* Unlock if this session has the lock, then close.
LetGo(i) ==
    /\ client' = [client EXCEPT ![i] = 0]
    /\ dropped' = [dropped EXCEPT ![i] = client[i]]
    /\ locked' = [locked EXCEPT ![i] = FALSE]
    /\ IF client[i] = 0
       THEN StepOver(i) /\ halted' = [halted EXCEPT ![i] = TRUE]
       ELSE Await(i, IF locked[i] THEN "unlocking" ELSE "ending") /\ UNCHANGED halted

BeginStop(i) ==
    /\ Dequeue(i, "stop")
    /\ leader' = [leader EXCEPT ![i] = FALSE]
    /\ IF leader[i]
       THEN Await(i, "stepping") /\ UNCHANGED <<client, dropped, locked, halted>>
       ELSE LetGo(i)
    /\ UNCHANGED <<dbVars, created, stopped, workers, faults>>

\* onLost is over.
FinishStepDown(i) ==
    /\ Running(i, "stepping")
    /\ workers' = [workers EXCEPT ![i] = FALSE]
    /\ LetGo(i)
    /\ UNCHANGED <<dbVars, created, leader, stopped, faults>>

\* The unlock may fail: closing the connection releases the lock anyway.
Unlock(i, fails) ==
    /\ Running(i, "unlocking")
    /\ ~fails => Using(i) \in alive
    /\ IF fails /\ Using(i) \in alive THEN Fault ELSE UNCHANGED faults
    /\ holder' = IF fails THEN holder ELSE Without(Using(i))
    /\ Await(i, "ending")
    /\ UNCHANGED <<alive, severed, closing, lockVars, stopped, halted, workers>>

End(i) ==
    /\ Running(i, "ending")
    /\ closing' = closing \cup {Using(i)}
    /\ dropped' = [dropped EXCEPT ![i] = 0]
    /\ halted' = [halted EXCEPT ![i] = TRUE]
    /\ StepOver(i)
    /\ UNCHANGED <<alive, holder, severed, client, created, locked, leader, stopped, workers, faults>>

-----------------------------------------------------------------------------
(* The network and the machine.                                            *)

\* A closed session ends: the server saw the close, or its keepalives ran out.
SessionEnds(s) ==
    /\ s \in alive \cap closing
    /\ alive' = alive \ {s}
    /\ holder' = Without(s)
    /\ UNCHANGED <<severed, closing, stepVars, lockVars, stopped, halted, workers, faults>>

\* The database ends a session that is in use; the client hears of it now, or only when it asks.
Sever(s, heard) ==
    /\ s \in alive \ closing
    /\ Fault
    /\ alive' = alive \ {s}
    /\ holder' = Without(s)
    /\ severed' = severed \cup {s}
    /\ queue' = IF heard THEN [queue EXCEPT ![s[1]] = Append(@, LoseStep(s[2]))] ELSE queue
    /\ UNCHANGED <<closing, pc, inTick, timer, lockVars, stopped, halted, workers>>

\* An 'error' event of a client whose session the database still has.
ErrorEvent(i) ==
    /\ client[i] # 0 /\ pc[i] # "connecting"
    /\ Fault
    /\ queue' = [queue EXCEPT ![i] = Append(@, LoseStep(client[i]))]
    /\ UNCHANGED <<dbVars, pc, inTick, timer, lockVars, stopped, halted, workers>>

\* The process dies without a word.
Die(i) ==
    /\ ~halted[i]
    /\ Fault
    /\ closing' = closing \cup {Using(i)}
    /\ queue' = [queue EXCEPT ![i] = <<>>]
    /\ pc' = [pc EXCEPT ![i] = "idle"]
    /\ inTick' = [inTick EXCEPT ![i] = FALSE]
    /\ timer' = [timer EXCEPT ![i] = FALSE]
    /\ client' = [client EXCEPT ![i] = 0]
    /\ dropped' = [dropped EXCEPT ![i] = 0]
    /\ locked' = [locked EXCEPT ![i] = FALSE]
    /\ leader' = [leader EXCEPT ![i] = FALSE]
    /\ stopped' = [stopped EXCEPT ![i] = TRUE]
    /\ halted' = [halted EXCEPT ![i] = TRUE]
    /\ workers' = [workers EXCEPT ![i] = FALSE]
    /\ UNCHANGED <<alive, holder, severed, created>>

-----------------------------------------------------------------------------
Handle(i) ==
    \/ BeginTick(i) \/ BeginLose(i) \/ BeginStop(i)
    \/ Connected(i) \/ TryGranted(i) \/ TryRefused(i) \/ CheckPasses(i)
    \/ \E b \in BOOLEAN : FinishAcquire(i, b) \/ QueryFails(i, b) \/ Unlock(i, b)
    \/ FinishLose(i) \/ FinishStepDown(i) \/ End(i)

Next ==
    \/ \E i \in Instance :
          \/ Handle(i) \/ TimerFires(i) \/ Stop(i) \/ ErrorEvent(i) \/ Die(i)
          \/ \E opened \in BOOLEAN : ConnectFails(i, opened)
    \/ \E s \in alive : SessionEnds(s) \/ \E heard \in BOOLEAN : Sever(s, heard)

Spec == Init /\ [][Next]_vars

\* The event loop runs every step and timer, queries and callbacks come back (each has a timeout),
\* and the database ends the sessions that were closed.
FairSpec ==
    /\ Spec
    /\ \A i \in Instance : WF_vars(Handle(i)) /\ WF_vars(TimerFires(i))
    /\ WF_vars(\E s \in alive : SessionEnds(s))

-----------------------------------------------------------------------------
TypeOK ==
    /\ alive \subseteq Instance \X Nat /\ holder \in (Instance \X Nat) \cup {None}
    /\ severed \subseteq Instance \X Nat /\ closing \subseteq Instance \X Nat
    /\ queue \in [Instance -> Seq(Step)] /\ pc \in [Instance -> PC]
    /\ inTick \in [Instance -> BOOLEAN] /\ timer \in [Instance -> BOOLEAN]
    /\ client \in [Instance -> Nat] /\ created \in [Instance -> Nat] /\ dropped \in [Instance -> Nat]
    /\ \A i \in Instance : client[i] = 0 \/ dropped[i] = 0  \* one client at a time
    /\ locked \in [Instance -> BOOLEAN] /\ leader \in [Instance -> BOOLEAN]
    /\ stopped \in [Instance -> BOOLEAN] /\ halted \in [Instance -> BOOLEAN]
    /\ workers \in [Instance -> BOOLEAN] /\ faults \in Nat

\* Two instances run the leader-only workers only while the database has ended the session of one
\* of them, which has not noticed yet, and no instance runs them while it still asks for the lock:
\* no timeout, failed query, error event, stop or handover starts a follower's workers beside a
\* leader's.
OneLeader ==
    /\ \A i, j \in Instance :
          (workers[i] /\ workers[j] /\ i # j) => (Using(i) \in severed \/ Using(j) \in severed)
    /\ \A i \in Instance : pc[i] = "acquiring" => ~workers[i]

\* A term's workers are started only when those of the term before have stopped.
TermsDoNotOverlap ==
    [][\A i \in Instance : (pc'[i] = "acquiring" /\ pc[i] # "acquiring") => ~workers[i]]_vars

\* Once stop() is done the instance is out for good: it runs nothing and holds no client.
StoppedForGood ==
    \A i \in Instance : halted[i] => (~workers[i] /\ ~leader[i] /\ client[i] = 0 /\ ~timer[i])

\* There is always a leader again, as long as an instance is left.
SomeoneLeads == []<>((\E i \in Instance : leader[i]) \/ (\A i \in Instance : stopped[i]))
=============================================================================
