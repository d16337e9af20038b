----------------------------- MODULE ServerRuntime -----------------------------
(***************************************************************************)
(* The servers a backend process runs (serverRuntime.ts) and the rows they *)
(* come from.  A write of this process changes the row and then, under one *)
(* mutex, the runtime; the attach of an agent's server (server.ts) follows *)
(* an enrolment or a snapshot outside that mutex; a process that becomes   *)
(* the leader first reloads the rows, which another process wrote to while *)
(* it led.  Polled servers are polled by the leader only.                  *)
(***************************************************************************)
EXTENDS Integers, FiniteSets

CONSTANTS
    Server,
    MaxWrites, MaxTerms, MaxFaults \* bounds

ASSUME ServerRuntimeAssumption ==
    /\ IsFiniteSet(Server) /\ MaxWrites \in Nat /\ MaxTerms \in Nat /\ MaxFaults \in Nat

VARIABLES
    row,      \* the database: the server's kind and the version of its connection
    entry,    \* the runtime: byId
    pollers,  \* how many sets of pollers of the server run
    op,       \* what holds the server-write mutex
    asked,    \* an authenticated request that will attach the server if it must
    attach,   \* how far the server's attach is
    elected, leader, running,
    reload,   \* a reload waits for the mutex
    stale,    \* history: a write of another process the reload has not seen, or not applied
    faults,   \* a switch or a re-creation overtook an attach under way, a read failed, a
              \* polled server could not be built again
    writes, terms
attachVars == <<asked, attach>>
leaderVars == <<elected, leader, running, reload, terms>>
vars == <<row, entry, pollers, op, attachVars, leaderVars, stale, writes, faults>>

NoRow == [kind |-> "none", conn |-> 0]
AgentRow == [kind |-> "agent", conn |-> 0]
Local(conn) == [kind |-> "local", conn |-> conn]

NoEntry == [kind |-> "none", conn |-> 0, pollers |-> "none"]
AgentEntry == [kind |-> "agent", conn |-> 0, pollers |-> "none"]
\* buildServer: workers are one-shot, so "fresh", then "on", then "spent".
Polled(conn, state) == [kind |-> "polled", conn |-> conn, pollers |-> state]
Build(conn) == Polled(conn, "fresh")

Free == [name |-> "free", todo |-> {}]
Op(name, srv, conn) == [name |-> name, srv |-> srv, conn |-> conn]

\* What goes well, or one more fault.
Counted(isFault) == IF isFault THEN faults < MaxFaults /\ faults' = faults + 1 ELSE UNCHANGED faults

-----------------------------------------------------------------------------
(* ServerRuntime                                                           *)

\* startWorkers: an agent's server has no pollers, and a follower starts none.
Started(e) ==
    IF e.kind = "polled" /\ e.pollers = "fresh" /\ leader /\ running
    THEN Polled(e.conn, "on") ELSE e
Running(e) == IF e.pollers = "on" THEN 1 ELSE 0

\* Mutant: the entry that was replaced goes on polling.
PutBesides(s, e) ==
    /\ entry' = [entry EXCEPT ![s] = Started(e)]
    /\ pollers' = [pollers EXCEPT ![s] = @ + Running(Started(e))]
\* The new entry starts and the pollers of the old one are stopped, before anything else runs.
Put(s, e) ==
    /\ entry' = [entry EXCEPT ![s] = Started(e)]
    /\ pollers' = [pollers EXCEPT ![s] = @ + Running(Started(e)) - Running(entry[s])]

Drop(s) == Put(s, NoEntry)

\* Mutant: what is there stays.
ReplaceNone(s, e) == IF entry[s] # NoEntry THEN UNCHANGED <<entry, pollers>> ELSE Put(s, e)
\* replace refuses to put a polled entry over an agent's.
Replace(s, e) ==
    IF entry[s].kind = "agent" /\ e.kind # "agent" THEN UNCHANGED <<entry, pollers>> ELSE Put(s, e)

\* add throws on an id that is there.
Add(s, e) ==
    IF entry[s] = NoEntry THEN Put(s, e) ELSE UNCHANGED <<entry, pollers>>

\* Stepping down swaps each polled entry for a fresh one; one that cannot be built stays, its
\* one-shot pollers spent.
SteppedDown(e, failed) ==
    IF ~failed THEN "fresh" ELSE IF e.pollers = "on" THEN "spent" ELSE e.pollers

SetLeader(on, failed) ==
    /\ leader' = on
    /\ entry' = [s \in Server |->
           IF entry[s].kind # "polled" THEN entry[s]
           ELSE IF ~on THEN Polled(entry[s].conn, SteppedDown(entry[s], s \in failed))
           ELSE IF running /\ entry[s].pollers = "fresh" THEN Polled(entry[s].conn, "on")
           ELSE entry[s]]
    /\ pollers' = [s \in Server |-> pollers[s] + Running(entry'[s]) - Running(entry[s])]

-----------------------------------------------------------------------------
(* Writes of this process: the commit, then the runtime, under the mutex.  *)

Overtakes(s) == Counted(asked[s] \/ attach[s] # "no")

Write(s, r) ==
    /\ writes < MaxWrites /\ writes' = writes + 1
    /\ row' = [row EXCEPT ![s] = r]

Commits(s, r, name) ==
    /\ running /\ op = Free /\ Write(s, r) /\ op' = Op(name, s, r.conn)
    /\ UNCHANGED <<entry, pollers, attachVars, leaderVars, stale>>

Create(s) == row[s] = NoRow /\ Overtakes(s) /\ Commits(s, Local(writes + 1), "replace")
Update(s) == row[s].kind = "local" /\ Counted(FALSE) /\ Commits(s, Local(writes + 1), "replace")
\* The operator's remove, the owner's, the account's deletion and the sweep.
Remove(s) == row[s] # NoRow /\ Counted(FALSE) /\ Commits(s, NoRow, "remove")
SwitchToLocal(s) ==
    row[s].kind = "agent" /\ Overtakes(s) /\ Commits(s, Local(writes + 1), "switch")

Replaces ==
    /\ op.name = "replace" /\ Replace(op.srv, Build(op.conn)) /\ op' = Free
    /\ UNCHANGED <<row, attachVars, leaderVars, stale, writes, faults>>
Removes ==
    /\ op.name = "remove" /\ Drop(op.srv) /\ op' = Free
    /\ UNCHANGED <<row, attachVars, leaderVars, stale, writes, faults>>
\* A switch removes the agent's entry, waits for its workers and adds a polled one.
SwitchDrops ==
    /\ op.name = "switch" /\ Drop(op.srv) /\ op' = [op EXCEPT !.name = "add"]
    /\ UNCHANGED <<row, attachVars, leaderVars, stale, writes, faults>>
SwitchAdds ==
    /\ op.name = "add" /\ Add(op.srv, Build(op.conn)) /\ op' = Free
    /\ UNCHANGED <<row, attachVars, leaderVars, stale, writes, faults>>

-----------------------------------------------------------------------------
(* The reload (reconcileDatabaseServers).                                  *)

RowsOf(kind) == {s \in Server : row[s].kind = kind}
LocalRows == {[srv |-> s, conn |-> row[s].conn] : s \in RowsOf("local")}

ReloadStarts ==
    /\ reload /\ op = Free /\ reload' = FALSE
    /\ op' = [name |-> "listed", conns |-> LocalRows]
    /\ stale' = [s \in Server |-> IF stale[s] = "other" THEN "seen" ELSE stale[s]]
    /\ UNCHANGED <<row, entry, pollers, attachVars, elected, leader, running, terms,
                   writes, faults>>
ReloadListsAgents ==
    /\ op.name = "listed"
    /\ op' = [name |-> "reload", conns |-> op.conns, agents |-> RowsOf("agent"),
              todo |-> Server, gone |-> {}]
    /\ UNCHANGED <<row, entry, pollers, attachVars, leaderVars, stale, writes, faults>>

Unwanted(s) == s \notin op.agents /\ \A c \in op.conns : c.srv # s

Seen(s) == stale' = [stale EXCEPT ![s] = IF @ = "seen" THEN "no" ELSE @]
Done(s) == op' = [op EXCEPT !.todo = @ \ {s}] /\ Seen(s)

\* First what is not listed goes.
ReloadDrops(s) ==
    /\ op.name = "reload" /\ s \in op.todo /\ Unwanted(s)
    /\ Drop(s) /\ Done(s)
    /\ UNCHANGED <<row, attachVars, leaderVars, writes, faults>>

\* The entry was built from the connection that is listed.
Unchanged(s, conn) == entry[s].kind = "polled" /\ entry[s].conn = conn

\* Then the listed connections, save those the agent listing, read later, has too.
Listed(c) ==
    /\ op.name = "reload" /\ c \in op.conns /\ c.srv \in op.todo \ op.agents
    /\ \A s \in op.todo : ~Unwanted(s)
ReloadPuts(c) ==
    /\ Listed(c) /\ c.srv \notin op.gone /\ entry[c.srv].kind # "agent"
    /\ IF Unchanged(c.srv, c.conn) THEN UNCHANGED <<entry, pollers>>
       ELSE Put(c.srv, Build(c.conn))
    /\ Done(c.srv)
    /\ UNCHANGED <<row, attachVars, leaderVars, writes, faults>>
\* An agent's entry is taken for one switched back elsewhere: it goes, and a polled one is added
\* once its workers have stopped.
ReloadUnenrols(c) ==
    /\ Listed(c) /\ c.srv \notin op.gone /\ entry[c.srv].kind = "agent"
    /\ Drop(c.srv) /\ op' = [op EXCEPT !.gone = @ \cup {c.srv}]
    /\ UNCHANGED <<row, attachVars, leaderVars, stale, writes, faults>>
\* An add that throws ends the reload.
ReloadAdds(c) ==
    /\ Listed(c) /\ c.srv \in op.gone
    /\ Add(c.srv, Build(c.conn))
    /\ IF entry[c.srv] = NoEntry THEN Done(c.srv) ELSE op' = Free /\ UNCHANGED stale
    /\ UNCHANGED <<row, attachVars, leaderVars, writes, faults>>

ReloadAttaches(s) ==
    /\ op.name = "reload" /\ s \in op.todo \cap op.agents
    /\ op.todo \subseteq op.agents
    /\ IF entry[s].kind = "agent" THEN UNCHANGED <<entry, pollers>> ELSE Put(s, AgentEntry)
    /\ Done(s)
    /\ UNCHANGED <<row, attachVars, leaderVars, writes, faults>>

ReloadEnds ==
    /\ op.name = "reload" /\ op.todo = {} /\ op' = Free
    /\ UNCHANGED <<row, entry, pollers, attachVars, leaderVars, stale, writes, faults>>

\* A listing fails: logged, and the process leads with the servers it has.
ReloadFails ==
    /\ Counted(TRUE)
    /\ op.name = "listed" /\ op' = Free
    /\ UNCHANGED <<row, entry, pollers, attachVars, leaderVars, stale, writes>>

-----------------------------------------------------------------------------
(* The attach of an agent's server (attachAgentRuntime), outside the mutex. *)

\* A snapshot of a valid credential.
Snapshot(s) ==
    /\ running /\ row[s].kind = "agent" /\ ~asked[s] /\ asked' = [asked EXCEPT ![s] = TRUE]
    /\ UNCHANGED <<row, entry, pollers, op, attach, leaderVars, stale, writes, faults>>
\* An enrolment, or a self-serve server under a new id: the row is the agent's, and the attach
\* follows.
Enroll(s) ==
    /\ running /\ row[s].kind # "agent" /\ Counted(row[s] = NoRow /\ (asked[s] \/ attach[s] # "no"))
    /\ Write(s, AgentRow)
    /\ asked' = [asked EXCEPT ![s] = TRUE]
    /\ UNCHANGED <<entry, pollers, op, attach, leaderVars, stale>>

\* An entry that is there gives the name at once; otherwise the row is read for it.
AttachStarts(s) ==
    /\ asked[s] /\ attach[s] = "no" /\ asked' = [asked EXCEPT ![s] = FALSE]
    /\ IF entry[s].kind = "agent" THEN UNCHANGED <<entry, pollers, attach>>
       ELSE IF entry[s] # NoEntry
       THEN Replace(s, AgentEntry) /\ attach' = [attach EXCEPT ![s] = "added"]
       ELSE attach' = [attach EXCEPT ![s] = "naming"] /\ UNCHANGED <<entry, pollers>>
    /\ UNCHANGED <<row, op, leaderVars, stale, writes, faults>>
AttachNames(s) ==
    /\ attach[s] = "naming"
    /\ attach' = [attach EXCEPT ![s] = IF row[s] = NoRow THEN "no" ELSE "named"]
    /\ UNCHANGED <<row, entry, pollers, op, asked, leaderVars, stale, writes, faults>>
AttachAdds(s) ==
    /\ attach[s] = "named" /\ Replace(s, AgentEntry) /\ attach' = [attach EXCEPT ![s] = "added"]
    /\ UNCHANGED <<row, op, asked, leaderVars, stale, writes, faults>>

\* Mutant: the row is not read again.
AfterAddTrusts(s) == "no"
\* addUnlessRemoved: after the add the row is read again.
AfterAdd(s) == IF row[s] = NoRow THEN "gone" ELSE "no"
AttachChecks(s) ==
    /\ attach[s] = "added" /\ attach' = [attach EXCEPT ![s] = AfterAdd(s)]
    /\ UNCHANGED <<row, entry, pollers, op, asked, leaderVars, stale, writes, faults>>
AttachTakesBack(s) ==
    /\ attach[s] = "gone" /\ Drop(s) /\ attach' = [attach EXCEPT ![s] = "no"]
    /\ UNCHANGED <<row, op, asked, leaderVars, stale, writes, faults>>
\* Either read fails, and with it the attach.
AttachFails(s) ==
    /\ Counted(TRUE)
    /\ attach[s] \in {"naming", "added"} /\ attach' = [attach EXCEPT ![s] = "no"]
    /\ UNCHANGED <<row, entry, pollers, op, asked, leaderVars, stale, writes>>

-----------------------------------------------------------------------------
(* Leadership, the other process, shutdown.                                *)

\* A write of the process that leads; it releases the lock once it can make no more of them.
OtherWrites(s) ==
    /\ ~elected
    /\ \E r \in {NoRow, AgentRow, Local(writes + 1)} :
         r # row[s] /\ Write(s, r) /\ Counted(r # NoRow /\ (asked[s] \/ attach[s] # "no"))
    /\ stale' = [stale EXCEPT ![s] = "other"]
    /\ UNCHANGED <<entry, pollers, op, attachVars, leaderVars>>

Elected ==
    /\ running /\ ~elected /\ ~reload /\ terms < MaxTerms
    /\ elected' = TRUE /\ reload' = TRUE /\ terms' = terms + 1
    /\ UNCHANGED <<row, entry, pollers, op, attachVars, leader, running, stale, writes, faults>>
\* The reload is over, or has taken five seconds.
Leads ==
    /\ elected /\ ~leader /\ SetLeader(TRUE, {})
    /\ UNCHANGED <<row, op, attachVars, elected, running, reload, terms, stale, writes, faults>>
Lost ==
    /\ leader /\ elected' = FALSE
    /\ \E failed \in SUBSET Server : Counted(failed # {}) /\ SetLeader(FALSE, failed)
    /\ UNCHANGED <<row, op, attachVars, running, reload, terms, stale, writes>>

Silent == [s \in Server |-> 0]
\* stop(): requests that were accepted go on.
Stop ==
    /\ running /\ running' = FALSE /\ pollers' = Silent
    /\ entry' = [s \in Server |-> IF entry[s].pollers = "on"
                                  THEN Polled(entry[s].conn, "spent") ELSE entry[s]]
    /\ UNCHANGED <<row, op, attachVars, elected, leader, reload, terms, stale, writes, faults>>

-----------------------------------------------------------------------------
Init ==
    /\ row \in [Server -> {NoRow, AgentRow, Local(0)}]
    /\ entry = [s \in Server |-> CASE row[s].kind = "none" -> NoEntry
                                   [] row[s].kind = "agent" -> AgentEntry
                                   [] OTHER -> Build(0)]
    /\ pollers = Silent /\ op = Free
    /\ asked = [s \in Server |-> FALSE] /\ attach = [s \in Server |-> "no"]
    /\ elected = FALSE /\ leader = FALSE /\ running = TRUE /\ reload = FALSE
    /\ stale = [s \in Server |-> "no"]
    /\ writes = 0 /\ terms = 0 /\ faults = 0

OpStep ==
    \/ Replaces \/ Removes \/ SwitchDrops \/ SwitchAdds
    \/ ReloadStarts \/ ReloadListsAgents \/ ReloadEnds
    \/ \E s \in Server : ReloadDrops(s) \/ ReloadAttaches(s)
    \/ \E s \in Server, conn \in 0..MaxWrites : 
         LET c == [srv |-> s, conn |-> conn]
         IN ReloadPuts(c) \/ ReloadUnenrols(c) \/ ReloadAdds(c)
AttachStep(s) ==
    AttachStarts(s) \/ AttachNames(s) \/ AttachAdds(s) \/ AttachChecks(s) \/ AttachTakesBack(s)

Next ==
    \/ OpStep \/ ReloadFails \/ Elected \/ Leads \/ Lost \/ Stop
    \/ \E s \in Server :
         \/ Create(s) \/ Update(s) \/ Remove(s) \/ SwitchToLocal(s)
         \/ Snapshot(s) \/ Enroll(s) \/ AttachStep(s) \/ AttachFails(s) \/ OtherWrites(s)

Spec == Init /\ [][Next]_vars
\* The event loop serves what is under way, and an agent goes on sending snapshots.
LiveSpec ==
    /\ Spec /\ WF_vars(OpStep)
    /\ \A s \in Server : WF_vars(AttachStep(s)) /\ WF_vars(Snapshot(s))

-----------------------------------------------------------------------------
Connection == [srv : Server, conn : Nat]
RowType == [kind : {"none", "agent", "local"}, conn : Nat]
EntryType == [kind : {"none", "agent", "polled"}, conn : Nat, pollers : {"none", "fresh", "on", "spent"}]
OpType ==
    {Free} \cup [name : {"replace", "remove", "switch", "add"}, srv : Server, conn : Nat]
    \cup [name : {"listed"}, conns : SUBSET Connection]
    \cup [name : {"reload"}, conns : SUBSET Connection, agents : SUBSET Server, todo : SUBSET Server,
          gone : SUBSET Server]

TypeOK ==
    /\ row \in [Server -> RowType] /\ entry \in [Server -> EntryType]
    /\ pollers \in [Server -> Nat] /\ op \in OpType
    /\ asked \in [Server -> BOOLEAN] /\ stale \in [Server -> {"no", "other", "seen"}]
    /\ attach \in [Server -> {"no", "naming", "named", "added", "gone"}]
    /\ elected \in BOOLEAN /\ leader \in BOOLEAN /\ running \in BOOLEAN /\ reload \in BOOLEAN
    /\ writes \in Nat /\ terms \in Nat /\ faults \in Nat

\* A server is polled at most once, by the leader, while its entry is in the runtime: what is
\* removed, replaced or stepped down from is not polled any more (serverRuntime.ts).
PolledByItsEntry ==
    \A s \in Server :
        /\ pollers[s] = Running(entry[s])
        /\ pollers[s] > 0 => leader /\ running /\ entry[s].kind = "polled"

\* Nothing of this process is under way for the server, and it has seen its last write.
Settled(s) ==
    /\ op = Free /\ ~reload /\ stale[s] = "no"
    /\ ~asked[s] /\ attach[s] = "no"

\* runtimeGuard.ts: a removed server leaves no entry, however its removal and its attach interleave.
NoneLeft ==
    \A s \in Server : faults = 0 /\ Settled(s) /\ row[s] = NoRow => entry[s] = NoEntry

\* A server the database connects to directly is polled by the leader, on its stored connection.
LocalIsPolled ==
    \A s \in Server :
        faults = 0 /\ Settled(s) /\ row[s].kind = "local" /\ leader /\ running =>
            entry[s] = Polled(row[s].conn, "on")

\* The runtime follows the rows: neither a removal nor an attach, an edit, a reload or a handover
\* that runs beside it leaves an entry without its row, or a row without its entry.
RuntimeFollowsRows == NoneLeft /\ LocalIsPolled

\* The server of an agent that goes on sending has its agent's entry in the end, whatever a reload
\* or a failed attach did to it before.
AgentGetsItsEntry ==
    \A s \in Server :
        row[s].kind = "agent" ~> (entry[s].kind = "agent" \/ row[s].kind # "agent" \/ ~running)
=============================================================================
