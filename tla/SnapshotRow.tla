------------------------------ MODULE SnapshotRow ------------------------------
(***************************************************************************)
(* The one row per server that carries the last snapshot over a restart    *)
(* (latestSnapshotWriter.ts, latestSnapshotRepository.ts).  Every backend  *)
(* instance loads it when it starts and writes it every few minutes, when  *)
(* the game became reachable or not, and when it stops.  Snapshots arrive  *)
(* in the order they were taken (AgentIngest has the rest); the server is  *)
(* not removed; a process is started when the one before it is gone.       *)
(***************************************************************************)
EXTENDS LatestStore

CONSTANTS
    Instance,   \* backend processes
    Arrival,    \* what a snapshot may be: see ArrivalAssumption
    Oversized,  \* the readings <<part, time>> whose JSON is over LATEST_FACTORY_MAX_BYTES: of the factory
    MaxClock, MaxBoots, MaxFails \* bounds: on the clock, starts, and failures of each kind

ASSUME ArrivalAssumption ==
    /\ Arrival \subseteq [up : BOOLEAN, parts : SUBSET Part]
    /\ \A a \in Arrival : a.up <=> a.parts # {}
ASSUME OversizedAssumption == Oversized \subseteq Part \X Nat
ASSUME RowAssumption ==
    MaxClock \in Nat /\ MaxBoots \in Nat /\ MaxFails \in Nat

VARIABLES
    clock,
    row,               \* the row of telemetry.latest_snapshots
    stores, load, got,  \* per process: its store, the load and what it found
    ready, written,    \* the options' ready has resolved; writtenKey
    pc, rerun, stopped,\* the flush: "off" (no process), "idle", "begun", "writing"; inFlight # idle
    saving, landed,    \* the state of the write under way; whether the database has run its statement
    lost,              \* history: parts of the row the load could not read, until the row is replaced
    boots, fails, lateLoads, misfits
loadVars == <<stores, load, got, ready>>
flushVars == <<pc, rerun, stopped, saving, landed>>
boundVars == <<boots, fails, lateLoads, misfits>>
rowVars == <<clock, row, loadVars, written, flushVars, lost, boundVars>>

NoRow == Row(EmptyStore)
NoKey == [reachable |-> "unknown", since |-> Never, part |-> [p \in Part |-> Never]]
\* What counts as a change; the time of arrival does not.
Key(r) == [reachable |-> r.reachable, since |-> r.since, part |-> [p \in Part |-> r.part[p].at]]
Without(r, parts) == [r EXCEPT !.part = [p \in Part |-> IF p \in parts THEN NoReading ELSE @[p]]]

RowInit ==
    /\ clock = 0 /\ row = NoRow
    /\ stores = [i \in Instance |-> EmptyStore]
    /\ load = [i \in Instance |-> "over"] /\ got = [i \in Instance |-> NoRow]
    /\ ready = [i \in Instance |-> FALSE] /\ written = [i \in Instance |-> NoKey]
    /\ pc = [i \in Instance |-> "off"] /\ rerun = [i \in Instance |-> FALSE]
    /\ stopped = [i \in Instance |-> FALSE]
    /\ saving = [i \in Instance |-> NoRow] /\ landed = [i \in Instance |-> FALSE]
    /\ lost = [i \in Instance |-> {}] /\ boots = 0 /\ fails = 0 /\ lateLoads = 0 /\ misfits = 0

-----------------------------------------------------------------------------
(* A process starts: the bundle begins the load, the writer is started.     *)

Boot(i) ==
    /\ pc[i] = "off" /\ boots < MaxBoots
    /\ \A j \in Instance : pc[j] = "off"
    /\ boots' = boots + 1
    /\ stores' = [stores EXCEPT ![i] = EmptyStore]
    /\ load' = [load EXCEPT ![i] = "asked"] /\ got' = [got EXCEPT ![i] = NoRow]
    /\ ready' = [ready EXCEPT ![i] = FALSE] /\ written' = [written EXCEPT ![i] = NoKey]
    /\ pc' = [pc EXCEPT ![i] = "idle"] /\ rerun' = [rerun EXCEPT ![i] = FALSE]
    /\ stopped' = [stopped EXCEPT ![i] = FALSE]
    /\ saving' = [saving EXCEPT ![i] = NoRow] /\ landed' = [landed EXCEPT ![i] = FALSE]
    /\ lost' = [lost EXCEPT ![i] = {}]
    /\ UNCHANGED <<clock, row, fails, lateLoads, misfits>>

FetchRow(i) ==
    /\ pc[i] # "off" /\ load[i] = "asked"
    /\ load' = [load EXCEPT ![i] = "fetched"] /\ got' = [got EXCEPT ![i] = row]
    /\ UNCHANGED <<clock, row, stores, ready, written, flushVars, lost, boundVars>>

\* Mutant: the state itself is kept in the place of its key.
KeyOfLoadWhole(i) == stores'[i]
\* Nothing to write after the load if it found the store as it was: what it restored is the row.
KeyOfLoad(i) == IF Touched(stores[i]) THEN NoKey ELSE Key(stores'[i])

\* stateFromRow: any stored part may no longer fit its schema, after an upgrade; it is dropped.
Unreadable(r) ==
    {parts \in SUBSET {p \in Part : r.part[p] # NoReading} : parts # {} => misfits < MaxFails}

\* The row is restored; if the writer still waits for it, it learns what is written.
ApplyRow(i) ==
    /\ pc[i] # "off" /\ load[i] = "fetched"
    /\ load' = [load EXCEPT ![i] = "over"] /\ got' = [got EXCEPT ![i] = NoRow]
    /\ \E parts \in Unreadable(got[i]) :
          /\ stores' = IF got[i] = NoRow THEN stores
                       ELSE [stores EXCEPT ![i] = Restore(@, Without(got[i], parts))]
          /\ lost' = [lost EXCEPT ![i] = parts]
          /\ misfits' = IF parts = {} THEN misfits ELSE misfits + 1
    /\ ready' = [ready EXCEPT ![i] = TRUE]
    /\ written' = IF ready[i] \/ got[i] = NoRow \/ written[i] # NoKey THEN written
                  ELSE [written EXCEPT ![i] = KeyOfLoad(i)]
    /\ UNCHANGED <<clock, row, flushVars, boots, fails, lateLoads>>

\* Mutant: only a load that succeeds makes the writer ready.
LoadFailsUnready(i) ==
    /\ pc[i] # "off" /\ load[i] = "asked" /\ lateLoads < MaxFails
    /\ load' = [load EXCEPT ![i] = "over"]
    /\ lateLoads' = lateLoads + 1
    /\ UNCHANGED <<clock, row, stores, got, ready, written, flushVars, lost, boots, fails, misfits>>
\* The query fails, or takes longer than the writer waits for it.
LoadFails(i) ==
    /\ pc[i] # "off" /\ load[i] = "asked" /\ lateLoads < MaxFails
    /\ load' = [load EXCEPT ![i] = "over"] /\ ready' = [ready EXCEPT ![i] = TRUE]
    /\ lateLoads' = lateLoads + 1
    /\ UNCHANGED <<clock, row, stores, got, written, flushVars, lost, boots, fails, misfits>>

LoadIsLate(i) ==
    /\ pc[i] # "off" /\ load[i] # "over" /\ ~ready[i] /\ lateLoads < MaxFails
    /\ ready' = [ready EXCEPT ![i] = TRUE] /\ lateLoads' = lateLoads + 1
    /\ UNCHANGED <<clock, row, stores, load, got, written, flushVars, lost, boots, fails, misfits>>

-----------------------------------------------------------------------------
(* Snapshots, and what begins a write.                                      *)

\* flush: a call during a flush asks for one more write after it.
Flush(i) ==
    IF pc[i] = "idle" THEN pc' = [pc EXCEPT ![i] = "begun"] /\ UNCHANGED rerun
    ELSE rerun' = [rerun EXCEPT ![i] = TRUE] /\ UNCHANGED pc

ClockTicks ==
    /\ clock < MaxClock /\ clock' = clock + 1
    /\ UNCHANGED <<row, loadVars, written, flushVars, lost, boundVars>>

Arrive(i, a) ==
    LET snap == [reachable |-> IF a.up THEN "yes" ELSE "no", at |-> clock, taken |-> clock,
                 received |-> clock, parts |-> a.parts, generators |-> FALSE]
    IN /\ pc[i] # "off"
       /\ \A j \in Instance : stores[j].received < clock \* the agent's next snapshot
       /\ stores' = [stores EXCEPT ![i] = Record(@, snap)]
       /\ IF stores'[i].reachable # stores[i].reachable /\ ~stopped[i] THEN Flush(i)
          ELSE UNCHANGED <<pc, rerun>>
       /\ UNCHANGED <<clock, row, load, got, ready, written, stopped, saving, landed, lost, boundVars>>

TimerFires(i) ==
    /\ pc[i] # "off" /\ ~stopped[i]
    /\ Flush(i)
    /\ UNCHANGED <<clock, row, loadVars, written, stopped, saving, landed, lost, boundVars>>

-----------------------------------------------------------------------------
(* A write.                                                                 *)

Unwritten(i) == Touched(stores[i]) /\ Key(Row(stores[i])) # written'[i]
Send(i, at) ==
    /\ saving' = [saving EXCEPT ![i] = Row(stores[i])] /\ landed' = [landed EXCEPT ![i] = FALSE]
    /\ pc' = [pc EXCEPT ![i] = at]
Unsent == UNCHANGED <<saving, landed>>

\* finalFlush: one more write, whether or not the load is over.
LastWrite(i) ==
    IF Unwritten(i) THEN Send(i, "last") ELSE pc' = [pc EXCEPT ![i] = "ended"] /\ Unsent

\* Mutant: stop waits for the flush under way and leaves it at that.
AfterWriteEnds(i) ==
    /\ rerun' = [rerun EXCEPT ![i] = FALSE]
    /\ pc' = [pc EXCEPT ![i] = IF stopped[i] THEN "ended" ELSE IF rerun[i] THEN "begun" ELSE "idle"]
    /\ Unsent
\* The write of a flush is over: once more if asked to; after stop, the last flush has waited for it.
AfterWrite(i) ==
    /\ rerun' = [rerun EXCEPT ![i] = FALSE]
    /\ IF stopped[i] THEN LastWrite(i)
       ELSE pc' = [pc EXCEPT ![i] = IF rerun[i] THEN "begun" ELSE "idle"] /\ Unsent

\* Mutant: a flush does not wait for the load.
MayWriteAtOnce(i) == TRUE
MayWrite(i) == ready[i]
BeginWrite(i) ==
    /\ pc[i] = "begun" /\ MayWrite(i)
    /\ UNCHANGED written
    /\ IF Unwritten(i) THEN Send(i, "writing") /\ UNCHANGED rerun ELSE AfterWrite(i)
    /\ UNCHANGED <<clock, row, loadVars, stopped, lost, boundVars>>

\* toWrite: over the cap the row carries no factory, though the state that was written has one.
ToWrite(state) == Without(state, {p \in Part : <<p, state.part[p].at>> \in Oversized})

MayReplace(w) == row = NoRow \/ row.received <= w.received

UpsertLands(i) ==
    /\ pc[i] \in {"writing", "last"} /\ ~landed[i]
    /\ landed' = [landed EXCEPT ![i] = TRUE]
    /\ IF MayReplace(ToWrite(saving[i])) THEN row' = ToWrite(saving[i]) /\ lost' = [lost EXCEPT ![i] = {}]
       ELSE UNCHANGED <<row, lost>>
    /\ UNCHANGED <<clock, loadVars, written, pc, rerun, stopped, saving, boundVars>>

Goes(i) ==
    IF pc[i] = "last" THEN pc' = [pc EXCEPT ![i] = "ended"] /\ Unsent /\ UNCHANGED rerun ELSE AfterWrite(i)

UpsertReturns(i) ==
    /\ pc[i] \in {"writing", "last"} /\ landed[i]
    /\ written' = [written EXCEPT ![i] = Key(saving[i])]
    /\ Goes(i)
    /\ UNCHANGED <<clock, row, loadVars, stopped, lost, boundVars>>

WrittenAfterFailure(i) == written
\* The statement failed, or its answer was lost; the next tick tries again.
UpsertFails(i) ==
    /\ pc[i] \in {"writing", "last"} /\ fails < MaxFails /\ fails' = fails + 1
    /\ written' = WrittenAfterFailure(i)
    /\ Goes(i)
    /\ UNCHANGED <<clock, row, loadVars, stopped, lost, boots, lateLoads, misfits>>

-----------------------------------------------------------------------------
(* stop(): no new flush; the one under way is awaited, then one last write. *)

Stop(i) ==
    /\ pc[i] # "off" /\ ~stopped[i]
    /\ stopped' = [stopped EXCEPT ![i] = TRUE]
    /\ UNCHANGED written
    /\ IF pc[i] = "idle" THEN LastWrite(i) ELSE UNCHANGED pc /\ Unsent
    /\ UNCHANGED <<clock, row, loadVars, rerun, lost, boundVars>>

\* The process is gone: after its last write, when stopping took too long, or killed.
Exit(i) ==
    /\ pc[i] # "off"
    /\ pc' = [pc EXCEPT ![i] = "off"]
    /\ UNCHANGED <<clock, row, loadVars, written, rerun, stopped, saving, landed, lost, boundVars>>

Step(i) == FetchRow(i) \/ ApplyRow(i) \/ BeginWrite(i) \/ UpsertLands(i) \/ UpsertReturns(i)
Fault(i) == LoadFails(i) \/ LoadIsLate(i) \/ UpsertFails(i) \/ Stop(i) \/ Exit(i)

RowNext ==
    \/ ClockTicks
    \/ \E i \in Instance : Boot(i) \/ TimerFires(i) \/ Step(i) \/ Fault(i)
    \/ \E i \in Instance, a \in Arrival : Arrive(i, a)

RowSpec == RowInit /\ [][RowNext]_rowVars
\* The event loop and the database go on, and the timer fires.
RowLiveSpec == RowSpec /\ \A i \in Instance : WF_rowVars(Step(i)) /\ WF_rowVars(TimerFires(i))

-----------------------------------------------------------------------------
RowTypeOK ==
    LET RowType == [reachable : {"unknown", "yes", "no"}, since : Int, received : Int,
                    part : [Part -> [at : Int, taken : Int]]]
    IN /\ {clock, boots, fails, lateLoads, misfits} \subseteq Nat
       /\ row \in RowType
       /\ stores \in [Instance -> StoreType]
       /\ load \in [Instance -> {"asked", "fetched", "over"}] /\ got \in [Instance -> RowType]
       /\ ready \in [Instance -> BOOLEAN] /\ rerun \in [Instance -> BOOLEAN]
       /\ stopped \in [Instance -> BOOLEAN] /\ landed \in [Instance -> BOOLEAN]
       /\ written \in [Instance -> [reachable : {"unknown", "yes", "no"}, since : Int, part : [Part -> Int]]]
       /\ pc \in [Instance -> {"off", "idle", "begun", "writing", "last", "ended"}]
       /\ saving \in [Instance -> RowType] /\ lost \in [Instance -> SUBSET Part]

\* The write under way leaves the part out on purpose: its reading, newer than the row's, is over the
\* cap; or the load could not read what the row has, and nothing newer came.
Omits(i, p) ==
    /\ pc[i] \in {"writing", "last"}
    /\ \/ /\ <<p, saving[i].part[p].at>> \in Oversized
          /\ saving[i].part[p].at >= row.part[p].at
       \/ p \in lost[i] /\ saving[i].part[p].at = Never

\* No write puts an older reading over a newer one, over any number of restarts, as long as every
\* load found the row in time; and it takes one away only if that one no longer fits its schema or the
\* one after it is over the cap.
RowNeverGoesBack ==
    [][lateLoads = 0 =>
         \A p \in Part :
            \/ row'.part[p].at >= row.part[p].at
            \/ row'.part[p].at = Never /\ (\E i \in Instance : Omits(i, p))]_rowVars

\* The row has all of a state of the process but what is over the cap; a part that the load could not
\* read stays in it for as long as there is nothing to write.
Saved(i, s) ==
    /\ row.reachable = s.reachable /\ row.since = s.since
    /\ \A p \in Part :
          IF <<p, s.part[p].at>> \in Oversized THEN row.part[p].at = Never
          ELSE row.part[p].at = s.part[p].at \/ (p \in lost[i] /\ s.part[p].at = Never)

\* A process that stopped without a failed statement leaves the last snapshot in the row.
StopSaves ==
    [][\A i \in Instance :
         pc[i] # "ended" /\ pc'[i] = "ended" /\ fails' = fails /\ Touched(stores[i])
         => Saved(i, IF pc[i] = "last" THEN saving[i] ELSE Row(stores[i]))]_rowVars

\* Once no more snapshots come, the row is brought up to date, unless the process stops.
RowCatchesUp ==
    \A i \in Instance :
        <>[](pc[i] # "off" /\ ~stopped[i]) => <>[](Touched(stores[i]) => Saved(i, stores[i]))
=============================================================================
