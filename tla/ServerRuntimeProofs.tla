-------------------------- MODULE ServerRuntimeProofs --------------------------
(***************************************************************************)
(* Theorems about ServerRuntime, for any number of servers, writes and     *)
(* terms: what runs is what the entries say, and without faults the        *)
(* entries are what the rows say once everything under way is over.        *)
(***************************************************************************)
EXTENDS ServerRuntime, TLAPS

USE ServerRuntimeAssumption
USE DEF vars, attachVars, leaderVars

Other(s) == stale[s] = "other"
Holding(s, names) == op.name \in names /\ op.srv = s

\* What a write of this process carries is in the row, unless another process wrote it since; and the
\* entry it meets is one it can replace, or one that is stale anyway.
Carried(s) ==
    /\ Holding(s, {"replace", "switch", "add"}) =>
           /\ row[s] # NoRow \/ Other(s)
           /\ row[s].kind = "local" => op.conn = row[s].conn \/ Other(s)
    /\ Holding(s, {"remove"}) => row[s].kind # "local" \/ Other(s)
    /\ Holding(s, {"replace"}) /\ row[s].kind = "local" => entry[s].kind # "agent" \/ stale[s] # "no"
    /\ Holding(s, {"add"}) /\ row[s].kind = "local" => entry[s] = NoEntry \/ Other(s)

\* What a reload has listed is in the row, and the other way round, unless another process wrote it since.
ListedAsStored(s) ==
    /\ op.name \in {"listed", "reload"} =>
           /\ \A c \in op.conns :
                  c.srv = s => Other(s) \/ (row[s] # NoRow /\ (row[s].kind = "local" => c.conn = row[s].conn))
           /\ row[s].kind = "local" => Other(s) \/ \E c \in op.conns : c.srv = s
    /\ op.name = "reload" => (s \in op.agents => row[s].kind = "agent" \/ Other(s))

\* An entry without a row is about to go.
Leaving(s) ==
    row[s] = NoRow /\ entry[s] # NoEntry =>
        stale[s] # "no" \/ attach[s] \in {"added", "gone"} \/ Holding(s, {"remove"})

\* A row with a connection has its entry, or is about to.
Current(s) ==
    row[s].kind = "local" =>
        /\ ~asked[s] /\ attach[s] = "no"
        /\ \/ entry[s].kind = "polled" /\ entry[s].conn = row[s].conn
           \/ stale[s] # "no" \/ Holding(s, {"replace", "switch", "add"})

\* Its pollers wait for the leadership, or run.
Ready(s) ==
    entry[s].kind = "polled" /\ running => entry[s].pollers = IF leader THEN "on" ELSE "fresh"

Agreed(s) == Carried(s) /\ ListedAsStored(s) /\ Leaving(s) /\ Current(s) /\ Ready(s)
Agrees == faults = 0 => \A s \in Server : Agreed(s)

IInv == TypeOK /\ PolledByItsEntry /\ Agrees

LEMMA Values ==
    /\ NoEntry \in EntryType /\ AgentEntry \in EntryType /\ NoRow \in RowType /\ AgentRow \in RowType
    /\ \A conn \in Nat : Build(conn) \in EntryType /\ Local(conn) \in RowType
  BY DEF NoEntry, AgentEntry, Build, Polled, NoRow, AgentRow, Local, EntryType, RowType

\* What is put for a server: the entry, started if this process leads.
Gets(s, e) ==
    /\ entry' \in [Server -> EntryType] /\ pollers' \in [Server -> Nat] /\ PolledByItsEntry'
    /\ \A u \in Server \ {s} : entry'[u] = entry[u]
    /\ entry'[s].kind = e.kind /\ entry'[s].conn = e.conn /\ (e.kind # "polled" => entry'[s] = e)
    /\ e.kind = "polled" /\ running => entry'[s].pollers = IF leader THEN "on" ELSE "fresh"

LEMMA PutGets ==
    ASSUME IInv, UNCHANGED <<leader, running>>, NEW s \in Server, NEW e \in EntryType, Put(s, e),
           e \in {NoEntry, AgentEntry} \/ (e.kind = "polled" /\ e.pollers = "fresh")
    PROVE  Gets(s, e)
  <1>. DEFINE new == Started(e)
  <1>1. /\ new \in EntryType /\ new.kind = e.kind /\ new.conn = e.conn /\ (e.kind # "polled" => new = e)
        /\ new.pollers = "on" => leader /\ running /\ new.kind = "polled"
        /\ e.kind = "polled" /\ running => new.pollers = IF leader THEN "on" ELSE "fresh"
    BY DEF EntryType, Started, Polled, NoEntry, AgentEntry
  <1>2. /\ entry' = [entry EXCEPT ![s] = new]
        /\ pollers' = [pollers EXCEPT ![s] = @ + Running(new) - Running(entry[s])]
    BY DEF Put
  <1>3. entry \in [Server -> EntryType] /\ pollers \in [Server -> Nat] BY DEF IInv, TypeOK
  <1>. HIDE DEF new
  <1>4. entry' \in [Server -> EntryType] /\ entry'[s] = new /\ \A u \in Server \ {s} : entry'[u] = entry[u]
    BY <1>1, <1>2, <1>3
  <1>5. pollers[s] = Running(entry[s]) BY DEF IInv, PolledByItsEntry
  <1>6. Running(new) \in Nat /\ Running(entry[s]) \in Nat BY DEF Running
  <1>7. /\ pollers' \in [Server -> Nat] /\ pollers'[s] = Running(new)
        /\ \A u \in Server \ {s} : pollers'[u] = pollers[u]
    BY <1>2, <1>3, <1>5, <1>6
  <1>8. PolledByItsEntry' BY <1>1, <1>4, <1>7 DEF IInv, PolledByItsEntry, Running
  <1>. QED BY <1>1, <1>4, <1>7, <1>8 DEF Gets

\* A replace, an add and a drop put it or leave what is there.
LEMMA OpsGet ==
    ASSUME IInv, UNCHANGED <<leader, running>>, NEW s \in Server
    PROVE  /\ Drop(s) => Gets(s, NoEntry)
           /\ Put(s, AgentEntry) => Gets(s, AgentEntry)
           /\ Replace(s, AgentEntry) => Gets(s, AgentEntry)
           /\ \A conn \in Nat :
                 /\ Put(s, Build(conn)) => Gets(s, Build(conn))
                 /\ Replace(s, Build(conn)) =>
                       Gets(s, Build(conn)) \/ (entry[s].kind = "agent" /\ UNCHANGED <<entry, pollers>>)
                 /\ Add(s, Build(conn)) =>
                       IF entry[s] = NoEntry THEN Gets(s, Build(conn)) ELSE UNCHANGED <<entry, pollers>>
  <1>1. \A conn \in Nat : Build(conn).kind = "polled" /\ Build(conn).pollers = "fresh" BY DEF Build, Polled
  <1>2. AgentEntry.kind = "agent" BY DEF AgentEntry
  <1>. QED BY <1>1, <1>2, Values, PutGets DEF Drop, Replace, Add

\* A change of leadership leaves what an entry stands for.
Moves ==
    /\ entry' \in [Server -> EntryType] /\ pollers' \in [Server -> Nat] /\ PolledByItsEntry'
    /\ \A u \in Server : /\ entry'[u].kind = entry[u].kind /\ entry'[u].conn = entry[u].conn
                         /\ entry[u].kind # "polled" => entry'[u] = entry[u]
                         /\ entry'[u] = NoEntry <=> entry[u] = NoEntry

LEMMA LeaderMoves ==
    ASSUME IInv, NEW on \in BOOLEAN, NEW failed \in SUBSET Server, SetLeader(on, failed), UNCHANGED running
    PROVE  Moves /\ (failed = {} /\ (\A u \in Server : Ready(u)) => \A u \in Server : Ready(u)')
  <1>1. /\ entry \in [Server -> EntryType] /\ pollers \in [Server -> Nat] /\ leader' = on
        /\ \A u \in Server : pollers[u] = Running(entry[u])
        /\ \A u \in Server : entry[u].pollers = "on" => leader /\ running /\ entry[u].kind = "polled"
    BY DEF IInv, TypeOK, PolledByItsEntry, Running, SetLeader
  <1>2. /\ DOMAIN entry' = Server /\ entry' = [u \in Server |-> entry'[u]]
        /\ pollers' = [u \in Server |-> pollers[u] + Running(entry'[u]) - Running(entry[u])]
    BY DEF SetLeader
  <1>3. ASSUME NEW u \in Server
        PROVE  /\ entry'[u] \in EntryType /\ entry'[u].kind = entry[u].kind /\ entry'[u].conn = entry[u].conn
               /\ entry[u].kind # "polled" => entry'[u] = entry[u]
               /\ entry'[u].pollers = "on" => on /\ running /\ entry[u].kind = "polled"
               /\ failed = {} /\ Ready(u) => Ready(u)'
    <2>1. entry'[u] = IF entry[u].kind # "polled" THEN entry[u]
                      ELSE IF ~on THEN Polled(entry[u].conn, SteppedDown(entry[u], u \in failed))
                      ELSE IF running /\ entry[u].pollers = "fresh" THEN Polled(entry[u].conn, "on")
                      ELSE entry[u]
      BY DEF SetLeader
    <2>2. entry[u] \in EntryType BY <1>1
    <2>3. CASE entry[u].kind # "polled" BY <1>1, <2>1, <2>2, <2>3 DEF Ready
    <2>4. CASE entry[u].kind = "polled" /\ ~on
      <3>1. entry'[u] = Polled(entry[u].conn, SteppedDown(entry[u], u \in failed)) BY <2>1, <2>4
      <3>2. SteppedDown(entry[u], u \in failed) \in {"none", "fresh", "spent"} /\
            (u \notin failed => SteppedDown(entry[u], u \in failed) = "fresh")
        BY <2>2 DEF SteppedDown, EntryType
      <3>. QED BY <1>1, <2>4, <3>1, <3>2 DEF Ready, Polled, EntryType
    <2>5. CASE entry[u].kind = "polled" /\ on /\ running /\ entry[u].pollers = "fresh"
      <3>1. entry'[u] = Polled(entry[u].conn, "on") BY <2>1, <2>5
      <3>. QED BY <1>1, <2>5, <3>1 DEF Ready, Polled, EntryType
    <2>6. CASE entry[u].kind = "polled" /\ on /\ ~(running /\ entry[u].pollers = "fresh")
      BY <1>1, <2>1, <2>2, <2>6 DEF Ready
    <2>. QED BY <2>3, <2>4, <2>5, <2>6
  <1>4. entry' \in [Server -> EntryType] BY <1>2, <1>3
  <1>5. \A u \in Server : Running(entry[u]) \in Nat /\ Running(entry'[u]) \in Nat BY DEF Running
  <1>6. pollers' \in [Server -> Nat] /\ \A u \in Server : pollers'[u] = Running(entry'[u]) BY <1>1, <1>2, <1>5
  <1>7. PolledByItsEntry' BY <1>1, <1>3, <1>6 DEF PolledByItsEntry, Running
  <1>8. \A u \in Server : entry'[u] = NoEntry <=> entry[u] = NoEntry BY <1>3 DEF NoEntry
  <1>. QED BY <1>3, <1>4, <1>6, <1>7, <1>8 DEF Moves

LEMMA MovesAgree ==
    ASSUME Moves, UNCHANGED <<row, op, asked, attach, stale>>, NEW u \in Server,
           Carried(u), ListedAsStored(u), Leaving(u), Current(u)
    PROVE  Carried(u)' /\ ListedAsStored(u)' /\ Leaving(u)' /\ Current(u)'
  <1>1. /\ entry'[u].kind = entry[u].kind /\ entry'[u].conn = entry[u].conn
        /\ entry'[u] = NoEntry <=> entry[u] = NoEntry
    BY DEF Moves
  <1>2. Carried(u)' BY <1>1 DEF Carried, Holding, Other
  <1>3. ListedAsStored(u)' BY DEF ListedAsStored, Other
  <1>4. Leaving(u)' BY <1>1 DEF Leaving, Holding
  <1>5. Current(u)' BY <1>1 DEF Current, Holding
  <1>. QED BY <1>2, <1>3, <1>4, <1>5

LEMMA CreateKeeps == ASSUME IInv, NEW s \in Server, Create(s) PROVE IInv'
  <1>1. TypeOK' BY Values DEF IInv, Create, Overtakes, Counted, Commits, Write, Op, TypeOK, OpType, Local
  <1>2. PolledByItsEntry' BY DEF IInv, Create, Commits, PolledByItsEntry
  <1>3. ASSUME NEW u \in Server, faults' = 0 PROVE Agreed(u)'
    <2>1. faults = 0 BY <1>3 DEF IInv, Create, Overtakes, Counted, TypeOK
    <2>2. Carried(u) /\ ListedAsStored(u) /\ Leaving(u) /\ Current(u) /\ Ready(u)
      BY <2>1 DEF IInv, Agrees, Agreed
    <2>3. Carried(u)'
      <3>1. /\ row[s] = NoRow /\ ~asked[s] /\ attach[s] = "no" /\ row' = [row EXCEPT ![s] = Local(writes + 1)]
            /\ op = Free /\ op' = Op("replace", s, Local(writes + 1).conn) /\ UNCHANGED <<entry, stale>>
            /\ row \in [Server -> RowType]
        BY <1>3 DEF IInv, TypeOK, Create, Overtakes, Counted, Commits, Write
      <3>2. CASE u # s BY <3>1, <3>2 DEF Carried, Holding, Op
      <3>3. CASE u = s
        <4>1. entry[s] # NoEntry => stale[s] # "no"
          BY <2>2, <1>3, <3>1, <3>3 DEF Leaving, Holding, Free
        <4>2. entry[s].kind = "agent" => stale[s] # "no" BY <4>1 DEF NoEntry
        <4>. QED BY <3>1, <4>2 DEF Carried, Holding, Op, Local, NoRow
      <3>. QED BY <3>2, <3>3
    <2>4. ListedAsStored(u)' BY DEF Create, Commits, Op, ListedAsStored
    <2>5. Leaving(u)' BY <2>2, <1>3 DEF Create, Commits, Write, Free, Leaving, Holding
    <2>6. Current(u)'
      BY <2>2, <1>3 DEF IInv, Create, Overtakes, Counted, Commits, Write, Op, Free, TypeOK, Current, Holding
    <2>7. Ready(u)' BY <2>2, <1>3 DEF Create, Commits, Ready
    <2>. QED BY <2>3, <2>4, <2>5, <2>6, <2>7 DEF Agreed
  <1>. QED BY <1>1, <1>2, <1>3 DEF IInv, Agrees

LEMMA UpdateKeeps == ASSUME IInv, NEW s \in Server, Update(s) PROVE IInv'
  <1>1. TypeOK' BY Values DEF IInv, Update, Counted, Commits, Write, Op, TypeOK, OpType, Local
  <1>2. PolledByItsEntry' BY DEF IInv, Update, Commits, PolledByItsEntry
  <1>3. ASSUME NEW u \in Server, faults' = 0 PROVE Agreed(u)'
    <2>1. faults = 0 BY <1>3 DEF Update, Counted
    <2>2. Carried(u) /\ ListedAsStored(u) /\ Leaving(u) /\ Current(u) /\ Ready(u)
      BY <2>1 DEF IInv, Agrees, Agreed
    <2>3. Carried(u)'
      BY <2>2, <1>3 DEF IInv, Update, Commits, Write, Op, Free, TypeOK, Carried, Holding, Current, NoRow, Local
    <2>4. ListedAsStored(u)' BY DEF Update, Commits, Op, ListedAsStored
    <2>5. Leaving(u)' BY <2>2, <1>3 DEF Update, Commits, Write, Free, Leaving, Holding, NoRow, Local
    <2>6. Current(u)' BY <2>2, <1>3 DEF Update, Commits, Write, Op, Free, Current, Holding
    <2>7. Ready(u)' BY <2>2, <1>3 DEF Update, Commits, Ready
    <2>. QED BY <2>3, <2>4, <2>5, <2>6, <2>7 DEF Agreed
  <1>. QED BY <1>1, <1>2, <1>3 DEF IInv, Agrees

LEMMA RemoveKeeps == ASSUME IInv, NEW s \in Server, Remove(s) PROVE IInv'
  <1>1. TypeOK' BY Values DEF IInv, Remove, Counted, Commits, Write, Op, TypeOK, OpType, NoRow
  <1>2. PolledByItsEntry' BY DEF IInv, Remove, Commits, PolledByItsEntry
  <1>3. ASSUME NEW u \in Server, faults' = 0 PROVE Agreed(u)'
    <2>1. faults = 0 BY <1>3 DEF Remove, Counted
    <2>2. Carried(u) /\ ListedAsStored(u) /\ Leaving(u) /\ Current(u) /\ Ready(u)
      BY <2>1 DEF IInv, Agrees, Agreed
    <2>3. Carried(u)' BY DEF IInv, Remove, Commits, Write, Op, TypeOK, Carried, Holding, NoRow
    <2>4. ListedAsStored(u)' BY DEF Remove, Commits, Op, ListedAsStored
    <2>5. Leaving(u)' BY <2>2, <1>3 DEF Remove, Commits, Write, Op, Free, Leaving, Holding
    <2>6. Current(u)' BY <2>2, <1>3 DEF Remove, Commits, Write, Free, Current, Holding, NoRow
    <2>7. Ready(u)' BY <2>2, <1>3 DEF Remove, Commits, Ready
    <2>. QED BY <2>3, <2>4, <2>5, <2>6, <2>7 DEF Agreed
  <1>. QED BY <1>1, <1>2, <1>3 DEF IInv, Agrees

LEMMA SwitchToLocalKeeps == ASSUME IInv, NEW s \in Server, SwitchToLocal(s) PROVE IInv'
  <1>1. TypeOK' BY Values DEF IInv, SwitchToLocal, Overtakes, Counted, Commits, Write, Op, TypeOK, OpType, Local
  <1>2. PolledByItsEntry' BY DEF IInv, SwitchToLocal, Commits, PolledByItsEntry
  <1>3. ASSUME NEW u \in Server, faults' = 0 PROVE Agreed(u)'
    <2>1. faults = 0 BY <1>3 DEF IInv, SwitchToLocal, Overtakes, Counted, TypeOK
    <2>2. Carried(u) /\ ListedAsStored(u) /\ Leaving(u) /\ Current(u) /\ Ready(u)
      BY <2>1 DEF IInv, Agrees, Agreed
    <2>3. Carried(u)' BY DEF SwitchToLocal, Commits, Write, Op, Carried, Holding, NoRow, Local
    <2>4. ListedAsStored(u)' BY DEF SwitchToLocal, Commits, Op, ListedAsStored
    <2>5. Leaving(u)' BY <2>2, <1>3 DEF SwitchToLocal, Commits, Write, Free, Leaving, Holding, NoRow, Local
    <2>6. Current(u)'
      BY <2>2, <1>3 DEF IInv, SwitchToLocal, Overtakes, Counted, Commits, Write, Op, Free, TypeOK, Current, Holding
    <2>7. Ready(u)' BY <2>2, <1>3 DEF SwitchToLocal, Commits, Ready
    <2>. QED BY <2>3, <2>4, <2>5, <2>6, <2>7 DEF Agreed
  <1>. QED BY <1>1, <1>2, <1>3 DEF IInv, Agrees

LEMMA ReplacesKeeps == ASSUME IInv, Replaces PROVE IInv'
  <1>o. op.srv \in Server /\ op.conn \in Nat BY DEF IInv, TypeOK, OpType, Free, Replaces
  <1>p. Gets(op.srv, Build(op.conn)) \/ (entry[op.srv].kind = "agent" /\ UNCHANGED <<entry, pollers>>)
    BY <1>o, OpsGet DEF Replaces
  <1>1. TypeOK' BY <1>p DEF IInv, Replaces, Gets, TypeOK, OpType
  <1>2. PolledByItsEntry' BY <1>p DEF IInv, Replaces, Gets, PolledByItsEntry
  <1>3. ASSUME NEW u \in Server, faults' = 0 PROVE Agreed(u)'
    <2>1. faults = 0 BY <1>3 DEF Replaces
    <2>2. Carried(u) /\ ListedAsStored(u) /\ Leaving(u) /\ Current(u) /\ Ready(u)
      BY <2>1 DEF IInv, Agrees, Agreed
    <2>3. Carried(u)' BY DEF Replaces, Free, Carried, Holding
    <2>4. ListedAsStored(u)' BY DEF Replaces, Free, ListedAsStored
    <2>5. Leaving(u)' BY <1>p, <2>2, <1>3 DEF Replaces, Gets, Leaving, Holding, Carried, Other
    <2>6. Current(u)' BY <1>p, <2>2, <1>3 DEF Replaces, Gets, Build, Polled, Current, Holding, Carried, Other
    <2>7. Ready(u)' BY <1>p, <2>2, <1>3 DEF Replaces, Gets, Ready
    <2>. QED BY <2>3, <2>4, <2>5, <2>6, <2>7 DEF Agreed
  <1>. QED BY <1>1, <1>2, <1>3 DEF IInv, Agrees

LEMMA RemovesKeeps == ASSUME IInv, Removes PROVE IInv'
  <1>o. op.srv \in Server /\ op.conn \in Nat BY DEF IInv, TypeOK, OpType, Free, Removes
  <1>p. Gets(op.srv, NoEntry) BY <1>o, OpsGet DEF Removes
  <1>1. TypeOK' BY <1>p DEF IInv, Removes, Gets, TypeOK, OpType
  <1>2. PolledByItsEntry' BY <1>p DEF Gets
  <1>3. ASSUME NEW u \in Server, faults' = 0 PROVE Agreed(u)'
    <2>1. faults = 0 BY <1>3 DEF Removes
    <2>2. Carried(u) /\ ListedAsStored(u) /\ Leaving(u) /\ Current(u) /\ Ready(u)
      BY <2>1 DEF IInv, Agrees, Agreed
    <2>3. Carried(u)' BY DEF Removes, Free, Carried, Holding
    <2>4. ListedAsStored(u)' BY DEF Removes, Free, ListedAsStored
    <2>5. Leaving(u)' BY <1>p, <2>2, <1>3 DEF Removes, Gets, NoEntry, Leaving, Holding
    <2>6. Current(u)' BY <1>p, <2>2, <1>3 DEF Removes, Gets, Current, Holding, Carried, Other
    <2>7. Ready(u)' BY <1>p, <2>2, <1>3 DEF Removes, Gets, Ready
    <2>. QED BY <2>3, <2>4, <2>5, <2>6, <2>7 DEF Agreed
  <1>. QED BY <1>1, <1>2, <1>3 DEF IInv, Agrees

LEMMA SwitchDropsKeeps == ASSUME IInv, SwitchDrops PROVE IInv'
  <1>o. op.srv \in Server /\ op.conn \in Nat BY DEF IInv, TypeOK, OpType, Free, SwitchDrops
  <1>p. Gets(op.srv, NoEntry) BY <1>o, OpsGet DEF SwitchDrops
  <1>1. TypeOK' BY <1>p DEF IInv, SwitchDrops, Gets, TypeOK, OpType, Free
  <1>2. PolledByItsEntry' BY <1>p DEF Gets
  <1>3. ASSUME NEW u \in Server, faults' = 0 PROVE Agreed(u)'
    <2>1. faults = 0 BY <1>3 DEF SwitchDrops
    <2>2. Carried(u) /\ ListedAsStored(u) /\ Leaving(u) /\ Current(u) /\ Ready(u)
      BY <2>1 DEF IInv, Agrees, Agreed
    <2>3. Carried(u)' BY <1>p, <2>2, <1>3 DEF SwitchDrops, Gets, NoEntry, Carried, Holding, Other
    <2>4. ListedAsStored(u)' BY DEF SwitchDrops, ListedAsStored
    <2>5. Leaving(u)' BY <1>p, <2>2, <1>3 DEF SwitchDrops, Gets, NoEntry, Leaving, Holding
    <2>6. Current(u)' BY <1>p, <2>2, <1>3 DEF SwitchDrops, Gets, Current, Holding
    <2>7. Ready(u)' BY <1>p, <2>2, <1>3 DEF SwitchDrops, Gets, Ready
    <2>. QED BY <2>3, <2>4, <2>5, <2>6, <2>7 DEF Agreed
  <1>. QED BY <1>1, <1>2, <1>3 DEF IInv, Agrees

LEMMA SwitchAddsKeeps == ASSUME IInv, SwitchAdds PROVE IInv'
  <1>o. op.srv \in Server /\ op.conn \in Nat BY DEF IInv, TypeOK, OpType, Free, SwitchAdds
  <1>p. IF entry[op.srv] = NoEntry THEN Gets(op.srv, Build(op.conn)) ELSE UNCHANGED <<entry, pollers>>
    BY <1>o, OpsGet DEF SwitchAdds
  <1>1. TypeOK' BY <1>p DEF IInv, SwitchAdds, Gets, TypeOK, OpType
  <1>2. PolledByItsEntry' BY <1>p DEF IInv, SwitchAdds, Gets, PolledByItsEntry
  <1>3. ASSUME NEW u \in Server, faults' = 0 PROVE Agreed(u)'
    <2>1. faults = 0 BY <1>3 DEF SwitchAdds
    <2>2. Carried(u) /\ ListedAsStored(u) /\ Leaving(u) /\ Current(u) /\ Ready(u)
      BY <2>1 DEF IInv, Agrees, Agreed
    <2>3. Carried(u)' BY DEF SwitchAdds, Free, Carried, Holding
    <2>4. ListedAsStored(u)' BY DEF SwitchAdds, Free, ListedAsStored
    <2>5. Leaving(u)' BY <1>p, <2>2, <1>3 DEF SwitchAdds, Gets, Leaving, Holding, Carried, Other
    <2>6. Current(u)' BY <1>p, <2>2, <1>3 DEF SwitchAdds, Gets, Build, Polled, Current, Holding, Carried, Other
    <2>7. Ready(u)' BY <1>p, <2>2, <1>3 DEF SwitchAdds, Gets, Ready
    <2>. QED BY <2>3, <2>4, <2>5, <2>6, <2>7 DEF Agreed
  <1>. QED BY <1>1, <1>2, <1>3 DEF IInv, Agrees

LEMMA ReloadStartsKeeps == ASSUME IInv, ReloadStarts PROVE IInv'
  <1>1. TypeOK'
    <2>1. LocalRows \in SUBSET Connection BY DEF IInv, TypeOK, LocalRows, RowsOf, Connection, RowType
    <2>2. op' \in [name : {"listed"}, conns : SUBSET Connection] BY <2>1 DEF ReloadStarts
    <2>3. op' \in OpType BY <2>2 DEF OpType
    <2>4. stale' \in [Server -> {"no", "other", "seen"}] BY DEF IInv, TypeOK, ReloadStarts
    <2>. QED BY <2>3 DEF IInv, TypeOK, ReloadStarts
  <1>2. PolledByItsEntry' BY DEF IInv, ReloadStarts, PolledByItsEntry
  <1>3. ASSUME NEW u \in Server, faults' = 0 PROVE Agreed(u)'
    <2>1. faults = 0 BY <1>3 DEF ReloadStarts
    <2>2. Carried(u) /\ ListedAsStored(u) /\ Leaving(u) /\ Current(u) /\ Ready(u)
      BY <2>1 DEF IInv, Agrees, Agreed
    <2>3. Carried(u)' BY DEF ReloadStarts, Carried, Holding
    <2>4. ListedAsStored(u)'
      <3>1. op' = [name |-> "listed", conns |-> LocalRows] /\ UNCHANGED row BY DEF ReloadStarts
      <3>2. \A c \in LocalRows : c.srv = u => row[u].kind = "local" /\ c.conn = row[u].conn BY DEF LocalRows, RowsOf
      <3>3. row[u].kind = "local" => \E c \in LocalRows : c.srv = u
        <4>1. row[u].kind = "local" => [srv |-> u, conn |-> row[u].conn] \in LocalRows BY DEF LocalRows, RowsOf
        <4>. QED BY <4>1
      <3>4. op'.name = "listed" /\ op'.conns = LocalRows BY <3>1
      <3>. QED BY <3>1, <3>2, <3>3 DEF ListedAsStored, NoRow
    <2>5. Leaving(u)' BY <2>2, <1>3 DEF ReloadStarts, Free, Leaving, Holding
    <2>6. Current(u)' BY <2>2, <1>3 DEF ReloadStarts, Free, Current, Holding
    <2>7. Ready(u)' BY <2>2, <1>3 DEF ReloadStarts, Ready
    <2>. QED BY <2>3, <2>4, <2>5, <2>6, <2>7 DEF Agreed
  <1>. QED BY <1>1, <1>2, <1>3 DEF IInv, Agrees

LEMMA ReloadListsAgentsKeeps == ASSUME IInv, ReloadListsAgents PROVE IInv'
  <1>1. TypeOK' BY DEF IInv, ReloadListsAgents, RowsOf, TypeOK, OpType, Free
  <1>2. PolledByItsEntry' BY DEF IInv, ReloadListsAgents, PolledByItsEntry
  <1>3. ASSUME NEW u \in Server, faults' = 0 PROVE Agreed(u)'
    <2>1. faults = 0 BY <1>3 DEF ReloadListsAgents
    <2>2. Carried(u) /\ ListedAsStored(u) /\ Leaving(u) /\ Current(u) /\ Ready(u)
      BY <2>1 DEF IInv, Agrees, Agreed
    <2>3. Carried(u)' BY DEF ReloadListsAgents, Carried, Holding
    <2>4. ListedAsStored(u)' BY <2>2, <1>3 DEF ReloadListsAgents, RowsOf, ListedAsStored, Other
    <2>5. Leaving(u)' BY <2>2, <1>3 DEF ReloadListsAgents, Leaving, Holding
    <2>6. Current(u)' BY <2>2, <1>3 DEF ReloadListsAgents, Current, Holding
    <2>7. Ready(u)' BY <2>2, <1>3 DEF ReloadListsAgents, Ready
    <2>. QED BY <2>3, <2>4, <2>5, <2>6, <2>7 DEF Agreed
  <1>. QED BY <1>1, <1>2, <1>3 DEF IInv, Agrees

LEMMA ReloadDropsKeeps == ASSUME IInv, NEW s \in Server, ReloadDrops(s) PROVE IInv'
  <1>p. Gets(s, NoEntry) BY OpsGet DEF ReloadDrops
  <1>1. TypeOK'
    <2>1. op \in [name : {"reload"}, conns : SUBSET Connection, agents : SUBSET Server, todo : SUBSET Server,
                  gone : SUBSET Server]
      BY DEF IInv, TypeOK, OpType, Free, ReloadDrops
    <2>2. op' \in OpType BY <2>1 DEF ReloadDrops, Done, OpType
    <2>3. stale' \in [Server -> {"no", "other", "seen"}] BY DEF IInv, TypeOK, ReloadDrops, Done, Seen
    <2>. QED BY <1>p, <2>2, <2>3 DEF IInv, TypeOK, ReloadDrops, Gets
  <1>2. PolledByItsEntry' BY <1>p DEF Gets
  <1>3. ASSUME NEW u \in Server, faults' = 0 PROVE Agreed(u)'
    <2>1. faults = 0 BY <1>3 DEF ReloadDrops
    <2>2. Carried(u) /\ ListedAsStored(u) /\ Leaving(u) /\ Current(u) /\ Ready(u)
      BY <2>1 DEF IInv, Agrees, Agreed
    <2>3. Carried(u)' BY DEF ReloadDrops, Done, Carried, Holding
    <2>4. ListedAsStored(u)' BY <2>2, <1>3 DEF ReloadDrops, Done, Seen, ListedAsStored, Other
    <2>5. Leaving(u)' BY <1>p, <2>2, <1>3 DEF ReloadDrops, Done, Seen, Gets, NoEntry, Leaving, Holding
    <2>6. Current(u)'
      BY <1>p, <2>2, <1>3 DEF ReloadDrops, Unwanted, Done, Seen, Gets, Current, Holding, ListedAsStored, Other
    <2>7. Ready(u)' BY <1>p, <2>2, <1>3 DEF ReloadDrops, Gets, Ready
    <2>. QED BY <2>3, <2>4, <2>5, <2>6, <2>7 DEF Agreed
  <1>. QED BY <1>1, <1>2, <1>3 DEF IInv, Agrees

LEMMA ReloadPutsKeeps ==
    ASSUME IInv, NEW s \in Server, NEW conn \in 0..MaxWrites, ReloadPuts([srv |-> s, conn |-> conn])
    PROVE  IInv'
  <1>p. IF Unchanged(s, conn) THEN UNCHANGED <<entry, pollers>> ELSE Gets(s, Build(conn))
    BY OpsGet DEF ReloadPuts
  <1>1. TypeOK' BY <1>p DEF IInv, ReloadPuts, Listed, Done, Seen, Gets, TypeOK, OpType, Free
  <1>2. PolledByItsEntry' BY <1>p DEF IInv, ReloadPuts, Gets, PolledByItsEntry
  <1>3. ASSUME NEW u \in Server, faults' = 0 PROVE Agreed(u)'
    <2>1. faults = 0 BY <1>3 DEF ReloadPuts
    <2>2. Carried(u) /\ ListedAsStored(u) /\ Leaving(u) /\ Current(u) /\ Ready(u)
      BY <2>1 DEF IInv, Agrees, Agreed
    <2>3. Carried(u)' BY DEF ReloadPuts, Listed, Done, Carried, Holding
    <2>4. ListedAsStored(u)' BY <2>2, <1>3 DEF ReloadPuts, Done, Seen, ListedAsStored, Other
    <2>5. Leaving(u)'
      BY <1>p, <2>2, <1>3 DEF ReloadPuts, Listed, Done, Seen, Gets, Leaving, Holding, ListedAsStored, Other
    <2>6. Current(u)'
      <3>1. op.name = "reload" /\ [srv |-> s, conn |-> conn] \in op.conns /\ UNCHANGED <<row, asked, attach>>
        BY DEF ReloadPuts, Listed
      <3>2. stale'[u] = stale[u] \/ (u = s /\ stale[u] = "seen")
        BY DEF ReloadPuts, Done, Seen
      <3>3. CASE u # s
        <4>1. entry'[u] = entry[u] /\ stale'[u] = stale[u] BY <1>p, <3>2, <3>3 DEF Gets
        <4>. QED BY <2>2, <1>3, <3>1, <4>1 DEF Current, Holding
      <3>4. CASE u = s
        <4>1. stale[u] = "other" => stale'[u] = "other" BY <3>2
        <4>2. row[u].kind = "local" => conn = row[u].conn \/ stale[u] = "other"
          BY <2>2, <1>3, <3>1, <3>4 DEF ListedAsStored, Other
        <4>3. entry'[u].kind = "polled" /\ entry'[u].conn = conn
          BY <1>p, <3>4 DEF Gets, Unchanged, Build, Polled
        <4>. QED BY <2>2, <1>3, <3>1, <4>1, <4>2, <4>3 DEF Current
      <3>. QED BY <3>3, <3>4
    <2>7. Ready(u)' BY <1>p, <2>2, <1>3 DEF ReloadPuts, Gets, Ready
    <2>. QED BY <2>3, <2>4, <2>5, <2>6, <2>7 DEF Agreed
  <1>. QED BY <1>1, <1>2, <1>3 DEF IInv, Agrees

LEMMA ReloadUnenrolsKeeps ==
    ASSUME IInv, NEW s \in Server, NEW conn \in 0..MaxWrites, ReloadUnenrols([srv |-> s, conn |-> conn])
    PROVE  IInv'
  <1>p. Gets(s, NoEntry) BY OpsGet DEF ReloadUnenrols
  <1>1. TypeOK' BY <1>p DEF IInv, ReloadUnenrols, Gets, TypeOK, OpType, Free
  <1>2. PolledByItsEntry' BY <1>p DEF Gets
  <1>3. ASSUME NEW u \in Server, faults' = 0 PROVE Agreed(u)'
    <2>1. faults = 0 BY <1>3 DEF ReloadUnenrols
    <2>2. Carried(u) /\ ListedAsStored(u) /\ Leaving(u) /\ Current(u) /\ Ready(u)
      BY <2>1 DEF IInv, Agrees, Agreed
    <2>3. Carried(u)' BY DEF ReloadUnenrols, Listed, Carried, Holding
    <2>4. ListedAsStored(u)' BY <2>2, <1>3 DEF ReloadUnenrols, ListedAsStored, Other
    <2>5. Leaving(u)' BY <1>p, <2>2, <1>3 DEF ReloadUnenrols, Gets, Leaving, Holding
    <2>6. Current(u)' BY <1>p, <2>2, <1>3 DEF ReloadUnenrols, Gets, Current, Holding
    <2>7. Ready(u)' BY <1>p, <2>2, <1>3 DEF ReloadUnenrols, Gets, Ready
    <2>. QED BY <2>3, <2>4, <2>5, <2>6, <2>7 DEF Agreed
  <1>. QED BY <1>1, <1>2, <1>3 DEF IInv, Agrees

LEMMA ReloadAddsKeeps ==
    ASSUME IInv, NEW s \in Server, NEW conn \in 0..MaxWrites, ReloadAdds([srv |-> s, conn |-> conn])
    PROVE  IInv'
  <1>p. IF entry[s] = NoEntry THEN Gets(s, Build(conn)) ELSE UNCHANGED <<entry, pollers>>
    BY OpsGet DEF ReloadAdds
  <1>1. TypeOK' BY <1>p DEF IInv, ReloadAdds, Done, Seen, Free, Gets, TypeOK, OpType
  <1>2. PolledByItsEntry' BY <1>p DEF IInv, ReloadAdds, Gets, PolledByItsEntry
  <1>3. ASSUME NEW u \in Server, faults' = 0 PROVE Agreed(u)'
    <2>1. faults = 0 BY <1>3 DEF ReloadAdds
    <2>2. Carried(u) /\ ListedAsStored(u) /\ Leaving(u) /\ Current(u) /\ Ready(u)
      BY <2>1 DEF IInv, Agrees, Agreed
    <2>3. Carried(u)'
      <3>1. op'.name \notin {"replace", "switch", "add", "remove"}
        BY DEF ReloadAdds, Listed, Done, Free, IInv, TypeOK, OpType
      <3>. QED BY <3>1 DEF Carried, Holding
    <2>4. ListedAsStored(u)'
      <3>1. CASE op' = Free BY <3>1 DEF ListedAsStored, Free
      <3>2. CASE Done(s)
        <4>1. op'.conns = op.conns /\ op'.agents = op.agents /\ op.name = "reload" /\ UNCHANGED row
          BY <3>2 DEF ReloadAdds, Listed, Done
        <4>2. Other(u)' <=> Other(u) BY <3>2 DEF Done, Seen, Other
        <4>. QED BY <2>2, <1>3, <4>1, <4>2 DEF ListedAsStored
      <3>. QED BY <3>1, <3>2 DEF ReloadAdds
    <2>5. Leaving(u)'
      BY <1>p, <2>2, <1>3 DEF IInv, ReloadAdds, Listed, Done, Seen, Gets, TypeOK, Leaving, Holding,
         ListedAsStored, Other
    <2>6. Current(u)'
      BY <1>p, <2>2, <1>3 DEF IInv, ReloadAdds, Listed, Done, Seen, Gets, Build, Polled, TypeOK, Current,
         Holding, ListedAsStored, Other
    <2>7. Ready(u)' BY <1>p, <2>2, <1>3 DEF ReloadAdds, Gets, Ready
    <2>. QED BY <2>3, <2>4, <2>5, <2>6, <2>7 DEF Agreed
  <1>. QED BY <1>1, <1>2, <1>3 DEF IInv, Agrees

LEMMA ReloadAttachesKeeps == ASSUME IInv, NEW s \in Server, ReloadAttaches(s) PROVE IInv'
  <1>p. Gets(s, AgentEntry) \/ (entry[s].kind = "agent" /\ UNCHANGED <<entry, pollers>>)
    BY OpsGet DEF ReloadAttaches
  <1>1. TypeOK' BY <1>p DEF IInv, ReloadAttaches, Done, Seen, Gets, TypeOK, OpType, Free
  <1>2. PolledByItsEntry' BY <1>p DEF IInv, ReloadAttaches, Gets, PolledByItsEntry
  <1>3. ASSUME NEW u \in Server, faults' = 0 PROVE Agreed(u)'
    <2>1. faults = 0 BY <1>3 DEF ReloadAttaches
    <2>2. Carried(u) /\ ListedAsStored(u) /\ Leaving(u) /\ Current(u) /\ Ready(u)
      BY <2>1 DEF IInv, Agrees, Agreed
    <2>3. Carried(u)' BY DEF ReloadAttaches, Done, Carried, Holding
    <2>4. ListedAsStored(u)' BY <2>2, <1>3 DEF ReloadAttaches, Done, Seen, ListedAsStored, Other
    <2>5. Leaving(u)'
      BY <1>p, <2>2, <1>3 DEF ReloadAttaches, Done, Seen, Gets, Leaving, Holding, ListedAsStored, Other, NoRow
    <2>6. Current(u)'
      BY <1>p, <2>2, <1>3 DEF ReloadAttaches, Done, Seen, Gets, Current, Holding, ListedAsStored, Other
    <2>7. Ready(u)' BY <1>p, <2>2, <1>3 DEF ReloadAttaches, Gets, Ready
    <2>. QED BY <2>3, <2>4, <2>5, <2>6, <2>7 DEF Agreed
  <1>. QED BY <1>1, <1>2, <1>3 DEF IInv, Agrees

LEMMA ReloadEndsKeeps == ASSUME IInv, ReloadEnds PROVE IInv'
  <1>1. TypeOK' BY DEF IInv, ReloadEnds, TypeOK, OpType
  <1>2. PolledByItsEntry' BY DEF IInv, ReloadEnds, PolledByItsEntry
  <1>3. ASSUME NEW u \in Server, faults' = 0 PROVE Agreed(u)'
    <2>1. faults = 0 BY <1>3 DEF ReloadEnds
    <2>2. Carried(u) /\ ListedAsStored(u) /\ Leaving(u) /\ Current(u) /\ Ready(u)
      BY <2>1 DEF IInv, Agrees, Agreed
    <2>3. Carried(u)' BY DEF ReloadEnds, Free, Carried, Holding
    <2>4. ListedAsStored(u)' BY DEF ReloadEnds, Free, ListedAsStored
    <2>5. Leaving(u)' BY <2>2, <1>3 DEF ReloadEnds, Leaving, Holding
    <2>6. Current(u)' BY <2>2, <1>3 DEF ReloadEnds, Current, Holding
    <2>7. Ready(u)' BY <2>2, <1>3 DEF ReloadEnds, Ready
    <2>. QED BY <2>3, <2>4, <2>5, <2>6, <2>7 DEF Agreed
  <1>. QED BY <1>1, <1>2, <1>3 DEF IInv, Agrees

LEMMA ReloadFailsKeeps == ASSUME IInv, ReloadFails PROVE IInv'
  <1>1. TypeOK' BY DEF IInv, ReloadFails, Counted, TypeOK, OpType
  <1>2. PolledByItsEntry' BY DEF IInv, ReloadFails, PolledByItsEntry
  <1>3. ASSUME NEW u \in Server, faults' = 0 PROVE Agreed(u)'
    <2>1. faults = 0 BY <1>3 DEF IInv, ReloadFails, Counted, TypeOK
    <2>2. Carried(u) /\ ListedAsStored(u) /\ Leaving(u) /\ Current(u) /\ Ready(u)
      BY <2>1 DEF IInv, Agrees, Agreed
    <2>3. Carried(u)' BY <1>3 DEF IInv, ReloadFails, Counted, TypeOK
    <2>4. ListedAsStored(u)' BY DEF ReloadFails, Free, ListedAsStored
    <2>5. Leaving(u)' BY <1>3 DEF IInv, ReloadFails, Counted, TypeOK
    <2>6. Current(u)' BY <1>3 DEF IInv, ReloadFails, Counted, TypeOK
    <2>7. Ready(u)' BY <1>3 DEF IInv, ReloadFails, Counted, TypeOK
    <2>. QED BY <2>3, <2>4, <2>5, <2>6, <2>7 DEF Agreed
  <1>. QED BY <1>1, <1>2, <1>3 DEF IInv, Agrees

LEMMA SnapshotKeeps == ASSUME IInv, NEW s \in Server, Snapshot(s) PROVE IInv'
  <1>1. TypeOK' BY DEF IInv, Snapshot, TypeOK
  <1>2. PolledByItsEntry' BY DEF IInv, Snapshot, PolledByItsEntry
  <1>3. ASSUME NEW u \in Server, faults' = 0 PROVE Agreed(u)'
    <2>1. faults = 0 BY <1>3 DEF Snapshot
    <2>2. Carried(u) /\ ListedAsStored(u) /\ Leaving(u) /\ Current(u) /\ Ready(u)
      BY <2>1 DEF IInv, Agrees, Agreed
    <2>3. Carried(u)' BY <2>2, <1>3 DEF Snapshot, Carried, Holding, Other
    <2>4. ListedAsStored(u)' BY <2>2, <1>3 DEF Snapshot, ListedAsStored, Other
    <2>5. Leaving(u)' BY <2>2, <1>3 DEF Snapshot, Leaving, Holding
    <2>6. Current(u)' BY <2>2, <1>3 DEF Snapshot, Current, Holding
    <2>7. Ready(u)' BY <2>2, <1>3 DEF Snapshot, Ready
    <2>. QED BY <2>3, <2>4, <2>5, <2>6, <2>7 DEF Agreed
  <1>. QED BY <1>1, <1>2, <1>3 DEF IInv, Agrees

LEMMA EnrollKeeps == ASSUME IInv, NEW s \in Server, Enroll(s) PROVE IInv'
  <1>1. TypeOK' BY Values DEF IInv, Enroll, Counted, Write, TypeOK
  <1>2. PolledByItsEntry' BY DEF IInv, Enroll, PolledByItsEntry
  <1>3. ASSUME NEW u \in Server, faults' = 0 PROVE Agreed(u)'
    <2>1. faults = 0 BY <1>3 DEF IInv, Enroll, Counted, TypeOK
    <2>2. Carried(u) /\ ListedAsStored(u) /\ Leaving(u) /\ Current(u) /\ Ready(u)
      BY <2>1 DEF IInv, Agrees, Agreed
    <2>3. Carried(u)' BY <2>2, <1>3 DEF Enroll, Write, Carried, Holding, Other, AgentRow, NoRow
    <2>4. ListedAsStored(u)' BY <2>2, <1>3 DEF Enroll, Write, ListedAsStored, Other, AgentRow, NoRow
    <2>5. Leaving(u)' BY <2>2, <1>3 DEF Enroll, Write, Leaving, Holding, AgentRow, NoRow
    <2>6. Current(u)' BY <2>2, <1>3 DEF IInv, Enroll, Write, TypeOK, Current, Holding, AgentRow
    <2>7. Ready(u)' BY <2>2, <1>3 DEF Enroll, Ready
    <2>. QED BY <2>3, <2>4, <2>5, <2>6, <2>7 DEF Agreed
  <1>. QED BY <1>1, <1>2, <1>3 DEF IInv, Agrees

LEMMA AttachStartsKeeps == ASSUME IInv, NEW s \in Server, AttachStarts(s) PROVE IInv'
  <1>p. (Gets(s, AgentEntry) /\ attach' = [attach EXCEPT ![s] = "added"]) \/ UNCHANGED <<entry, pollers>>
    BY OpsGet DEF AttachStarts
  <1>1. TypeOK' BY <1>p DEF IInv, AttachStarts, Gets, TypeOK
  <1>2. PolledByItsEntry' BY <1>p DEF IInv, AttachStarts, Gets, PolledByItsEntry
  <1>3. ASSUME NEW u \in Server, faults' = 0 PROVE Agreed(u)'
    <2>1. faults = 0 BY <1>3 DEF AttachStarts
    <2>2. Carried(u) /\ ListedAsStored(u) /\ Leaving(u) /\ Current(u) /\ Ready(u)
      BY <2>1 DEF IInv, Agrees, Agreed
    <2>3. Carried(u)' BY <1>p, <2>2, <1>3 DEF AttachStarts, Gets, Carried, Holding, Other, Current
    <2>4. ListedAsStored(u)' BY <2>2, <1>3 DEF AttachStarts, ListedAsStored, Other
    <2>5. Leaving(u)' BY <1>p, <2>2, <1>3 DEF IInv, AttachStarts, Gets, TypeOK, Leaving, Holding
    <2>6. Current(u)' BY <1>p, <2>2, <1>3 DEF IInv, AttachStarts, Gets, TypeOK, Current, Holding
    <2>7. Ready(u)' BY <1>p, <2>2, <1>3 DEF AttachStarts, Gets, Ready
    <2>. QED BY <2>3, <2>4, <2>5, <2>6, <2>7 DEF Agreed
  <1>. QED BY <1>1, <1>2, <1>3 DEF IInv, Agrees

LEMMA AttachNamesKeeps == ASSUME IInv, NEW s \in Server, AttachNames(s) PROVE IInv'
  <1>1. TypeOK' BY DEF IInv, AttachNames, TypeOK
  <1>2. PolledByItsEntry' BY DEF IInv, AttachNames, PolledByItsEntry
  <1>3. ASSUME NEW u \in Server, faults' = 0 PROVE Agreed(u)'
    <2>1. faults = 0 BY <1>3 DEF AttachNames
    <2>2. Carried(u) /\ ListedAsStored(u) /\ Leaving(u) /\ Current(u) /\ Ready(u)
      BY <2>1 DEF IInv, Agrees, Agreed
    <2>3. Carried(u)' BY <2>2, <1>3 DEF AttachNames, Carried, Holding, Other
    <2>4. ListedAsStored(u)' BY <2>2, <1>3 DEF AttachNames, ListedAsStored, Other
    <2>5. Leaving(u)' BY <2>2, <1>3 DEF AttachNames, Leaving, Holding
    <2>6. Current(u)' BY <2>2, <1>3 DEF AttachNames, Current, Holding
    <2>7. Ready(u)' BY <2>2, <1>3 DEF AttachNames, Ready
    <2>. QED BY <2>3, <2>4, <2>5, <2>6, <2>7 DEF Agreed
  <1>. QED BY <1>1, <1>2, <1>3 DEF IInv, Agrees

LEMMA AttachAddsKeeps == ASSUME IInv, NEW s \in Server, AttachAdds(s) PROVE IInv'
  <1>p. Gets(s, AgentEntry) BY OpsGet DEF AttachAdds
  <1>1. TypeOK' BY <1>p DEF IInv, AttachAdds, Gets, TypeOK
  <1>2. PolledByItsEntry' BY <1>p DEF Gets
  <1>3. ASSUME NEW u \in Server, faults' = 0 PROVE Agreed(u)'
    <2>1. faults = 0 BY <1>3 DEF AttachAdds
    <2>2. Carried(u) /\ ListedAsStored(u) /\ Leaving(u) /\ Current(u) /\ Ready(u)
      BY <2>1 DEF IInv, Agrees, Agreed
    <2>3. Carried(u)' BY <1>p, <2>2, <1>3 DEF AttachAdds, Gets, Carried, Holding, Other, Current
    <2>4. ListedAsStored(u)' BY <2>2, <1>3 DEF AttachAdds, ListedAsStored, Other
    <2>5. Leaving(u)' BY <1>p, <2>2, <1>3 DEF IInv, AttachAdds, Gets, TypeOK, Leaving, Holding
    <2>6. Current(u)' BY <1>p, <2>2, <1>3 DEF AttachAdds, Gets, Current, Holding
    <2>7. Ready(u)' BY <1>p, <2>2, <1>3 DEF AttachAdds, Gets, Ready
    <2>. QED BY <2>3, <2>4, <2>5, <2>6, <2>7 DEF Agreed
  <1>. QED BY <1>1, <1>2, <1>3 DEF IInv, Agrees

LEMMA AttachChecksKeeps == ASSUME IInv, NEW s \in Server, AttachChecks(s) PROVE IInv'
  <1>1. TypeOK' BY DEF IInv, AttachChecks, AfterAdd, TypeOK
  <1>2. PolledByItsEntry' BY DEF IInv, AttachChecks, PolledByItsEntry
  <1>3. ASSUME NEW u \in Server, faults' = 0 PROVE Agreed(u)'
    <2>1. faults = 0 BY <1>3 DEF AttachChecks
    <2>2. Carried(u) /\ ListedAsStored(u) /\ Leaving(u) /\ Current(u) /\ Ready(u)
      BY <2>1 DEF IInv, Agrees, Agreed
    <2>3. Carried(u)' BY <2>2, <1>3 DEF AttachChecks, Carried, Holding, Other
    <2>4. ListedAsStored(u)' BY <2>2, <1>3 DEF AttachChecks, ListedAsStored, Other
    <2>5. Leaving(u)' BY <2>2, <1>3 DEF AttachChecks, AfterAdd, Leaving, Holding
    <2>6. Current(u)' BY <2>2, <1>3 DEF AttachChecks, Current, Holding
    <2>7. Ready(u)' BY <2>2, <1>3 DEF AttachChecks, Ready
    <2>. QED BY <2>3, <2>4, <2>5, <2>6, <2>7 DEF Agreed
  <1>. QED BY <1>1, <1>2, <1>3 DEF IInv, Agrees

LEMMA AttachTakesBackKeeps == ASSUME IInv, NEW s \in Server, AttachTakesBack(s) PROVE IInv'
  <1>p. Gets(s, NoEntry) BY OpsGet DEF AttachTakesBack
  <1>1. TypeOK' BY <1>p DEF IInv, AttachTakesBack, Gets, TypeOK
  <1>2. PolledByItsEntry' BY <1>p DEF Gets
  <1>3. ASSUME NEW u \in Server, faults' = 0 PROVE Agreed(u)'
    <2>1. faults = 0 BY <1>3 DEF AttachTakesBack
    <2>2. Carried(u) /\ ListedAsStored(u) /\ Leaving(u) /\ Current(u) /\ Ready(u)
      BY <2>1 DEF IInv, Agrees, Agreed
    <2>3. Carried(u)' BY <1>p, <2>2, <1>3 DEF AttachTakesBack, Gets, Carried, Holding, Other, Current
    <2>4. ListedAsStored(u)' BY <2>2, <1>3 DEF AttachTakesBack, ListedAsStored, Other
    <2>5. Leaving(u)' BY <1>p, <2>2, <1>3 DEF AttachTakesBack, Gets, NoEntry, Leaving, Holding
    <2>6. Current(u)' BY <1>p, <2>2, <1>3 DEF AttachTakesBack, Gets, Current, Holding
    <2>7. Ready(u)' BY <1>p, <2>2, <1>3 DEF AttachTakesBack, Gets, Ready
    <2>. QED BY <2>3, <2>4, <2>5, <2>6, <2>7 DEF Agreed
  <1>. QED BY <1>1, <1>2, <1>3 DEF IInv, Agrees

LEMMA AttachFailsKeeps == ASSUME IInv, NEW s \in Server, AttachFails(s) PROVE IInv'
  <1>1. TypeOK' BY DEF IInv, AttachFails, Counted, TypeOK
  <1>2. PolledByItsEntry' BY DEF IInv, AttachFails, PolledByItsEntry
  <1>3. ASSUME NEW u \in Server, faults' = 0 PROVE Agreed(u)'
    <2>1. faults = 0 BY <1>3 DEF IInv, AttachFails, Counted, TypeOK
    <2>2. Carried(u) /\ ListedAsStored(u) /\ Leaving(u) /\ Current(u) /\ Ready(u)
      BY <2>1 DEF IInv, Agrees, Agreed
    <2>3. Carried(u)' BY <1>3 DEF IInv, AttachFails, Counted, TypeOK
    <2>4. ListedAsStored(u)' BY <1>3 DEF IInv, AttachFails, Counted, TypeOK
    <2>5. Leaving(u)' BY <1>3 DEF IInv, AttachFails, Counted, TypeOK
    <2>6. Current(u)' BY <1>3 DEF IInv, AttachFails, Counted, TypeOK
    <2>7. Ready(u)' BY <1>3 DEF IInv, AttachFails, Counted, TypeOK
    <2>. QED BY <2>3, <2>4, <2>5, <2>6, <2>7 DEF Agreed
  <1>. QED BY <1>1, <1>2, <1>3 DEF IInv, Agrees

LEMMA OtherWritesKeeps == ASSUME IInv, NEW s \in Server, OtherWrites(s) PROVE IInv'
  <1>1. TypeOK' BY Values DEF IInv, OtherWrites, Counted, Write, TypeOK
  <1>2. PolledByItsEntry' BY DEF IInv, OtherWrites, PolledByItsEntry
  <1>3. ASSUME NEW u \in Server, faults' = 0 PROVE Agreed(u)'
    <2>1. faults = 0 BY <1>3 DEF IInv, OtherWrites, Counted, TypeOK
    <2>2. Carried(u) /\ ListedAsStored(u) /\ Leaving(u) /\ Current(u) /\ Ready(u)
      BY <2>1 DEF IInv, Agrees, Agreed
    <2>3. Carried(u)' BY <2>2, <1>3 DEF IInv, OtherWrites, Write, TypeOK, Carried, Holding, Other
    <2>4. ListedAsStored(u)' BY <2>2, <1>3 DEF IInv, OtherWrites, Write, TypeOK, ListedAsStored, Other
    <2>5. Leaving(u)' BY <2>2, <1>3 DEF IInv, OtherWrites, Write, TypeOK, Leaving, Holding
    <2>6. Current(u)' BY <2>2, <1>3 DEF IInv, OtherWrites, Counted, Write, TypeOK, Current, Holding, NoRow
    <2>7. Ready(u)' BY <2>2, <1>3 DEF OtherWrites, Ready
    <2>. QED BY <2>3, <2>4, <2>5, <2>6, <2>7 DEF Agreed
  <1>. QED BY <1>1, <1>2, <1>3 DEF IInv, Agrees

LEMMA ElectedKeeps == ASSUME IInv, Elected PROVE IInv'
  <1>1. TypeOK' BY DEF IInv, Elected, TypeOK
  <1>2. PolledByItsEntry' BY DEF IInv, Elected, PolledByItsEntry
  <1>3. ASSUME NEW u \in Server, faults' = 0 PROVE Agreed(u)'
    <2>1. faults = 0 BY <1>3 DEF Elected
    <2>2. Carried(u) /\ ListedAsStored(u) /\ Leaving(u) /\ Current(u) /\ Ready(u)
      BY <2>1 DEF IInv, Agrees, Agreed
    <2>3. Carried(u)' BY <2>2, <1>3 DEF Elected, Carried, Holding, Other
    <2>4. ListedAsStored(u)' BY <2>2, <1>3 DEF Elected, ListedAsStored, Other
    <2>5. Leaving(u)' BY <2>2, <1>3 DEF Elected, Leaving, Holding
    <2>6. Current(u)' BY <2>2, <1>3 DEF Elected, Current, Holding
    <2>7. Ready(u)' BY <2>2, <1>3 DEF Elected, Ready
    <2>. QED BY <2>3, <2>4, <2>5, <2>6, <2>7 DEF Agreed
  <1>. QED BY <1>1, <1>2, <1>3 DEF IInv, Agrees

LEMMA LeadsKeeps == ASSUME IInv, Leads PROVE IInv'
  <1>p. Moves /\ ((\A u \in Server : Ready(u)) => \A u \in Server : Ready(u)')
    BY LeaderMoves DEF Leads
  <1>1. TypeOK'
    <2>1. entry' \in [Server -> EntryType] /\ pollers' \in [Server -> Nat] BY <1>p DEF Moves
    <2>2. faults' \in Nat BY DEF IInv, TypeOK, Leads
    <2>3. leader' \in BOOLEAN BY DEF SetLeader, Leads
    <2>. QED BY <2>1, <2>3 DEF IInv, TypeOK, Leads
  <1>2. PolledByItsEntry' BY <1>p DEF Moves
  <1>3. faults' = 0 => faults = 0 BY DEF Leads
  <1>4. ASSUME NEW u \in Server, faults' = 0
        PROVE  Carried(u)' /\ ListedAsStored(u)' /\ Leaving(u)' /\ Current(u)'
    <2>1. Carried(u) /\ ListedAsStored(u) /\ Leaving(u) /\ Current(u) BY <1>3, <1>4 DEF IInv, Agrees, Agreed
    <2>2. UNCHANGED <<row, op, asked, attach, stale>> BY DEF Leads
    <2>. QED BY <1>p, <2>1, <2>2, MovesAgree
  <1>5. ASSUME NEW u \in Server, faults' = 0 PROVE Ready(u)'
    <2>1. \A v \in Server : Ready(v) BY <1>3, <1>5 DEF IInv, Agrees, Agreed
    <2>. QED BY <2>1, <1>p, <1>5 
  <1>. QED BY <1>1, <1>2, <1>4, <1>5 DEF IInv, Agrees, Agreed

LEMMA LostKeeps == ASSUME IInv, Lost PROVE IInv'
  <1>f. PICK failed \in SUBSET Server : Counted(failed # {}) /\ SetLeader(FALSE, failed)
    BY DEF Lost
  <1>p. Moves /\ (failed = {} /\ (\A u \in Server : Ready(u)) => \A u \in Server : Ready(u)')
    BY <1>f, LeaderMoves DEF Lost
  <1>1. TypeOK'
    <2>1. entry' \in [Server -> EntryType] /\ pollers' \in [Server -> Nat] BY <1>p DEF Moves
    <2>2. faults' \in Nat BY DEF IInv, TypeOK, Lost, Counted
    <2>3. leader' \in BOOLEAN BY <1>f DEF SetLeader
    <2>. QED BY <2>1, <2>2, <2>3 DEF IInv, TypeOK, Lost
  <1>2. PolledByItsEntry' BY <1>p DEF Moves
  <1>3. faults' = 0 => faults = 0 BY DEF IInv, TypeOK, Lost, Counted
  <1>4. ASSUME NEW u \in Server, faults' = 0
        PROVE  Carried(u)' /\ ListedAsStored(u)' /\ Leaving(u)' /\ Current(u)'
    <2>1. Carried(u) /\ ListedAsStored(u) /\ Leaving(u) /\ Current(u) BY <1>3, <1>4 DEF IInv, Agrees, Agreed
    <2>2. UNCHANGED <<row, op, asked, attach, stale>> BY DEF Lost
    <2>. QED BY <1>p, <2>1, <2>2, MovesAgree
  <1>5. ASSUME NEW u \in Server, faults' = 0 PROVE Ready(u)'
    <2>1. \A v \in Server : Ready(v) BY <1>3, <1>5 DEF IInv, Agrees, Agreed
    <2>. QED BY <1>f, <1>3, <2>1, <1>p, <1>5 DEF Counted
  <1>. QED BY <1>1, <1>2, <1>4, <1>5 DEF IInv, Agrees, Agreed

LEMMA StopKeeps == ASSUME IInv, Stop PROVE IInv'
  <1>p. Moves /\ ~running'
    <2>1. /\ pollers' = [u \in Server |-> 0] /\ ~running'
          /\ entry' = [u \in Server |-> IF entry[u].pollers = "on" THEN Polled(entry[u].conn, "spent") ELSE entry[u]]
      BY DEF Stop, Silent
    <2>2. entry \in [Server -> EntryType] BY DEF IInv, TypeOK
    <2>3. \A u \in Server : entry[u].pollers = "on" => entry[u].kind = "polled" BY DEF IInv, PolledByItsEntry, Running
    <2>4. entry' \in [Server -> EntryType] BY <2>1, <2>2 DEF EntryType, Polled
    <2>5. \A u \in Server : /\ entry'[u].kind = entry[u].kind /\ entry'[u].conn = entry[u].conn
                            /\ entry[u].kind # "polled" => entry'[u] = entry[u]
                            /\ entry'[u].pollers # "on"
      BY <2>1, <2>2, <2>3 DEF Polled
    <2>6. \A u \in Server : entry'[u] = NoEntry <=> entry[u] = NoEntry BY <2>5 DEF NoEntry
    <2>7. PolledByItsEntry' /\ pollers' \in [Server -> Nat] BY <2>1, <2>5 DEF PolledByItsEntry, Running
    <2>. QED BY <2>1, <2>4, <2>5, <2>6, <2>7 DEF Moves
  <1>1. TypeOK'
    <2>1. entry' \in [Server -> EntryType] /\ pollers' \in [Server -> Nat] BY <1>p DEF Moves
    <2>2. faults' \in Nat BY DEF IInv, TypeOK, Stop
    <2>3. leader' \in BOOLEAN BY DEF IInv, TypeOK, Stop
    <2>. QED BY <2>1 DEF IInv, TypeOK, Stop
  <1>2. PolledByItsEntry' BY <1>p DEF Moves
  <1>3. faults' = 0 => faults = 0 BY DEF Stop
  <1>4. ASSUME NEW u \in Server, faults' = 0
        PROVE  Carried(u)' /\ ListedAsStored(u)' /\ Leaving(u)' /\ Current(u)'
    <2>1. Carried(u) /\ ListedAsStored(u) /\ Leaving(u) /\ Current(u) BY <1>3, <1>4 DEF IInv, Agrees, Agreed
    <2>2. UNCHANGED <<row, op, asked, attach, stale>> BY DEF Stop
    <2>. QED BY <1>p, <2>1, <2>2, MovesAgree
  <1>5. ASSUME NEW u \in Server, faults' = 0 PROVE Ready(u)'
    <2>1. \A v \in Server : Ready(v) BY <1>3, <1>5 DEF IInv, Agrees, Agreed
    <2>. QED BY <2>1, <1>p, <1>5 DEF Ready
  <1>. QED BY <1>1, <1>2, <1>4, <1>5 DEF IInv, Agrees, Agreed

LEMMA Initially == Init => IInv
  <1>. SUFFICES ASSUME Init PROVE IInv OBVIOUS
  <1>1. row \in [Server -> RowType]
    BY DEF Init, NoRow, AgentRow, Local, RowType
  <1>2. ASSUME NEW s \in Server
        PROVE  /\ row[s].kind = "none" => entry[s] = NoEntry
               /\ row[s].kind = "agent" => entry[s] = AgentEntry
               /\ row[s].kind = "local" => row[s].conn = 0 /\ entry[s] = Build(0)
               /\ row[s].kind \in {"none", "agent", "local"} /\ entry[s] \in EntryType
    <2>1. row[s] \in {NoRow, AgentRow, Local(0)} BY DEF Init
    <2>2. /\ row[s].kind \in {"none", "agent", "local"}
          /\ row[s].kind = "local" => row[s].conn = 0
      BY <2>1 DEF NoRow, AgentRow, Local
    <2>3. entry[s] = CASE row[s].kind = "none" -> NoEntry
                       [] row[s].kind = "agent" -> AgentEntry
                       [] OTHER -> Build(0)
      BY DEF Init
    <2>. QED BY <2>2, <2>3, Values
  <1>3. entry \in [Server -> EntryType]
    <2>1. DOMAIN entry = Server /\ entry = [s \in Server |-> entry[s]] BY DEF Init
    <2>. QED BY <1>2, <2>1
  <1>4. \A s \in Server : pollers[s] = 0 /\ entry[s].pollers # "on"
    BY DEF Init, Silent, NoEntry, AgentEntry, Build, Polled
  <1>5. TypeOK BY <1>1, <1>3 DEF Init, TypeOK, OpType, Silent
  <1>6. PolledByItsEntry BY <1>4 DEF PolledByItsEntry, Running
  <1>7. ASSUME NEW s \in Server
        PROVE  Carried(s) /\ ListedAsStored(s) /\ Leaving(s) /\ Current(s) /\ Ready(s)
    <2>1. Carried(s) /\ ListedAsStored(s) BY DEF Init, Carried, ListedAsStored, Holding, Free
    <2>2. Leaving(s) BY <1>2 DEF Leaving, NoRow
    <2>3. Current(s) BY <1>2 DEF Init, Current, Build, Polled
    <2>4. Ready(s) BY DEF Init, Ready, NoEntry, AgentEntry, Build, Polled
    <2>. QED BY <2>1, <2>2, <2>3, <2>4
  <1>. QED BY <1>5, <1>6, <1>7 DEF IInv, Agrees, Agreed

LEMMA Inductive == IInv /\ [Next]_vars => IInv'
  <1>. SUFFICES ASSUME IInv, [Next]_vars PROVE IInv' OBVIOUS
  <1>1. CASE OpStep
    <2>1. CASE Replaces \/ Removes \/ SwitchDrops \/ SwitchAdds
      BY <2>1, ReplacesKeeps, RemovesKeeps, SwitchDropsKeeps, SwitchAddsKeeps
    <2>2. CASE ReloadStarts \/ ReloadListsAgents \/ ReloadEnds
      BY <2>2, ReloadStartsKeeps, ReloadListsAgentsKeeps, ReloadEndsKeeps
    <2>3. ASSUME NEW s \in Server, ReloadDrops(s) \/ ReloadAttaches(s) PROVE IInv'
      BY <2>3, ReloadDropsKeeps, ReloadAttachesKeeps
    <2>4. ASSUME NEW s \in Server, NEW conn \in 0..MaxWrites,
                 \/ ReloadPuts([srv |-> s, conn |-> conn]) \/ ReloadUnenrols([srv |-> s, conn |-> conn])
                 \/ ReloadAdds([srv |-> s, conn |-> conn])
          PROVE  IInv'
      BY <2>4, ReloadPutsKeeps, ReloadUnenrolsKeeps, ReloadAddsKeeps
    <2>. QED BY <1>1, <2>1, <2>2, <2>3, <2>4 DEF OpStep
  <1>2. CASE ReloadFails \/ Elected \/ Leads \/ Lost \/ Stop
    BY <1>2, ReloadFailsKeeps, ElectedKeeps, LeadsKeeps, LostKeeps, StopKeeps
  <1>3. ASSUME NEW s \in Server, Create(s) \/ Update(s) \/ Remove(s) \/ SwitchToLocal(s) \/ OtherWrites(s)
        PROVE  IInv'
    BY <1>3, CreateKeeps, UpdateKeeps, RemoveKeeps, SwitchToLocalKeeps, OtherWritesKeeps
  <1>4. ASSUME NEW s \in Server, Snapshot(s) \/ Enroll(s) \/ AttachStep(s) \/ AttachFails(s) PROVE IInv'
    BY <1>4, SnapshotKeeps, EnrollKeeps, AttachStartsKeeps, AttachNamesKeeps, AttachAddsKeeps,
       AttachChecksKeeps, AttachTakesBackKeeps, AttachFailsKeeps DEF AttachStep
  <1>5. CASE UNCHANGED vars
    <2>1. TypeOK' BY <1>5 DEF IInv, TypeOK
    <2>2. PolledByItsEntry' BY <1>5 DEF IInv, PolledByItsEntry
    <2>3. Agrees' BY <1>5 DEF IInv, Agrees, Agreed, Carried, ListedAsStored, Leaving, Current, Ready, Holding, Other
    <2>. QED BY <2>1, <2>2, <2>3 DEF IInv
  <1>. QED BY <1>1, <1>2, <1>3, <1>4, <1>5 DEF Next

LEMMA Invariant == Spec => []IInv
  BY Initially, Inductive, PTL DEF Spec

\* Every variable has its type: above all, what holds the mutex is one of the operations.
THEOREM TypeCorrect == Spec => []TypeOK
  BY Invariant, PTL DEF IInv

\* serverRuntime.ts: a server is polled at most once, by the leader, while its entry is there, whatever
\* replaces, removals, reloads, attaches and changes of leadership interleave, faults or not.
THEOREM PolledOnce == Spec => []PolledByItsEntry
  BY Invariant, PTL DEF IInv

\* runtimeGuard.ts: without faults a removed server leaves no entry, however its removal and its attach
\* interleave: an entry without a row waits for the removal that holds the mutex, for the second read of
\* the attach that put it, or for a reload.
THEOREM RemovedLeavesNone == Spec => []NoneLeft
  <1>1. IInv => NoneLeft
    BY DEF IInv, Agrees, Agreed, Leaving, Holding, Free, NoneLeft, Settled
  <1>. QED BY <1>1, Invariant, PTL

\* serverRuntime.ts: without faults the leader polls what the database connects to directly, on the
\* stored connection.
THEOREM StoredIsPolled == Spec => []LocalIsPolled
  <1>1. IInv => LocalIsPolled
    <2>. SUFFICES ASSUME IInv, NEW s \in Server, faults = 0, Settled(s), row[s].kind = "local", leader, running
                  PROVE  entry[s] = Polled(row[s].conn, "on")
      BY DEF LocalIsPolled
    <2>1. entry[s].kind = "polled" /\ entry[s].conn = row[s].conn
      BY DEF IInv, Agrees, Agreed, Current, Holding, Free, Settled
    <2>2. entry[s].pollers = "on" BY <2>1 DEF IInv, Agrees, Agreed, Ready
    <2>3. entry[s] \in EntryType BY DEF IInv, TypeOK
    <2>. QED BY <2>1, <2>2, <2>3 DEF EntryType, Polled
  <1>. QED BY <1>1, Invariant, PTL

\* Without faults the runtime follows the rows, however removals, attaches, edits, reloads and changes
\* of leadership interleave.
THEOREM RowsAreFollowed == Spec => []RuntimeFollowsRows
  BY RemovedLeavesNone, StoredIsPolled, PTL DEF RuntimeFollowsRows
=============================================================================
