------------------------------ MODULE AgentIngest ------------------------------
(***************************************************************************)
(* What the backend does with the snapshots of one agent (agentIngest.ts): *)
(* it settles on a time for each, records it in the store the live reads   *)
(* use, and adds to the power chart and the history.  Snapshots may arrive *)
(* late, twice and out of order: the agent retries what it has no answer   *)
(* to, and its clock may be wrong.  A save is loaded now and then.         *)
(***************************************************************************)
EXTENDS LatestStore, Sequences

CONSTANTS
    Save,       \* what can be loaded: a session's name and the time played
    Kind,       \* what a pass of the sampler may find: see KindType
    Skew,       \* how far the agent's clock may be off, either way
    Tolerance,  \* AGENT_CLOCK_TOLERANCE_MS
    Interval,   \* the cadence of power and factory
    Capacity,   \* points in the power chart
    Start,      \* when it begins: both clocks are past the beginning of time by then
    MaxTime, MaxArrivals, MaxLoads \* bounds

\* No session: undefined in the code, so it is no save.
NoSave == [name |-> "", played |-> 0]
ASSUME SaveAssumption ==
    Save \subseteq [name : STRING, played : Nat] /\ Save # {} /\ NoSave \notin Save
\* A game it cannot reach gives a snapshot without parts; one that answers gives its status at least.
ASSUME KindAssumption ==
    /\ Kind \subseteq [up : BOOLEAN, paused : BOOLEAN, parts : SUBSET Part, generators : BOOLEAN]
    /\ \A k \in Kind : IF k.up THEN "status" \in k.parts /\ (k.generators => "power" \in k.parts)
                       ELSE k.parts = {} /\ ~k.paused /\ ~k.generators
ASSUME TimeAssumption ==
    /\ Skew \subseteq Int /\ Start \in Nat /\ \A d \in Skew : Start + d >= 0
    /\ Tolerance \in Nat /\ Interval \in Nat \ {0} /\ Capacity \in Nat \ {0}
    /\ MaxTime \in Nat /\ MaxArrivals \in Nat /\ MaxLoads \in Nat

VARIABLES
    now, skew,
    save, loads,                           \* the game: the loaded save, loads so far
    taken,                                 \* the snapshots the agent took
    arrived,                               \* history: those that came, in the order they came
    redated,                               \* history: one was dated with its arrival
    store,
    lastSave, lastStatusAt,                \* lastSession and lastGameDuration; NoSave is undefined
    lastPowerRecordedAt, lastFactoryRecordedAt, wasPaused,
    chart,                                 \* the power chart: times and, as history, the load
    rows                                   \* the history's power rows
gameVars == <<now, skew, save, loads, taken>>
arrivalVars == <<arrived, redated>>
sessionVars == <<lastSave, lastStatusAt>>
factoryVars == <<lastFactoryRecordedAt, wasPaused>>
powerVars == <<lastPowerRecordedAt, chart, rows>>
vars == <<gameVars, arrivalVars, store, sessionVars, factoryVars, powerVars>>

Half == (Interval + 1) \div 2

Init ==
    /\ now = Start /\ skew \in Skew /\ save \in Save /\ loads = 0 /\ taken = {}
    /\ arrived = <<>> /\ redated = FALSE
    /\ store = EmptyStore
    /\ lastSave = NoSave /\ lastStatusAt = Never
    /\ lastPowerRecordedAt = Never - Interval /\ lastFactoryRecordedAt = Never - Interval
    /\ wasPaused = FALSE
    /\ chart = <<>> /\ rows = <<>>

-----------------------------------------------------------------------------
(* The game and the agent.                                                 *)

Tick ==
    /\ now < MaxTime
    /\ now' = now + 1
    /\ UNCHANGED <<skew, save, loads, taken, arrivalVars, store, sessionVars, factoryVars, powerVars>>

\* Another session, or an earlier save of this one.
Load(s) ==
    /\ loads < MaxLoads
    /\ s # save /\ (s.name = save.name => s.played < save.played)
    /\ save' = s /\ loads' = loads + 1
    /\ UNCHANGED <<now, skew, taken, arrivalVars, store, sessionVars, factoryVars, powerVars>>

\* A pass of the sampler.
Sample(k) ==
    /\ \A s \in taken : s.at # now
    /\ taken' = taken \cup
         {[at |-> now, load |-> loads, save |-> save, up |-> k.up, paused |-> k.paused,
           parts |-> k.parts, generators |-> k.generators]}
    /\ UNCHANGED <<now, skew, save, loads, arrivalVars, store, sessionVars, factoryVars, powerVars>>

-----------------------------------------------------------------------------
(* ingest.                                                                 *)

Abs(n) == IF n < 0 THEN -n ELSE n
\* The agent's time if that is near enough, never later than the arrival.
Near(s) == Abs(s.at + skew - now) <= Tolerance
ObservedAt(s) == IF Near(s) /\ s.at + skew < now THEN s.at + skew ELSE now

SessionChanged(s) ==
    /\ lastSave # NoSave
    /\ ObservedAt(s) >= lastStatusAt \* a late snapshot of the old session is not a change back
    /\ s.save.name # lastSave.name \/ s.save.played < lastSave.played

Snap(s) ==
    [reachable |-> IF s.up THEN "yes" ELSE "no", at |-> ObservedAt(s), taken |-> s.at,
     received |-> now, parts |-> s.parts, generators |-> s.generators]

Arrives(s) ==
    /\ Len(arrived) < MaxArrivals
    /\ arrived' = Append(arrived, s) /\ redated' = (redated \/ ~Near(s))

\* An unreachable game is recorded as such, and nothing else.
IngestUnreachable(s) ==
    /\ Arrives(s) /\ ~s.up
    /\ store' = Record(store, Snap(s))
    /\ UNCHANGED <<gameVars, sessionVars, factoryVars, powerVars>>

Newer(points, slot) == points = <<>> \/ points[Len(points)].slot < slot
\* Mutant: the time alone is appended, not the reading.
AppendPointBare(points, slot, load) == IF Newer(points, slot) THEN Append(points, [slot |-> slot]) ELSE points
\* One slot per interval; the oldest point is overwritten when the chart is full.
AppendPoint(points, slot, load) ==
    LET more == Append(points, [slot |-> slot, load |-> load]) IN
    IF ~Newer(points, slot) THEN points
    ELSE IF Len(points) < Capacity THEN more ELSE Tail(more)

\* Mutant: every reading is recorded.
PowerIsDueAlways(s) == "power" \in s.parts /\ ~s.paused
\* A reading is recorded once per cadence.
PowerIsDue(s) ==
    "power" \in s.parts /\ ~s.paused /\ ObservedAt(s) - lastPowerRecordedAt >= Half

ChartBefore(s) == IF SessionChanged(s) THEN <<>> ELSE chart

\* Mutant: the session before this snapshot's status.
FiledUnderBefore(s) == lastSave.name
FiledUnder(s) == lastSave'.name

IngestPower(s) ==
    /\ chart' = IF "power" \in s.parts
                THEN AppendPoint(ChartBefore(s), (ObservedAt(s) \div Interval) * Interval, s.load)
                ELSE ChartBefore(s)
    /\ IF PowerIsDue(s)
       THEN /\ lastPowerRecordedAt' = ObservedAt(s)
            /\ rows' = Append(rows, [session |-> FiledUnder(s), load |-> s.load,
                                     at |-> ObservedAt(s), taken |-> s.at])
       ELSE UNCHANGED <<lastPowerRecordedAt, rows>>

FactoryIsDue(s) ==
    "factory" \in s.parts /\ ~s.paused /\ ObservedAt(s) - lastFactoryRecordedAt >= Half

\* What a running factory says first after a pause is published as such.
IngestFactory(s) ==
    IF FactoryIsDue(s)
    THEN lastFactoryRecordedAt' = ObservedAt(s) /\ wasPaused' = FALSE
    ELSE wasPaused' = (wasPaused \/ s.paused) /\ UNCHANGED lastFactoryRecordedAt

StoreBefore(s) == IF SessionChanged(s) THEN DropGenerators(store, ObservedAt(s)) ELSE store

Ingest(s) ==
    /\ Arrives(s) /\ s.up
    /\ store' = Record(StoreBefore(s), Snap(s))
    /\ IF ObservedAt(s) >= lastStatusAt
       THEN lastSave' = s.save /\ lastStatusAt' = ObservedAt(s)
       ELSE UNCHANGED sessionVars
    /\ IngestPower(s)
    /\ IngestFactory(s)
    /\ UNCHANGED gameVars

Next ==
    \/ Tick
    \/ \E s \in Save : Load(s)
    \/ \E k \in Kind : Sample(k)
    \/ \E s \in taken : Ingest(s) \/ IngestUnreachable(s)

Spec == Init /\ [][Next]_vars

-----------------------------------------------------------------------------
Snapshot ==
    [at : Nat, load : Nat, save : Save, up : BOOLEAN, paused : BOOLEAN,
     parts : SUBSET Part, generators : BOOLEAN]

TypeOK ==
    /\ now \in Nat /\ skew \in Int /\ save \in Save /\ loads \in Nat
    /\ taken \subseteq Snapshot /\ arrived \in Seq(Snapshot)
    /\ store \in StoreType
    /\ lastSave \in Save \cup {NoSave} /\ lastStatusAt \in Int
    /\ lastPowerRecordedAt \in Int /\ lastFactoryRecordedAt \in Int /\ wasPaused \in BOOLEAN
    /\ chart \in Seq([slot : Int, load : Nat]) /\ Len(chart) <= Capacity
    /\ rows \in Seq([session : {s.name : s \in Save \cup {NoSave}}, load : Nat, at : Int, taken : Nat])

\* A late or retried snapshot does not put an older reading over a newer one, in any part, unless
\* the agent's clock is ahead or the snapshot was so late that it got the time of its arrival.
NewerStays ==
    [][skew <= 0 /\ ~redated' => \A p \in Part : store'.part[p].taken >= store.part[p].taken]_vars

Came == {arrived[i] : i \in DOMAIN arrived}
\* Nothing was overtaken so far, by an agent whose clock is not ahead; a retry of the newest is in
\* order.
InOrder == skew <= 0 /\ ~redated /\ \A i, j \in DOMAIN arrived : i < j => arrived[i].at <= arrived[j].at

\* No two loads fell between two snapshots that came from a game that answered.
NoLoadMissed ==
    \A i, j \in DOMAIN arrived :
        i < j /\ arrived[i].up /\ arrived[j].up
        => arrived[j].load <= arrived[i].load + 1 \/ \E k \in (i + 1)..(j - 1) : arrived[k].up

\* With such a clock and no snapshot redated, the game is shown reachable or not as in the newest
\* snapshot that came, whatever the order, and no outage is left once that one has the game answer;
\* with snapshots in order an outage is dated from the first snapshot of its run.
OutageIsTold ==
    LET run == {s \in Came : \A t \in Came : t.at >= s.at => ~t.up}
    IN /\ skew <= 0 /\ ~redated =>
            /\ \A s \in Came : (\A t \in Came : s.at >= t.at)
                                => store.reachable = IF s.up THEN "yes" ELSE "no"
            /\ run = {} => store.since = Never
       /\ InOrder => \A s \in run : (\A t \in run : s.at <= t.at) => store.since = s.at + skew

\* The history has one row per cadence, in order: what is late, repeated or too fast adds none.
RowsKeepCadence ==
    \A i, j \in DOMAIN rows :
        i < j => /\ rows[j].at - rows[i].at >= Half
                 /\ skew <= 0 /\ ~redated => rows[j].taken > rows[i].taken

\* Two loads of the game never mix. The power chart is in order; with snapshots in order a row is
\* filed under the session it was read in; and if no load was missed, the chart never spans two
\* loads, and the generators that are served were read in the load the status is of.
LoadsStayApart ==
    /\ \A i, j \in DOMAIN chart : i < j => chart[i].slot < chart[j].slot
    /\ InOrder =>
          \A i \in DOMAIN rows :
             \E s \in taken : s.at = rows[i].taken /\ s.save.name = rows[i].session
    /\ InOrder /\ NoLoadMissed =>
          /\ \A i, j \in DOMAIN chart : chart[i].load = chart[j].load
          /\ store.generators # NoReading =>
                \E g, s \in taken : /\ g.at = store.generators.taken
                                    /\ s.at = store.part["status"].taken
                                    /\ g.load = s.load
=============================================================================
