------------------------------ MODULE LatestStore ------------------------------
(***************************************************************************)
(* What an agent last said of its game server, as a value                  *)
(* (agentSnapshotStore.ts): how a snapshot is recorded over it, and how a  *)
(* row of the database is restored under it.  The history of a reading is  *)
(* in its fields: "at" is the time the backend settled on, "taken" the     *)
(* time at which the agent really read it.                                 *)
(***************************************************************************)
EXTENDS Integers, FiniteSets

CONSTANT Part \* what a snapshot may carry: status, power, factory (and generators on power)

Never == -1
NoReading == [at |-> Never, taken |-> Never]
Later(a, b) == IF a >= b THEN a ELSE b

\* A store before the first snapshot; "unknown" stands for undefined.
EmptyStore ==
    [reachable |-> "unknown", stateAt |-> Never, since |-> Never, received |-> Never,
     part |-> [p \in Part |-> NoReading], restored |-> {},
     generators |-> NoReading, floor |-> Never]

Touched(s) == s.reachable # "unknown" \* persistedState() is not undefined

-----------------------------------------------------------------------------
(* record: "snap" has reachable, at, taken, received, parts, and generators *)
(* if the power part carried a list.                                        *)

\* Mutant: a late snapshot flips the state.
ReachabilityOfLast(s, snap) ==
    [s EXCEPT !.since = IF snap.reachable = "yes" THEN Never
                        ELSE IF s.reachable = "no" THEN @ ELSE snap.at,
              !.reachable = snap.reachable,
              !.stateAt = snap.at]
\* The outage starts at the first unreachable snapshot of a run; a late one does not flip the state.
ReachabilityOf(s, snap) ==
    IF snap.at < s.stateAt THEN s
    ELSE [s EXCEPT !.since = IF snap.reachable = "yes" THEN Never
                             ELSE IF s.reachable = "no" THEN @ ELSE snap.at,
                   !.reachable = snap.reachable,
                   !.stateAt = snap.at]

\* Mutant: what came last is served.
TakenPartsAll(s, snap) == snap.parts
\* The parts an arriving snapshot replaces: never an older reading over a newer one.
TakenParts(s, snap) == {p \in snap.parts : snap.at >= s.part[p].at}

\* A kept list of generators is replaced by a newer one; with none kept, by one of this session.
KeepsGenerators(s, snap) ==
    /\ snap.generators
    /\ IF s.generators # NoReading THEN snap.at > s.generators.at ELSE snap.at >= s.floor

Record(s, snap) ==
    LET state == [ReachabilityOf(s, snap) EXCEPT !.received = snap.received]
        reading == [at |-> snap.at, taken |-> snap.taken]
    IN IF snap.reachable = "no" THEN state
       ELSE [state EXCEPT
                !.part = [p \in Part |-> IF p \in TakenParts(s, snap) THEN reading ELSE @[p]],
                !.restored = @ \ TakenParts(s, snap),
                !.generators = IF KeepsGenerators(s, snap) THEN reading ELSE @]

\* A new session: the list goes, and one read before it is not taken any more.
DropGenerators(s, at) == [s EXCEPT !.generators = NoReading, !.floor = Later(@, at)]

-----------------------------------------------------------------------------
(* The persisted slice, and restoring it.                                   *)

Row(s) == [reachable |-> s.reachable, since |-> s.since, received |-> s.received, part |-> s.part]

RestoredParts(s, row) == {p \in Part : row.part[p].at > s.part[p].at}

\* A loaded row goes under whatever has arrived since.
Restore(s, row) ==
    LET back == RestoredParts(s, row)
        times == {row.part[p].at : p \in Part} \cup {row.since}
    IN [s EXCEPT
          !.part = [p \in Part |-> IF p \in back THEN row.part[p] ELSE @[p]],
          !.restored = @ \cup back,
          !.reachable = IF Touched(s) THEN @ ELSE row.reachable,
          !.since = IF Touched(s) THEN @ ELSE IF row.reachable = "yes" THEN Never ELSE row.since,
          !.stateAt = IF Touched(s) THEN @ ELSE CHOOSE t \in times : \A u \in times : t >= u,
          !.received = Later(@, row.received)]

StoreType ==
    LET Reading == [at : Int, taken : Int] IN
    [reachable : {"unknown", "yes", "no"}, stateAt : Int, since : Int, received : Int,
     part : [Part -> Reading], restored : SUBSET Part, generators : Reading, floor : Int]
=============================================================================
