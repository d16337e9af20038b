---------------------------- MODULE SnapshotProofs ----------------------------
(***************************************************************************)
(* Theorems about what becomes of the snapshots of an agent: of the row    *)
(* that carries the last one over a restart (SnapshotRow), for any number  *)
(* of starts, failures and snapshots, and of what the backend serves and   *)
(* records of them (AgentIngest), for any game, clocks, loads and order of *)
(* arrival.  Both stand on the same store (LatestStore).                   *)
(***************************************************************************)
EXTENDS AgentIngest, SnapshotRow, WellFoundedInduction, SequenceTheorems, TLAPS
-----------------------------------------------------------------------------
(* The store (LatestStore).                                                 *)

StoredRow ==
    [reachable : {"unknown", "yes", "no"}, since : Int, received : Int,
     part : [Part -> [at : Int, taken : Int]]]
Snapshots ==
    [reachable : {"yes", "no"}, at : Int, taken : Int, received : Int, parts : SUBSET Part, generators : BOOLEAN]

\* What a snapshot leaves in the store, field by field.
LEMMA RecordFields ==
    ASSUME NEW s \in StoreType, NEW snap \in Snapshots
    PROVE  /\ Record(s, snap) \in StoreType
           /\ Record(s, snap).received = snap.received
           /\ IF snap.at < s.stateAt
              THEN /\ Record(s, snap).reachable = s.reachable
                   /\ Record(s, snap).stateAt = s.stateAt
                   /\ Record(s, snap).since = s.since
              ELSE /\ Record(s, snap).reachable = snap.reachable
                   /\ Record(s, snap).stateAt = snap.at
                   /\ Record(s, snap).since = IF snap.reachable = "yes" THEN Never
                                              ELSE IF s.reachable = "no" THEN s.since ELSE snap.at
           /\ \A p \in Part :
                 Record(s, snap).part[p] =
                    IF snap.reachable = "yes" /\ p \in TakenParts(s, snap)
                    THEN [at |-> snap.at, taken |-> snap.taken] ELSE s.part[p]
  <1>. DEFINE state == [ReachabilityOf(s, snap) EXCEPT !.received = snap.received]
              reading == [at |-> snap.at, taken |-> snap.taken]
              full == [state EXCEPT
                !.part = [p \in Part |-> IF p \in TakenParts(s, snap) THEN reading ELSE @[p]],
                !.restored = @ \ TakenParts(s, snap),
                !.generators = IF KeepsGenerators(s, snap) THEN reading ELSE @]
  <1>1. reading \in [at : Int, taken : Int] /\ Never \in Int
    BY DEF Snapshots, Never
  <1>2. /\ state \in StoreType /\ state.received = snap.received /\ state.part = s.part
        /\ IF snap.at < s.stateAt
           THEN state.reachable = s.reachable /\ state.stateAt = s.stateAt /\ state.since = s.since
           ELSE /\ state.reachable = snap.reachable /\ state.stateAt = snap.at
                /\ state.since = IF snap.reachable = "yes" THEN Never
                                 ELSE IF s.reachable = "no" THEN s.since ELSE snap.at
    <2>1. CASE snap.at < s.stateAt
      BY <2>1, <1>1 DEF StoreType, Snapshots, ReachabilityOf
    <2>2. CASE ~(snap.at < s.stateAt)
      BY <2>2, <1>1 DEF StoreType, Snapshots, ReachabilityOf
    <2>. QED BY <2>1, <2>2
  <1>. HIDE DEF state, reading
  <1>. DEFINE parts == [p \in Part |-> IF p \in TakenParts(s, snap) THEN reading ELSE s.part[p]]
              restored == state.restored \ TakenParts(s, snap)
              list == IF KeepsGenerators(s, snap) THEN reading ELSE state.generators
  <1>6. /\ parts \in [Part -> [at : Int, taken : Int]]
        /\ \A p \in Part : parts[p] = IF p \in TakenParts(s, snap) THEN reading ELSE s.part[p]
    BY <1>1 DEF StoreType
  <1>7. restored \in SUBSET Part /\ list \in [at : Int, taken : Int] BY <1>1, <1>2 DEF StoreType
  <1>8. full = [state EXCEPT !.part = parts, !.restored = restored, !.generators = list]
    BY <1>2 DEF StoreType
  <1>. HIDE DEF parts, restored, list
  <1>3. /\ full \in StoreType /\ full.received = state.received /\ full.reachable = state.reachable
        /\ full.stateAt = state.stateAt /\ full.since = state.since
        /\ \A p \in Part : full.part[p] = IF p \in TakenParts(s, snap) THEN reading ELSE s.part[p]
    <2>. HIDE DEF full
    <2>. QED BY <1>2, <1>6, <1>7, <1>8 DEF StoreType
  <1>. HIDE DEF full
  <1>4. Record(s, snap) = IF snap.reachable = "no" THEN state ELSE full
    BY DEF Record, state, reading, full
  <1>5. snap.reachable = "yes" <=> ~(snap.reachable = "no") BY DEF Snapshots
  <1>. QED BY <1>2, <1>3, <1>4, <1>5 DEF reading

\* A set of times that are not in the future has a latest one.
LEMMA LatestExists ==
    ASSUME NEW T \in SUBSET Int, T # {}, NEW top \in Int, \A t \in T : t <= top
    PROVE  (CHOOSE t \in T : \A u \in T : t >= u) \in T
  <1>. DEFINE D == {top - t : t \in T}
              less == OpToRel(<, Nat)
  <1>1. D \subseteq Nat /\ D # {}
    <2>1. \A t \in T : top - t \in Nat OBVIOUS
    <2>2. PICK t \in T : TRUE OBVIOUS
    <2>3. top - t \in D BY <2>2
    <2>. QED BY <2>1, <2>3
  <1>2. IsWellFoundedOn(less, Nat) BY NatLessThanWellFounded, Zenon
  <1>3. \A m, n \in Nat : m < n => <<m, n>> \in less BY DEF OpToRel
  <1>. HIDE DEF D, less
  <1>4. PICK d \in D : \A e \in D : ~(<<e, d>> \in less) BY <1>1, <1>2, WFMin
  <1>5. \A e \in D : e >= d
    <2>. TAKE e \in D
    <2>1. d \in Nat /\ e \in Nat /\ ~(e < d) BY <1>1, <1>3, <1>4
    <2>. QED BY <2>1
  <1>6. PICK t \in T : d = top - t BY <1>4 DEF D
  <1>7. \A u \in T : t >= u
    <2>. TAKE u \in T
    <2>1. top - u \in D BY DEF D
    <2>2. top - u >= top - t BY <1>5, <1>6, <2>1
    <2>. QED BY <2>2
  <1>. QED BY <1>7

\* What restoring a row leaves in the store.
LEMMA RestoreFields ==
    ASSUME NEW s \in StoreType, NEW r \in StoredRow, NEW top \in Int,
           r.since <= top, \A p \in Part : r.part[p].at <= top
    PROVE  /\ Restore(s, r) \in StoreType
           /\ Restore(s, r).received = Later(s.received, r.received)
           /\ Restore(s, r).reachable = IF Touched(s) THEN s.reachable ELSE r.reachable
           /\ Restore(s, r).since = IF Touched(s) THEN s.since ELSE IF r.reachable = "yes" THEN Never ELSE r.since
           /\ Touched(s) => Restore(s, r).stateAt = s.stateAt
           /\ \A p \in Part : Restore(s, r).part[p] = IF r.part[p].at > s.part[p].at THEN r.part[p] ELSE s.part[p]
  <1>. DEFINE back == RestoredParts(s, r)
              times == {r.part[p].at : p \in Part} \cup {r.since}
              latest == CHOOSE t \in times : \A u \in times : t >= u
              new == [s EXCEPT
                        !.part = [p \in Part |-> IF p \in back THEN r.part[p] ELSE @[p]],
                        !.restored = @ \cup back,
                        !.reachable = IF Touched(s) THEN @ ELSE r.reachable,
                        !.since = IF Touched(s) THEN @ ELSE IF r.reachable = "yes" THEN Never ELSE r.since,
                        !.stateAt = IF Touched(s) THEN @ ELSE latest,
                        !.received = Later(@, r.received)]
  <1>1. latest \in Int
    <2>1. times \in SUBSET Int /\ times # {} /\ \A t \in times : t <= top BY DEF StoredRow
    <2>. HIDE DEF times
    <2>2. latest \in times BY <2>1, LatestExists
    <2>. QED BY <2>1, <2>2
  <1>2. /\ back \subseteq Part /\ (\A p \in Part : p \in back <=> r.part[p].at > s.part[p].at)
        /\ Later(s.received, r.received) \in Int
        /\ \A p \in Part : r.part[p] \in [at : Int, taken : Int]
    BY DEF RestoredParts, Later, StoredRow, StoreType
  <1>. HIDE DEF latest, back
  <1>. DEFINE parts == [p \in Part |-> IF p \in back THEN r.part[p] ELSE s.part[p]]
  <1>3. /\ parts \in [Part -> [at : Int, taken : Int]] /\ Never \in Int
        /\ \A p \in Part : parts[p] = IF p \in back THEN r.part[p] ELSE s.part[p]
        /\ [p \in Part |-> IF p \in back THEN r.part[p] ELSE s.part[p]] = parts
    BY <1>2 DEF StoreType, Never
  <1>. HIDE DEF parts
  <1>. DEFINE reachable == IF Touched(s) THEN s.reachable ELSE r.reachable
              since == IF Touched(s) THEN s.since ELSE IF r.reachable = "yes" THEN Never ELSE r.since
              at == IF Touched(s) THEN s.stateAt ELSE latest
              restored == s.restored \cup back
              received == Later(s.received, r.received)
  <1>7. /\ reachable \in {"unknown", "yes", "no"} /\ since \in Int /\ at \in Int
        /\ restored \in SUBSET Part /\ received \in Int
    BY <1>1, <1>2, <1>3 DEF StoreType, StoredRow
  <1>4. new = [s EXCEPT !.part = parts, !.restored = restored, !.reachable = reachable, !.since = since,
                        !.stateAt = at, !.received = received]
    BY <1>3 DEF StoreType
  <1>5. /\ new \in StoreType /\ new.received = Later(s.received, r.received)
        /\ new.reachable = IF Touched(s) THEN s.reachable ELSE r.reachable
        /\ new.since = IF Touched(s) THEN s.since ELSE IF r.reachable = "yes" THEN Never ELSE r.since
        /\ new.stateAt = IF Touched(s) THEN s.stateAt ELSE latest
        /\ new.part = parts
    <2>. HIDE DEF new, reachable, since, at, restored, received
    <2>1. /\ new \in StoreType /\ new.received = received /\ new.reachable = reachable /\ new.since = since
          /\ new.stateAt = at /\ new.part = parts
      BY <1>3, <1>4, <1>7 DEF StoreType
    <2>. QED BY <2>1 DEF reachable, since, at, received
  <1>. HIDE DEF new
  <1>6. Restore(s, r) = new BY DEF Restore, new, latest, back, times
  <1>. QED BY <1>2, <1>3, <1>5, <1>6

-----------------------------------------------------------------------------
(* The row (SnapshotRow).                                                   *)

KeyType == [reachable : {"unknown", "yes", "no"}, since : Int, part : [Part -> Int]]

\* What a key may become as snapshots arrive in order: parts only get newer, and while they do not, the
\* game may only turn unreachable.
Before(a, b) ==
    /\ \A p \in Part : a.part[p] <= b.part[p]
    /\ (\A p \in Part : a.part[p] = b.part[p]) =>
          \/ a.reachable = b.reachable /\ a.since = b.since
          \/ a.reachable = "yes" /\ b.reachable = "no"

\* A row with something in it, that nothing in it is later than.
Filled(r) ==
    /\ r.reachable # "unknown" /\ (r.reachable = "yes" => r.since = Never)
    /\ r.since <= r.received /\ Never <= r.received /\ r.received <= clock
    /\ \A p \in Part : Never <= r.part[p].at /\ r.part[p].at <= r.received

\* The same of a store; until the first snapshot or row there is nothing in it.
Tidy(s) ==
    /\ IF Touched(s) THEN Filled(s) ELSE Row(s) = NoRow /\ s.stateAt = Never

\* A key field by field.
LEMMA KeyFields ==
    ASSUME NEW r \in StoredRow
    PROVE  /\ Key(r) \in KeyType /\ Key(r).reachable = r.reachable /\ Key(r).since = r.since
           /\ \A p \in Part : Key(r).part[p] = r.part[p].at
  BY DEF StoredRow, KeyType, Key

\* The persisted slice of a store field by field; its key is that of the store.
LEMMA RowFields ==
    ASSUME NEW s \in StoreType
    PROVE  /\ Row(s) \in StoredRow /\ Row(s).reachable = s.reachable /\ Row(s).since = s.since
           /\ Row(s).received = s.received /\ Row(s).part = s.part
           /\ Key(Row(s)) = Key(s) /\ Key(s) \in KeyType
           /\ Key(s).reachable = s.reachable /\ Key(s).since = s.since
           /\ \A p \in Part : Key(s).part[p] = s.part[p].at
  BY DEF StoreType, StoredRow, Row, Key, KeyType

\* A slice without some parts.
LEMMA WithoutFields ==
    ASSUME NEW r \in StoredRow, NEW parts \in SUBSET Part
    PROVE  /\ Without(r, parts) \in StoredRow /\ Without(r, parts).received = r.received
           /\ Without(r, parts).reachable = r.reachable /\ Without(r, parts).since = r.since
           /\ \A p \in Part : Without(r, parts).part[p].at = IF p \in parts THEN Never ELSE r.part[p].at
  <1>. DEFINE left == [p \in Part |-> IF p \in parts THEN NoReading ELSE r.part[p]]
  <1>1. /\ left \in [Part -> [at : Int, taken : Int]]
        /\ \A p \in Part : left[p].at = IF p \in parts THEN Never ELSE r.part[p].at
    BY DEF StoredRow, NoReading, Never
  <1>2. Without(r, parts) = [r EXCEPT !.part = left] BY DEF Without, StoredRow
  <1>. HIDE DEF left
  <1>. QED BY <1>1, <1>2 DEF StoredRow

\* What is written of a state: nothing that is over the cap, and all that is not.
LEMMA ToWriteFields ==
    ASSUME NEW s \in StoredRow
    PROVE  /\ ToWrite(s) \in StoredRow /\ ToWrite(s).received = s.received
           /\ ToWrite(s).reachable = s.reachable /\ ToWrite(s).since = s.since
           /\ \A p \in Part : /\ ToWrite(s).part[p].at = IF <<p, s.part[p].at>> \in Oversized THEN Never
                                                        ELSE s.part[p].at
                              /\ <<p, ToWrite(s).part[p].at>> \notin Oversized
  <1>. DEFINE over == {p \in Part : <<p, s.part[p].at>> \in Oversized}
  <1>1. ToWrite(s) = Without(s, over) /\ over \in SUBSET Part BY DEF ToWrite
  <1>2. \A p \in Part : p \in over <=> <<p, s.part[p].at>> \in Oversized OBVIOUS
  <1>. HIDE DEF over
  <1>3. \A p \in Part : <<p, Never>> \notin Oversized BY OversizedAssumption DEF Never
  <1>. QED BY <1>1, <1>2, <1>3, WithoutFields

\* The order of keys.
LEMMA BeforeReflexive == \A a \in KeyType : Before(a, a)
  BY DEF Before, KeyType

LEMMA BeforeTransitive ==
    ASSUME NEW a \in KeyType, NEW b \in KeyType, NEW c \in KeyType, Before(a, b), Before(b, c)
    PROVE  Before(a, c)
  <1>1. \A p \in Part : /\ a.part[p] \in Int /\ b.part[p] \in Int /\ c.part[p] \in Int
                        /\ a.part[p] <= b.part[p] /\ b.part[p] <= c.part[p]
    BY DEF Before, KeyType
  <1>2. ASSUME \A p \in Part : a.part[p] = c.part[p]
        PROVE  (\A p \in Part : a.part[p] = b.part[p]) /\ (\A p \in Part : b.part[p] = c.part[p])
    BY <1>1, <1>2
  <1>. QED BY <1>1, <1>2 DEF Before

\* Two keys of which each may become the other are the same.
LEMMA BeforeAntisymmetric ==
    ASSUME NEW a \in KeyType, NEW b \in KeyType, Before(a, b), Before(b, a)
    PROVE  a = b
  <1>1. \A p \in Part : a.part[p] = b.part[p] BY DEF Before, KeyType
  <1>2. a.part = b.part BY <1>1 DEF KeyType
  <1>3. a.reachable = b.reachable /\ a.since = b.since BY <1>1 DEF Before
  <1>. QED BY <1>2, <1>3 DEF KeyType

\* The row and the key before anything was written.
LEMMA NothingIsFirst ==
    /\ NoRow \in StoredRow /\ NoRow.reachable = "unknown" /\ NoRow.received = Never /\ NoRow.since = Never
    /\ \A p \in Part : NoRow.part[p].at = Never
    /\ NoKey \in KeyType /\ NoKey.reachable = "unknown"
  BY DEF NoRow, Row, EmptyStore, NoReading, Never, StoredRow, NoKey, KeyType

\* A snapshot that is newer than all that came.
LEMMA RecordTidy ==
    ASSUME NEW s \in StoreType, Tidy(s), clock \in Nat, s.received < clock, NEW snap \in Snapshots,
           snap.at = clock, snap.received = clock, snap.reachable = "yes" <=> snap.parts # {}
    PROVE  /\ Tidy(Record(s, snap)) /\ Touched(Record(s, snap)) /\ Record(s, snap).received = clock
           /\ Touched(s) => Before(Key(s), Key(Record(s, snap)))
           /\ \A p \in Part : /\ s.part[p].at <= Record(s, snap).part[p].at
                              /\ Record(s, snap).part[p].at \in {s.part[p].at, clock}
           /\ Record(s, snap) \in StoreType
  <1>. DEFINE n == Record(s, snap)
  <1>1. /\ n \in StoreType /\ n.received = snap.received
        /\ IF snap.at < s.stateAt
           THEN n.reachable = s.reachable /\ n.stateAt = s.stateAt /\ n.since = s.since
           ELSE /\ n.reachable = snap.reachable /\ n.stateAt = snap.at
                /\ n.since = IF snap.reachable = "yes" THEN Never
                             ELSE IF s.reachable = "no" THEN s.since ELSE snap.at
        /\ \A p \in Part : n.part[p] = IF snap.reachable = "yes" /\ p \in TakenParts(s, snap)
                                       THEN [at |-> snap.at, taken |-> snap.taken] ELSE s.part[p]
    BY RecordFields
  <1>. HIDE DEF n
  <1>2. /\ s.received \in Int /\ s.since \in Int /\ s.stateAt \in Int
        /\ snap.reachable \in {"yes", "no"} /\ Never = -1 /\ snap.parts \subseteq Part
        /\ s.reachable \in {"unknown", "yes", "no"}
        /\ \A p \in Part : s.part[p].at \in Int /\ n.part[p].at \in Int
    BY <1>1 DEF StoreType, Snapshots, Never
  <1>3. /\ Never <= s.received /\ \A p \in Part : Never <= s.part[p].at /\ s.part[p].at <= s.received
        /\ s.since <= s.received
    <2>1. CASE Touched(s)
      <3>1. Filled(s) BY <2>1 DEF Tidy
      <3>. QED BY <1>2, <3>1 DEF Filled
    <2>2. CASE ~Touched(s)
      <3>1. Row(s) = NoRow BY <2>2 DEF Tidy
      <3>2. s.received = NoRow.received /\ s.part = NoRow.part /\ s.since = NoRow.since
        BY <3>1, RowFields
      <3>3. NoRow.received = Never /\ NoRow.since = Never /\ \A p \in Part : NoRow.part[p].at = Never
        BY NothingIsFirst
      <3>4. s.received = Never /\ s.since = Never /\ \A p \in Part : s.part[p].at = Never BY <3>2, <3>3
      <3>. QED BY <1>2, <3>4
    <2>. QED BY <2>1, <2>2
  <1>4. Touched(n)
    <2>1. CASE snap.at < s.stateAt
      <3>1. Touched(s) BY <1>2, <2>1 DEF Tidy
      <3>. QED BY <1>1, <2>1, <3>1 DEF Touched
    <2>2. CASE ~(snap.at < s.stateAt) BY <1>1, <1>2, <2>2 DEF Touched
    <2>. QED BY <2>1, <2>2
  <1>5. \A p \in Part : /\ s.part[p].at <= n.part[p].at /\ n.part[p].at <= clock
                        /\ n.part[p].at \in {s.part[p].at, clock}
    BY <1>1, <1>2, <1>3
  <1>6. Filled(n)
    <2>1. (n.reachable = "yes" => n.since = Never) /\ n.since <= clock
      <3>1. CASE snap.at < s.stateAt
        <4>1. Filled(s) BY <1>2, <3>1 DEF Tidy
        <4>. QED BY <1>1, <1>2, <1>3, <3>1, <4>1 DEF Filled
      <3>2. CASE ~(snap.at < s.stateAt) BY <1>1, <1>2, <1>3, <3>2
      <3>. QED BY <3>1, <3>2
    <2>2. \A p \in Part : Never <= n.part[p].at BY <1>2, <1>3, <1>5
    <2>. QED BY <1>1, <1>2, <1>4, <1>5, <2>1, <2>2 DEF Filled, Touched
  <1>7. ASSUME Touched(s) PROVE Before(Key(s), Key(n))
    <2>1. /\ Key(s).reachable = s.reachable /\ Key(s).since = s.since
          /\ Key(n).reachable = n.reachable /\ Key(n).since = n.since
          /\ \A p \in Part : Key(s).part[p] = s.part[p].at /\ Key(n).part[p] = n.part[p].at
      BY <1>1, RowFields
    <2>2. ASSUME snap.reachable = "yes" PROVE \E p \in Part : s.part[p].at # n.part[p].at
      <3>1. PICK p \in Part : p \in snap.parts BY <1>2, <2>2
      <3>2. s.part[p].at < clock BY <1>2, <1>3
      <3>3. p \in TakenParts(s, snap) BY <1>2, <3>1, <3>2 DEF TakenParts
      <3>. QED BY <1>1, <1>2, <2>2, <3>2, <3>3
    <2>3. ASSUME snap.reachable = "no"
          PROVE  \/ n.reachable = s.reachable /\ n.since = s.since
                 \/ s.reachable = "yes" /\ n.reachable = "no"
      BY <1>1, <1>2, <1>7, <2>3 DEF Touched
    <2>. QED BY <1>2, <1>5, <2>1, <2>2, <2>3 DEF Before
  <1>. QED BY <1>1, <1>4, <1>5, <1>6, <1>7 DEF n, Tidy

\* A row that is read back.
LEMMA RestoreTidy ==
    ASSUME NEW s \in StoreType, Tidy(s), clock \in Nat, NEW r \in StoredRow, Filled(r)
    PROVE  /\ Restore(s, r) \in StoreType
           /\ Tidy(Restore(s, r)) /\ Touched(Restore(s, r))
           /\ s.received <= Restore(s, r).received /\ r.received <= Restore(s, r).received
           /\ IF Touched(s) THEN Before(Key(s), Key(Restore(s, r))) ELSE Key(Restore(s, r)) = Key(r)
           /\ \A p \in Part : /\ s.part[p].at <= Restore(s, r).part[p].at
                              /\ r.part[p].at <= Restore(s, r).part[p].at
                              /\ Restore(s, r).part[p].at \in {s.part[p].at, r.part[p].at}
  <1>. DEFINE n == Restore(s, r)
  <1>1. /\ r.reachable \in {"yes", "no"} /\ r.since \in Int /\ r.received \in Int /\ Never = -1
        /\ r.since <= r.received /\ r.received <= clock /\ Never <= r.received
        /\ r.reachable = "yes" => r.since = Never
        /\ \A p \in Part : r.part[p].at \in Int /\ Never <= r.part[p].at /\ r.part[p].at <= r.received
        /\ s.received \in Int /\ s.reachable \in {"unknown", "yes", "no"} /\ s.since \in Int
        /\ \A p \in Part : s.part[p].at \in Int
    BY DEF Filled, StoredRow, StoreType, Never
  <1>2. /\ n \in StoreType /\ n.received = Later(s.received, r.received)
        /\ n.reachable = IF Touched(s) THEN s.reachable ELSE r.reachable
        /\ n.since = IF Touched(s) THEN s.since ELSE IF r.reachable = "yes" THEN Never ELSE r.since
        /\ \A p \in Part : n.part[p] = IF r.part[p].at > s.part[p].at THEN r.part[p] ELSE s.part[p]
    <2>1. clock \in Int /\ r.since <= clock /\ \A p \in Part : r.part[p].at <= clock BY <1>1
    <2>. QED BY <2>1, RestoreFields
  <1>. HIDE DEF n
  <1>3. /\ n.received \in Int /\ s.received <= n.received /\ r.received <= n.received
        /\ n.received \in {s.received, r.received}
    BY <1>1, <1>2 DEF Later
  <1>4. \A p \in Part : /\ n.part[p].at \in Int /\ s.part[p].at <= n.part[p].at /\ r.part[p].at <= n.part[p].at
                        /\ n.part[p].at \in {s.part[p].at, r.part[p].at}
    BY <1>1, <1>2
  <1>5. /\ Key(s).reachable = s.reachable /\ Key(s).since = s.since /\ Key(n) \in KeyType /\ Key(r) \in KeyType
        /\ Key(n).reachable = n.reachable /\ Key(n).since = n.since
        /\ Key(r).reachable = r.reachable /\ Key(r).since = r.since
        /\ \A p \in Part : /\ Key(s).part[p] = s.part[p].at /\ Key(n).part[p] = n.part[p].at
                           /\ Key(r).part[p] = r.part[p].at
    BY <1>2, RowFields, KeyFields
  <1>6. CASE Touched(s)
    <2>1. Filled(s) BY <1>6 DEF Tidy
    <2>2. /\ s.reachable # "unknown" /\ (s.reachable = "yes" => s.since = Never)
          /\ s.since <= s.received /\ Never <= s.received /\ s.received <= clock
          /\ \A p \in Part : Never <= s.part[p].at /\ s.part[p].at <= s.received
      BY <2>1 DEF Filled
    <2>3. n.reachable = s.reachable /\ n.since = s.since BY <1>2, <1>6
    <2>4. Filled(n)
      <3>1. n.since <= n.received /\ Never <= n.received /\ n.received <= clock BY <1>1, <1>3, <2>2, <2>3
      <3>2. \A p \in Part : Never <= n.part[p].at /\ n.part[p].at <= n.received BY <1>1, <1>3, <1>4, <2>2
      <3>. QED BY <2>2, <2>3, <3>1, <3>2 DEF Filled
    <2>5. Touched(n) BY <2>2, <2>3 DEF Touched
    <2>6. Before(Key(s), Key(n)) BY <1>4, <1>5, <2>3 DEF Before
    <2>. QED BY <1>2, <1>3, <1>4, <1>6, <2>4, <2>5, <2>6 DEF n, Tidy
  <1>7. CASE ~Touched(s)
    <2>1. s.received = Never /\ \A p \in Part : s.part[p].at = Never
      <3>1. s.received = NoRow.received /\ s.part = NoRow.part BY <1>7, RowFields DEF Tidy
      <3>. QED BY <3>1, NothingIsFirst
    <2>2. n.reachable = r.reachable /\ n.since = r.since BY <1>1, <1>2, <1>7
    <2>3. n.received = r.received /\ \A p \in Part : n.part[p].at = r.part[p].at
      BY <1>1, <1>3, <1>4, <2>1
    <2>4. Filled(n) BY <1>1, <2>2, <2>3 DEF Filled
    <2>5. Touched(n) BY <1>1, <2>2 DEF Touched
    <2>6. Key(n) = Key(r) BY <1>5, <2>2, <2>3 DEF KeyType
    <2>. QED BY <1>2, <1>3, <1>4, <1>7, <2>4, <2>5, <2>6 DEF n, Tidy
  <1>. QED BY <1>6, <1>7

-----------------------------------------------------------------------------
\* The write under way: of the store as it was, and the row is not newer than that.
Sending(i) ==
    /\ ready[i] /\ Touched(stores[i]) /\ Filled(saving[i])
    /\ saving[i].received <= stores[i].received
    /\ Before(Key(saving[i]), Key(stores[i]))
    /\ written[i] # NoKey => Before(written[i], Key(saving[i]))
    /\ IF landed[i] THEN row = ToWrite(saving[i]) ELSE row.received <= saving[i].received

\* The row is what is written of a state with this key, or has what the load could not read beside it.
Carries(i, key) ==
    /\ row.reachable = key.reachable /\ row.since = key.since
    /\ \A p \in Part :
          IF <<p, key.part[p]>> \in Oversized THEN row.part[p].at = Never
          ELSE row.part[p].at = key.part[p] \/ (p \in lost[i] /\ key.part[p] = Never)

\* The row is of a state that is not older than what is taken for written, nor newer than the store.
Writing(i) ==
    written[i] # NoKey =>
        /\ Touched(stores[i])
        /\ \E key \in KeyType : Before(written[i], key) /\ Before(key, Key(stores[i])) /\ Carries(i, key)

\* A part of the row is not newer than that of a state, or the state has none as it could not be read.
Covers(i, s) == \A p \in Part : row.part[p].at <= s.part[p].at \/ (p \in lost[i] /\ s.part[p].at = Never)

\* Every load so far was in time: from then on the store has all of the row that could be read.
Loaded(i) ==
    /\ ready[i] => Covers(i, stores[i])
    /\ pc[i] \in {"writing", "last"} => Covers(i, saving[i])

\* Before the load is over the store has only what came since the process started.
Fresh(i) ==
    load[i] # "over" =>
        lost[i] = {} /\ \A p \in Part : stores[i].part[p].at = Never \/ row.part[p].at <= stores[i].part[p].at

Sound(i) ==
    /\ Tidy(stores[i]) /\ (got[i] = NoRow \/ Filled(got[i]))
    /\ load[i] = "fetched" /\ (~ready[i] \/ ~Touched(stores[i])) => got[i] = row
    /\ Touched(stores[i]) => row.received <= stores[i].received
    /\ pc[i] = "idle" => ~stopped[i] /\ (Touched(stores[i]) => ready[i])
    /\ pc[i] \in {"writing", "last"} => Sending(i)
    /\ Writing(i)
    /\ lateLoads = 0 => Loaded(i)
    /\ Fresh(i)

\* Nothing in the row is over the cap.
Fits == \A p \in Part : <<p, row.part[p].at>> \notin Oversized

\* The inductive invariant: one process at most, and what it holds fits the row.
RowInv ==
    /\ RowTypeOK
    /\ (row = NoRow \/ Filled(row)) /\ Fits
    /\ \A i, j \in Instance : pc[i] # "off" /\ pc[j] # "off" => i = j
    /\ \A i \in Instance : pc[i] # "off" => Sound(i)

\* RowTypeOK with its types named.
RowTypes ==
    /\ clock \in Nat /\ boots \in Nat /\ fails \in Nat /\ lateLoads \in Nat
    /\ row \in StoredRow /\ stores \in [Instance -> StoreType]
    /\ load \in [Instance -> {"asked", "fetched", "over"}] /\ got \in [Instance -> StoredRow]
    /\ ready \in [Instance -> BOOLEAN] /\ rerun \in [Instance -> BOOLEAN]
    /\ stopped \in [Instance -> BOOLEAN] /\ landed \in [Instance -> BOOLEAN]
    /\ written \in [Instance -> KeyType]
    /\ pc \in [Instance -> {"off", "idle", "begun", "writing", "last", "ended"}]
    /\ saving \in [Instance -> StoredRow] /\ lost \in [Instance -> SUBSET Part] /\ misfits \in Nat

\* The type invariant, with its types named.
LEMMA TypesAgain == RowTypeOK <=> RowTypes
  BY DEF RowTypeOK, RowTypes, StoredRow, KeyType

\* The invariant holds before the first start.
LEMMA RowInitially == RowInit => RowInv
  <1>. SUFFICES ASSUME RowInit PROVE RowInv OBVIOUS
  <1>1. EmptyStore \in StoreType BY DEF EmptyStore, StoreType, NoReading, Never
  <1>2. RowTypes BY <1>1, NothingIsFirst DEF RowInit, RowTypes
  <1>3. Fits BY NothingIsFirst, OversizedAssumption DEF RowInit, Fits, Never
  <1>. QED BY <1>2, <1>3, TypesAgain DEF RowInit, RowInv

-----------------------------------------------------------------------------
(* One process at a time: a step of one is all that happens.                 *)

\* A step of a process keeps the invariant if what it leaves is sound for that process.
LEMMA OnlyThis ==
    ASSUME RowInv, NEW i \in Instance, pc[i] # "off", RowTypes', Sound(i)',
           ((row = NoRow \/ Filled(row)) /\ Fits)', \A j \in Instance \ {i} : pc'[j] = pc[j]
    PROVE  RowInv'
  <1>1. \A j \in Instance \ {i} : pc[j] = "off" BY DEF RowInv
  <1>2. \A j \in Instance : pc'[j] # "off" => j = i BY <1>1
  <1>3. (\A j, k \in Instance : pc[j] # "off" /\ pc[k] # "off" => j = k)' BY <1>2
  <1>4. (\A j \in Instance : pc[j] # "off" => Sound(j))' BY <1>2
  <1>5. RowTypeOK' BY TypesAgain, PTL
  <1>. QED BY <1>3, <1>4, <1>5 DEF RowInv

\* The clock goes on: nothing gets later than it.
LEMMA ClockKeeps == ASSUME RowInv, ClockTicks PROVE RowInv'
  <1>1. /\ clock' = clock + 1 /\ clock \in Nat
        /\ UNCHANGED <<row, loadVars, written, flushVars, lost, boundVars>>
    BY TypesAgain DEF ClockTicks, RowInv, RowTypes
  <1>. USE DEF loadVars, flushVars, boundVars
  <1>2. RowTypes BY TypesAgain DEF RowInv
  <1>3. RowTypes' BY <1>1, <1>2 DEF RowTypes
  <1>4. ((row = NoRow \/ Filled(row)) /\ Fits)' BY <1>1, <1>2 DEF RowInv, Filled, Fits, RowTypes, StoredRow
  <1>5. ASSUME NEW i \in Instance, Sound(i) PROVE Sound(i)'
    <2>1. /\ stores[i].received \in Int /\ got[i].received \in Int /\ saving[i].received \in Int
          /\ UNCHANGED <<stores[i], got[i], saving[i], load[i], ready[i], pc[i], stopped[i], written[i], landed[i],
                         lost[i]>>
      BY <1>1, <1>2 DEF RowTypes, StoredRow, StoreType
    <2>2. Tidy(stores[i])' /\ (got[i] = NoRow \/ Filled(got[i]))'
      BY <1>1, <1>5, <2>1 DEF Sound, Tidy, Filled
    <2>3. (pc[i] \in {"writing", "last"} => Sending(i))'
      BY <1>1, <1>5, <2>1 DEF Sound, Sending, Filled
    <2>. QED BY <1>1, <1>5, <2>1, <2>2, <2>3 DEF Sound, Writing, Carries, Loaded, Covers, Fresh
  <1>6. RowTypeOK' BY <1>3, TypesAgain, PTL
  <1>. QED BY <1>1, <1>4, <1>5, <1>6 DEF RowInv

\* A start: everything in memory is as it was at first.
LEMMA BootKeeps == ASSUME RowInv, NEW i \in Instance, Boot(i) PROVE RowInv'
  <1>. USE DEF loadVars, flushVars, boundVars
  <1>1. RowTypes BY TypesAgain DEF RowInv
  <1>2. EmptyStore \in StoreType /\ ~Touched(EmptyStore) /\ EmptyStore.stateAt = Never
    BY DEF EmptyStore, StoreType, NoReading, Never, Touched
  <1>3. RowTypes' BY <1>1, <1>2, NothingIsFirst DEF Boot, RowTypes
  <1>4. \A j \in Instance : pc'[j] # "off" => j = i BY <1>1 DEF Boot, RowTypes
  <1>5. Sound(i)'
    <2>1. /\ stores'[i] = EmptyStore /\ load'[i] = "asked" /\ got'[i] = NoRow /\ ~ready'[i]
          /\ written'[i] = NoKey /\ pc'[i] = "idle" /\ ~stopped'[i]
      BY <1>1 DEF Boot, RowTypes
    <2>2. Fresh(i)'
      <3>1. lost'[i] = {} BY <1>1 DEF Boot, RowTypes
      <3>2. \A p \in Part : EmptyStore.part[p].at = Never BY DEF EmptyStore, NoReading
      <3>. QED BY <2>1, <3>1, <3>2 DEF Fresh
    <2>. QED BY <1>2, <2>1, <2>2 DEF Sound, Tidy, Touched, Writing, Loaded, NoRow
  <1>6. ((row = NoRow \/ Filled(row)) /\ Fits)' BY DEF Boot, RowInv, Filled, Fits
  <1>7. RowTypeOK' BY <1>3, TypesAgain, PTL
  <1>. QED BY <1>4, <1>5, <1>6, <1>7 DEF RowInv

\* The end of a process: there is none.
LEMMA ExitKeeps == ASSUME RowInv, NEW i \in Instance, Exit(i) PROVE RowInv'
  <1>. USE DEF loadVars, flushVars, boundVars
  <1>1. RowTypes BY TypesAgain DEF RowInv
  <1>2. RowTypes' BY <1>1 DEF Exit, RowTypes
  <1>3. \A j \in Instance : pc'[j] = "off" BY <1>1 DEF Exit, RowTypes, RowInv
  <1>4. ((row = NoRow \/ Filled(row)) /\ Fits)' BY DEF Exit, RowInv, Filled, Fits
  <1>5. RowTypeOK' BY <1>2, TypesAgain, PTL
  <1>. QED BY <1>3, <1>4, <1>5 DEF RowInv

\* The load: what is fetched is the row, and stays it while the writer has not begun.
LEMMA FetchKeeps == ASSUME RowInv, NEW i \in Instance, FetchRow(i) PROVE RowInv'
  <1>. USE DEF loadVars, flushVars, boundVars
  <1>1. RowTypes /\ pc[i] # "off" /\ Sound(i) BY TypesAgain DEF RowInv, FetchRow
  <1>2. RowTypes' BY <1>1 DEF FetchRow, RowTypes
  <1>3. /\ load'[i] = "fetched" /\ got'[i] = row
        /\ UNCHANGED <<clock, row, stores, ready, written, flushVars, lost, boundVars>>
    BY <1>1 DEF FetchRow, RowTypes
  <1>4. ((row = NoRow \/ Filled(row)) /\ Fits)' BY <1>3 DEF RowInv, Filled, Fits
  <1>5. load[i] = "asked" BY DEF FetchRow
  <1>6. Fresh(i)' /\ Writing(i)' /\ (lateLoads = 0 => Loaded(i))'
    BY <1>1, <1>3, <1>5 DEF Sound, Writing, Carries, Loaded, Covers, Fresh
  <1>7. (pc[i] \in {"writing", "last"} => Sending(i))' BY <1>1, <1>3 DEF Sound, Sending, Filled
  <1>8. Tidy(stores[i])' /\ (got[i] = NoRow \/ Filled(got[i]))' BY <1>1, <1>3, <1>4 DEF Sound, Tidy, Filled
  <1>9. Sound(i)' BY <1>1, <1>3, <1>6, <1>7, <1>8 DEF Sound
  <1>. QED BY <1>1, <1>2, <1>3, <1>4, <1>9, OnlyThis

\* A load that fails or is late: from then on nothing is said of newer and older.
LEMMA LoadEndsKeeps ==
    ASSUME RowInv, NEW i \in Instance, LoadFails(i) \/ LoadIsLate(i) PROVE RowInv'
  <1>. USE DEF loadVars, flushVars, boundVars
  <1>1. RowTypes /\ pc[i] # "off" /\ Sound(i) BY TypesAgain DEF RowInv, LoadFails, LoadIsLate
  <1>2. RowTypes'
    <2>1. CASE LoadFails(i) BY <1>1, <2>1 DEF LoadFails, RowTypes
    <2>2. CASE LoadIsLate(i) BY <1>1, <2>2 DEF LoadIsLate, RowTypes
    <2>. QED BY <2>1, <2>2
  <1>3. /\ load'[i] \in {"over", load[i]} /\ ready'[i] /\ lateLoads' = lateLoads + 1
        /\ UNCHANGED <<clock, row, stores, got, written, flushVars, lost, misfits>>
    BY <1>1 DEF LoadFails, LoadIsLate, RowTypes
  <1>4. ((row = NoRow \/ Filled(row)) /\ Fits)' BY <1>3 DEF RowInv, Filled, Fits
  <1>5. lateLoads' # 0 BY <1>1, <1>3 DEF RowTypes
  <1>6. Sound(i)' BY <1>1, <1>3, <1>5 DEF Sound, Tidy, Filled, Sending, Writing, Carries, Fresh
  <1>. QED BY <1>1, <1>2, <1>3, <1>4, <1>6, OnlyThis

\* The row is restored: what the writer takes for written is the row itself.
LEMMA ApplyKeeps == ASSUME RowInv, NEW i \in Instance, ApplyRow(i) PROVE RowInv'
  <1>. USE DEF loadVars, flushVars, boundVars
  <1>1. RowTypes /\ pc[i] # "off" /\ Sound(i) BY TypesAgain DEF RowInv, ApplyRow
  <1>2. /\ load[i] = "fetched" /\ load' = [load EXCEPT ![i] = "over"] /\ got' = [got EXCEPT ![i] = NoRow]
        /\ ready' = [ready EXCEPT ![i] = TRUE]
        /\ UNCHANGED <<clock, row, pc, rerun, stopped, saving, landed, boots, fails, lateLoads>>
    BY DEF ApplyRow
  <1>3. ((row = NoRow \/ Filled(row)) /\ Fits)' BY <1>2 DEF RowInv, Filled, Fits
  <1>4. /\ clock \in Nat /\ stores[i] \in StoreType /\ got[i] \in StoredRow /\ row \in StoredRow
        /\ written[i] \in KeyType /\ saving[i] \in StoredRow
    BY <1>1 DEF RowTypes
  <1>5. CASE got[i] = NoRow
    <2>1. UNCHANGED <<stores, written, misfits>> /\ lost' = [lost EXCEPT ![i] = {}] /\ lost[i] = {}
      <3>1. \A p \in Part : NoRow.part[p] = NoReading BY DEF NoRow, Row, EmptyStore
      <3>2. Unreadable(NoRow) \subseteq {{}} BY <3>1 DEF Unreadable
      <3>. QED BY <1>1, <1>2, <1>5, <3>2 DEF ApplyRow, Sound, Fresh
    <2>2. RowTypes' BY <1>1, <1>2, <2>1, NothingIsFirst DEF RowTypes
    <2>3. load'[i] = "over" /\ got'[i] = NoRow /\ ready'[i] /\ lost'[i] = lost[i]
      BY <1>1, <1>2, <2>1 DEF RowTypes
    <2>4. Loaded(i)' \/ lateLoads # 0
      <3>1. CASE ready[i] BY <1>1, <1>2, <2>1, <2>3, <3>1 DEF Sound, Loaded, Covers
      <3>2. CASE ~ready[i]
        <4>1. row = NoRow BY <1>1, <1>2, <1>5, <3>2 DEF Sound
        <4>2. \A p \in Part : row.part[p].at <= stores[i].part[p].at
          <5>1. CASE Touched(stores[i])
            <6>1. \A p \in Part : Never <= stores[i].part[p].at BY <1>1, <5>1 DEF Sound, Tidy, Filled
            <6>. QED BY <4>1, <6>1, NothingIsFirst
          <5>2. CASE ~Touched(stores[i])
            <6>1. stores[i].part = row.part BY <1>1, <1>4, <4>1, <5>2, RowFields DEF Sound, Tidy
            <6>. QED BY <1>4, <6>1 DEF StoreType
          <5>. QED BY <5>1, <5>2
        <4>3. pc[i] \notin {"writing", "last"} BY <1>1, <3>2 DEF Sound, Sending
        <4>. QED BY <1>2, <2>1, <4>2, <4>3 DEF Loaded, Covers
      <3>. QED BY <3>1, <3>2
    <2>5. Sound(i)'
      BY <1>1, <1>2, <2>1, <2>3, <2>4 DEF Sound, Tidy, Filled, Sending, Writing, Carries, Fresh
    <2>. QED BY <1>1, <1>2, <1>3, <2>2, <2>5, OnlyThis
  <1>6. CASE got[i] # NoRow
    <2>. PICK parts \in Unreadable(got[i]) :
                /\ stores' = [stores EXCEPT ![i] = Restore(@, Without(got[i], parts))]
                /\ lost' = [lost EXCEPT ![i] = parts]
                /\ misfits' = IF parts = {} THEN misfits ELSE misfits + 1
      BY <1>6 DEF ApplyRow
    <2>. DEFINE r == Without(got[i], parts)
                n == Restore(stores[i], r)
    <2>0. /\ parts \in SUBSET Part /\ lost[i] = {}
          /\ r \in StoredRow /\ r.received = got[i].received /\ r.reachable = got[i].reachable
          /\ r.since = got[i].since
          /\ \A p \in Part : r.part[p].at = IF p \in parts THEN Never ELSE got[i].part[p].at
      <3>1. parts \in SUBSET Part BY DEF Unreadable
      <3>2. lost[i] = {} BY <1>1, <1>2 DEF Sound, Fresh
      <3>. QED BY <1>4, <3>1, <3>2, WithoutFields
    <2>1. Tidy(stores[i]) /\ Filled(r)
      <3>1. Tidy(stores[i]) /\ Filled(got[i]) BY <1>1, <1>6 DEF Sound
      <3>2. Never <= got[i].received /\ Never <= Never BY <3>1 DEF Filled, Never
      <3>. QED BY <2>0, <3>1, <3>2 DEF Filled
    <2>. HIDE DEF r
    <2>2. /\ n \in StoreType /\ Tidy(n) /\ Touched(n)
          /\ stores[i].received <= n.received /\ r.received <= n.received
          /\ IF Touched(stores[i]) THEN Before(Key(stores[i]), Key(n)) ELSE Key(n) = Key(r)
          /\ \A p \in Part : /\ stores[i].part[p].at <= n.part[p].at
                             /\ r.part[p].at <= n.part[p].at
                             /\ n.part[p].at \in {stores[i].part[p].at, r.part[p].at}
      BY <1>4, <2>0, <2>1, RestoreTidy
    <2>3. stores' = [stores EXCEPT ![i] = n] BY DEF r
    <2>. HIDE DEF n
    <2>4. /\ stores'[i] = n /\ load'[i] = "over" /\ got'[i] = NoRow /\ ready'[i] /\ lost'[i] = parts
      BY <1>1, <1>2, <2>3 DEF RowTypes
    <2>5. /\ written' \in [Instance -> KeyType]
          /\ \/ written'[i] = written[i]
             \/ ~ready[i] /\ ~Touched(stores[i]) /\ written'[i] = Key(n)
             \/ written'[i] = NoKey
      <3>1. Key(n) \in KeyType /\ NoKey \in KeyType BY <2>2, RowFields, NothingIsFirst
      <3>2. KeyOfLoad(i) = IF Touched(stores[i]) THEN NoKey ELSE Key(n) BY <2>4 DEF KeyOfLoad
      <3>3. written' = written \/ (~ready[i] /\ written' = [written EXCEPT ![i] = KeyOfLoad(i)])
        BY DEF ApplyRow
      <3>. QED BY <1>1, <3>1, <3>2, <3>3 DEF RowTypes
    <2>6. RowTypes'
      <3>1. misfits' \in Nat
        <4>1. misfits \in Nat BY <1>1 DEF RowTypes
        <4>. QED BY <4>1
      <3>2. lost' \in [Instance -> SUBSET Part] BY <1>1, <2>0 DEF RowTypes
      <3>3. stores' \in [Instance -> StoreType] /\ got' \in [Instance -> StoredRow]
        BY <1>1, <1>2, <2>2, <2>3, NothingIsFirst DEF RowTypes
      <3>4. load' \in [Instance -> {"asked", "fetched", "over"}] /\ ready' \in [Instance -> BOOLEAN]
        BY <1>1, <1>2 DEF RowTypes
      <3>. QED BY <1>1, <1>2, <2>5, <3>1, <3>2, <3>3, <3>4 DEF RowTypes
    <2>7. Tidy(stores[i])' BY <1>2, <2>2, <2>4 DEF Tidy, Filled
    <2>8. row.received <= n.received
      <3>1. CASE Touched(stores[i])
        <4>1. row.received <= stores[i].received BY <1>1, <3>1 DEF Sound
        <4>. QED BY <1>4, <2>2, <4>1 DEF StoreType, StoredRow
      <3>2. CASE ~Touched(stores[i]) BY <1>1, <1>2, <2>0, <2>2, <3>2 DEF Sound
      <3>. QED BY <3>1, <3>2
    <2>9. ASSUME pc[i] \in {"writing", "last"} PROVE Sending(i)'
      <3>1. Sending(i) BY <1>1, <2>9 DEF Sound
      <3>2. Touched(stores[i]) /\ Before(Key(saving[i]), Key(stores[i])) /\ Before(Key(stores[i]), Key(n))
        BY <2>2, <3>1 DEF Sending
      <3>3. Before(Key(saving[i]), Key(n))
        BY <1>4, <2>2, <3>2, BeforeTransitive, KeyFields, RowFields
      <3>4. saving[i].received <= n.received
        BY <1>4, <2>2, <3>1 DEF Sending, StoreType, StoredRow
      <3>5. written'[i] # NoKey => Before(written'[i], Key(saving[i])) BY <2>5, <3>1, <3>2 DEF Sending
      <3>6. Filled(saving[i])' BY <1>2, <3>1 DEF Sending, Filled
      <3>. QED BY <1>2, <2>2, <2>4, <3>1, <3>3, <3>4, <3>5, <3>6 DEF Sending
    <2>10. Writing(i)'
      <3>1. ASSUME written'[i] # NoKey, written'[i] = written[i]
            PROVE  \E key \in KeyType : Before(written'[i], key) /\ Before(key, Key(n)) /\ Carries(i, key)'
        <4>1. PICK key \in KeyType : /\ Touched(stores[i]) /\ Before(written[i], key)
                                     /\ Before(key, Key(stores[i])) /\ Carries(i, key)
          BY <1>1, <3>1 DEF Sound, Writing
        <4>2. Before(key, Key(n)) BY <1>4, <2>2, <4>1, BeforeTransitive, RowFields
        <4>3. Carries(i, key)' BY <1>2, <2>0, <4>1 DEF Carries
        <4>. QED BY <3>1, <4>1, <4>2, <4>3
      <3>2. ASSUME ~ready[i], ~Touched(stores[i]), written'[i] = Key(n)
            PROVE  \E key \in KeyType : Before(written'[i], key) /\ Before(key, Key(n)) /\ Carries(i, key)'
        <4>1. Key(n) = Key(r) /\ got[i] = row BY <1>1, <1>2, <2>2, <3>2 DEF Sound
        <4>2. PICK key \in KeyType : /\ key = Key(r) /\ key.reachable = r.reachable /\ key.since = r.since
                                     /\ \A p \in Part : key.part[p] = r.part[p].at
          BY <2>0, KeyFields
        <4>3. \A p \in Part : <<p, Never>> \notin Oversized /\ <<p, row.part[p].at>> \notin Oversized
          BY OversizedAssumption DEF Never, RowInv, Fits
        <4>4. Carries(i, key)'
          BY <1>2, <2>0, <2>4, <4>1, <4>2, <4>3 DEF Carries
        <4>. QED BY <3>2, <4>1, <4>2, <4>4, BeforeReflexive
      <3>. QED BY <1>2, <2>2, <2>4, <2>5, <3>1, <3>2 DEF Writing
    <2>11. ASSUME lateLoads = 0 PROVE Loaded(i)'
      <3>1. ASSUME NEW p \in Part PROVE row.part[p].at <= n.part[p].at \/ (p \in parts /\ n.part[p].at = Never)
        <4>0. row.part[p].at \in Int /\ n.part[p].at \in Int /\ stores[i].part[p].at \in Int
          BY <1>4, <2>2 DEF StoreType, StoredRow
        <4>1. CASE ready[i]
          <5>1. row.part[p].at <= stores[i].part[p].at
            BY <1>1, <2>0, <2>11, <4>1 DEF Sound, Loaded, Covers
          <5>. QED BY <4>0, <2>2, <5>1
        <4>2. CASE ~ready[i] /\ p \notin parts BY <1>1, <1>2, <2>0, <2>2, <4>2 DEF Sound
        <4>3. CASE p \in parts /\ n.part[p].at # Never
          <5>1. n.part[p].at = stores[i].part[p].at BY <2>0, <2>2, <4>3
          <5>2. row.part[p].at <= stores[i].part[p].at BY <1>1, <1>2, <4>3, <5>1 DEF Sound, Fresh
          <5>. QED BY <5>1, <5>2
        <4>. QED BY <4>1, <4>2, <4>3
      <3>2. ASSUME pc[i] \in {"writing", "last"} PROVE Covers(i, saving[i])'
        <4>1. Covers(i, saving[i]) BY <1>1, <2>11, <3>2 DEF Sound, Loaded
        <4>. QED BY <1>2, <2>0, <2>4, <4>1 DEF Covers
      <3>. QED BY <1>2, <2>4, <3>1, <3>2 DEF Loaded, Covers
    <2>12. (pc[i] = "idle" => ~stopped[i] /\ (Touched(stores[i]) => ready[i]))'
      BY <1>1, <1>2, <2>4 DEF Sound
    <2>13. Sound(i)'
      BY <1>2, <2>2, <2>4, <2>7, <2>8, <2>9, <2>10, <2>11, <2>12 DEF Sound, Fresh
    <2>. QED BY <1>1, <1>2, <1>3, <2>6, <2>13, OnlyThis
  <1>. QED BY <1>5, <1>6

-----------------------------------------------------------------------------
(* Snapshots and writes.                                                     *)

\* What a flush changes.
LEMMA FlushDoes ==
    ASSUME RowTypes, NEW i \in Instance, Flush(i)
    PROVE  /\ pc' \in [Instance -> {"off", "idle", "begun", "writing", "last", "ended"}]
           /\ rerun' \in [Instance -> BOOLEAN]
           /\ pc'[i] = IF pc[i] = "idle" THEN "begun" ELSE pc[i]
           /\ \A j \in Instance \ {i} : pc'[j] = pc[j]
  BY DEF Flush, RowTypes

\* The timer.
LEMMA TimerKeeps == ASSUME RowInv, NEW i \in Instance, TimerFires(i) PROVE RowInv'
  <1>. USE DEF loadVars, boundVars
  <1>1. RowTypes /\ pc[i] # "off" /\ Sound(i) BY TypesAgain DEF RowInv, TimerFires
  <1>2. UNCHANGED <<clock, row, stores, load, got, ready, written, stopped, saving, landed, lost, boots, fails, lateLoads, misfits>>
    BY DEF TimerFires
  <1>3. /\ pc' \in [Instance -> {"off", "idle", "begun", "writing", "last", "ended"}]
        /\ rerun' \in [Instance -> BOOLEAN]
        /\ pc'[i] = IF pc[i] = "idle" THEN "begun" ELSE pc[i]
        /\ \A j \in Instance \ {i} : pc'[j] = pc[j]
    BY <1>1, FlushDoes DEF TimerFires
  <1>4. RowTypes' BY <1>1, <1>2, <1>3 DEF RowTypes
  <1>5. ((row = NoRow \/ Filled(row)) /\ Fits)' BY <1>2 DEF RowInv, Filled, Fits
  <1>6. Sound(i)' BY <1>1, <1>2, <1>3 DEF Sound, Tidy, Filled, Sending, Writing, Carries, Loaded, Covers, Fresh
  <1>. QED BY <1>1, <1>3, <1>4, <1>5, <1>6, OnlyThis

\* A snapshot, newer than all before it.
LEMMA ArriveKeeps ==
    ASSUME RowInv, NEW i \in Instance, NEW a \in Arrival, Arrive(i, a) PROVE RowInv'
  <1>. USE DEF loadVars, boundVars
  <1>. DEFINE snap == [reachable |-> IF a.up THEN "yes" ELSE "no", at |-> clock, taken |-> clock,
                       received |-> clock, parts |-> a.parts, generators |-> FALSE]
              n == Record(stores[i], snap)
  <1>1. RowTypes /\ pc[i] # "off" /\ Sound(i) BY TypesAgain DEF RowInv, Arrive
  <1>2. /\ stores[i].received < clock /\ stores' = [stores EXCEPT ![i] = n]
        /\ UNCHANGED <<clock, row, load, got, ready, written, stopped, saving, landed, lost, boots, fails, lateLoads, misfits>>
    BY DEF Arrive
  <1>3. /\ clock \in Nat /\ stores[i] \in StoreType /\ row \in StoredRow
        /\ written[i] \in KeyType /\ saving[i] \in StoredRow
    BY <1>1 DEF RowTypes
  <1>4. /\ Tidy(n) /\ Touched(n) /\ n.received = clock /\ n \in StoreType
        /\ Touched(stores[i]) => Before(Key(stores[i]), Key(n))
        /\ \A p \in Part : /\ stores[i].part[p].at <= n.part[p].at
                           /\ n.part[p].at \in {stores[i].part[p].at, clock}
    <2>1. a \in [up : BOOLEAN, parts : SUBSET Part] /\ (a.up <=> a.parts # {}) BY ArrivalAssumption
    <2>2. /\ snap \in Snapshots /\ snap.at = clock /\ snap.received = clock
          /\ snap.reachable = "yes" <=> snap.parts # {}
      BY <1>3, <2>1 DEF Snapshots
    <2>3. Tidy(stores[i]) BY <1>1 DEF Sound
    <2>. HIDE DEF snap
    <2>. QED BY <1>2, <1>3, <2>2, <2>3, RecordTidy
  <1>. HIDE DEF snap, n
  <1>5. stores'[i] = n /\ stores' \in [Instance -> StoreType] BY <1>1, <1>2, <1>4 DEF RowTypes
  <1>6. /\ pc' \in [Instance -> {"off", "idle", "begun", "writing", "last", "ended"}]
        /\ rerun' \in [Instance -> BOOLEAN]
        /\ pc'[i] \in {pc[i], "begun"} /\ (pc'[i] = "begun" => pc[i] \in {"idle", "begun"})
        /\ pc'[i] = "idle" => n.reachable = stores[i].reachable \/ stopped[i]
        /\ \A j \in Instance \ {i} : pc'[j] = pc[j]
    <2>1. CASE Flush(i) BY <1>1, <2>1, FlushDoes
    <2>2. CASE UNCHANGED <<pc, rerun>> /\ ~(n.reachable # stores[i].reachable /\ ~stopped[i])
      BY <1>1, <2>2 DEF RowTypes
    <2>. QED BY <1>5, <2>1, <2>2 DEF Arrive
  <1>7. RowTypes' BY <1>1, <1>2, <1>5, <1>6 DEF RowTypes
  <1>8. ((row = NoRow \/ Filled(row)) /\ Fits)' BY <1>2 DEF RowInv, Filled, Fits
  <1>9. Tidy(stores[i])' /\ (got[i] = NoRow \/ Filled(got[i]))'
    BY <1>1, <1>2, <1>4, <1>5 DEF Sound, Tidy, Filled
  <1>10. row.received <= n.received
    <2>1. CASE row = NoRow BY <1>3, <1>4, <2>1, NothingIsFirst DEF Never
    <2>2. CASE Filled(row) BY <1>4, <2>2 DEF Filled
    <2>. QED BY <2>1, <2>2 DEF RowInv
  <1>11. (pc[i] = "idle" => ~stopped[i] /\ (Touched(stores[i]) => ready[i]))'
    <2>. SUFFICES ASSUME pc'[i] = "idle" PROVE ~stopped[i] /\ ready[i] BY <1>2
    <2>1. pc[i] = "idle" BY <1>6
    <2>2. ~stopped[i] /\ n.reachable = stores[i].reachable BY <1>1, <1>6, <2>1 DEF Sound
    <2>3. Touched(stores[i]) BY <1>4, <2>2 DEF Touched
    <2>. QED BY <1>1, <2>1, <2>2, <2>3 DEF Sound
  <1>12. ASSUME pc'[i] \in {"writing", "last"} PROVE pc[i] = pc'[i] /\ Sending(i) /\ Sending(i)'
    <2>1. pc[i] = pc'[i] /\ Sending(i) BY <1>1, <1>6, <1>12 DEF Sound
    <2>2. Before(Key(saving[i]), Key(n))
      BY <1>3, <1>4, <2>1, BeforeTransitive, KeyFields, RowFields DEF Sending
    <2>3. saving[i].received <= n.received
      BY <1>2, <1>3, <1>4, <2>1 DEF Sending, StoreType, StoredRow
    <2>4. Filled(saving[i])' BY <1>2, <2>1 DEF Sending, Filled
    <2>. QED BY <1>2, <1>4, <1>5, <2>1, <2>2, <2>3, <2>4 DEF Sending
  <1>13. Writing(i)'
    <2>1. ASSUME written[i] # NoKey
          PROVE  \E key \in KeyType : Before(written[i], key) /\ Before(key, Key(n)) /\ Carries(i, key)'
      <3>1. PICK key \in KeyType : /\ Touched(stores[i]) /\ Before(written[i], key)
                                   /\ Before(key, Key(stores[i])) /\ Carries(i, key)
        BY <1>1, <2>1 DEF Sound, Writing
      <3>2. Before(key, Key(n)) BY <1>3, <1>4, <3>1, BeforeTransitive, RowFields
      <3>3. Carries(i, key)' BY <1>2, <3>1 DEF Carries
      <3>. QED BY <3>1, <3>2, <3>3
    <2>. QED BY <1>2, <1>4, <1>5, <2>1 DEF Writing
  <1>17. \A p \in Part : /\ row.part[p].at <= clock /\ row.part[p].at \in Int
                         /\ stores[i].part[p].at \in Int /\ n.part[p].at \in Int
    <2>1. \A p \in Part : row.part[p].at <= clock
      <3>1. CASE row = NoRow BY <1>3, <3>1, NothingIsFirst DEF Never
      <3>2. CASE Filled(row) BY <1>3, <3>2 DEF Filled, StoredRow
      <3>. QED BY <3>1, <3>2 DEF RowInv
    <2>. QED BY <1>3, <1>4, <2>1 DEF StoreType, StoredRow
  <1>14. ASSUME lateLoads = 0 PROVE Loaded(i)'
    <2>1. Loaded(i) BY <1>1, <1>14 DEF Sound
    <2>2. ready[i] => \A p \in Part : row.part[p].at <= n.part[p].at \/ (p \in lost[i] /\ n.part[p].at = Never)
      BY <1>4, <1>17, <2>1 DEF Loaded, Covers
    <2>. QED BY <1>2, <1>5, <1>12, <2>1, <2>2 DEF Loaded, Covers
  <1>18. Fresh(i)'
    <2>1. Fresh(i) BY <1>1 DEF Sound
    <2>2. load[i] # "over" => \A p \in Part : n.part[p].at = Never \/ row.part[p].at <= n.part[p].at
      BY <1>4, <1>17, <2>1 DEF Fresh
    <2>. QED BY <1>2, <1>5, <2>1, <2>2 DEF Fresh
  <1>15. (load[i] = "fetched" /\ (~ready[i] \/ ~Touched(stores[i])) => got[i] = row)'
    BY <1>1, <1>2, <1>4, <1>5 DEF Sound
  <1>16. Sound(i)'
    BY <1>2, <1>5, <1>9, <1>10, <1>11, <1>12, <1>13, <1>14, <1>15, <1>18 DEF Sound
  <1>. QED BY <1>1, <1>6, <1>7, <1>8, <1>16, OnlyThis

\* A flush goes on to a write of what the store holds, or to none.
WriteOrNot(i) ==
    /\ rerun' \in [Instance -> BOOLEAN]
    /\ \/ /\ ready[i] /\ Touched(stores[i])
          /\ Send(i, "writing") \/ Send(i, "last")
       \/ /\ Unsent
          /\ \/ pc' = [pc EXCEPT ![i] = "ended"]
             \/ pc' = [pc EXCEPT ![i] = "begun"]
             \/ pc' = [pc EXCEPT ![i] = "idle"] /\ ready[i] /\ ~stopped'[i]

\* Both keep the invariant, if what is taken for written is in the row.
LEMMA WriteKeeps ==
    ASSUME RowInv, NEW i \in Instance, pc[i] # "off", WriteOrNot(i), Writing(i)',
           written' \in [Instance -> KeyType], stopped' \in [Instance -> BOOLEAN], fails' \in Nat,
           UNCHANGED <<clock, row, loadVars, lost, boots, lateLoads, misfits>>
    PROVE  RowInv'
  <1>. USE DEF loadVars
  <1>1. RowTypes /\ Sound(i) BY TypesAgain DEF RowInv
  <1>2. ((row = NoRow \/ Filled(row)) /\ Fits)' BY DEF RowInv, Filled, Fits
  <1>3. Tidy(stores[i])' /\ (got[i] = NoRow \/ Filled(got[i]))' BY <1>1 DEF Sound, Tidy, Filled
  <1>4. /\ (load[i] = "fetched" /\ (~ready[i] \/ ~Touched(stores[i])) => got[i] = row)'
        /\ (Touched(stores[i]) => row.received <= stores[i].received)'
    BY <1>1 DEF Sound
  <1>7. Fresh(i)' BY <1>1 DEF Sound, Fresh
  <1>5. ASSUME ready[i], Touched(stores[i]), Send(i, "writing") \/ Send(i, "last") PROVE RowInv'
    <2>1. /\ saving' = [saving EXCEPT ![i] = Row(stores[i])] /\ landed' = [landed EXCEPT ![i] = FALSE]
          /\ pc' = [pc EXCEPT ![i] = "writing"] \/ pc' = [pc EXCEPT ![i] = "last"]
      BY <1>5 DEF Send
    <2>2. /\ stores[i] \in StoreType /\ Row(stores[i]) \in StoredRow /\ row \in StoredRow
          /\ Row(stores[i]).received = stores[i].received /\ Row(stores[i]).part = stores[i].part
          /\ Row(stores[i]).reachable = stores[i].reachable /\ Row(stores[i]).since = stores[i].since
          /\ Key(Row(stores[i])) = Key(stores[i]) /\ Key(stores[i]) \in KeyType /\ Key(row) \in KeyType
          /\ written'[i] \in KeyType
      BY <1>1, RowFields, KeyFields DEF RowTypes
    <2>3. RowTypes' BY <1>1, <2>1, <2>2 DEF RowTypes, WriteOrNot
    <2>4. /\ saving'[i] = Row(stores[i]) /\ ~landed'[i] /\ pc'[i] \in {"writing", "last"}
          /\ \A j \in Instance \ {i} : pc'[j] = pc[j]
      BY <1>1, <2>1 DEF RowTypes
    <2>5. Filled(Row(stores[i]))
      <3>1. Filled(stores[i]) BY <1>1, <1>5 DEF Sound, Tidy
      <3>. QED BY <2>2, <3>1 DEF Filled
    <2>6. Sending(i)'
      <3>1. Filled(saving[i])' BY <2>4, <2>5 DEF Filled
      <3>2. Before(Key(stores[i]), Key(stores[i])) BY <2>2, BeforeReflexive
      <3>3. written'[i] # NoKey => Before(written'[i], Key(stores[i]))
        BY <2>2, BeforeTransitive DEF Writing
      <3>4. row.received <= stores[i].received BY <1>1, <1>5 DEF Sound
      <3>5. stores[i].received <= stores[i].received BY <2>2 DEF StoreType
      <3>. QED BY <1>5, <2>2, <2>4, <3>1, <3>2, <3>3, <3>4, <3>5 DEF Sending
    <2>7. (lateLoads = 0 => Loaded(i))' BY <1>1, <1>5, <2>2, <2>4 DEF Sound, Loaded, Covers
    <2>8. Sound(i)' BY <1>3, <1>4, <1>7, <2>4, <2>6, <2>7 DEF Sound
    <2>. QED BY <1>2, <2>3, <2>4, <2>8, OnlyThis
  <1>6. ASSUME Unsent, \/ pc' = [pc EXCEPT ![i] = "ended"]
                       \/ pc' = [pc EXCEPT ![i] = "begun"]
                       \/ pc' = [pc EXCEPT ![i] = "idle"] /\ ready[i] /\ ~stopped'[i]
        PROVE RowInv'
    <2>1. RowTypes' BY <1>1, <1>6 DEF RowTypes, WriteOrNot, Unsent
    <2>2. /\ pc'[i] \in {"ended", "begun", "idle"} /\ \A j \in Instance \ {i} : pc'[j] = pc[j]
          /\ pc'[i] = "idle" => ready'[i] /\ ~stopped'[i]
      BY <1>1, <1>6 DEF RowTypes
    <2>3. (lateLoads = 0 => Loaded(i))' BY <1>1, <2>2 DEF Sound, Loaded, Covers
    <2>4. Sound(i)' BY <1>3, <1>4, <1>7, <2>2, <2>3 DEF Sound
    <2>. QED BY <1>2, <2>1, <2>2, <2>4, OnlyThis
  <1>. QED BY <1>5, <1>6 DEF WriteOrNot

\* The two ways on from a flush that has nothing to write, or whose write is over.
LEMMA LastWriteDoes ==
    ASSUME NEW i \in Instance, LastWrite(i), Touched(stores[i]) => ready[i],
           rerun' \in [Instance -> BOOLEAN]
    PROVE  WriteOrNot(i)
  BY DEF LastWrite, Unwritten, WriteOrNot

LEMMA AfterWriteDoes ==
    ASSUME RowTypes, NEW i \in Instance, AfterWrite(i), ready[i], stopped' = stopped
    PROVE  WriteOrNot(i)
  <1>1. rerun' \in [Instance -> BOOLEAN] BY DEF AfterWrite, RowTypes
  <1>2. CASE stopped[i]
    <2>1. LastWrite(i) BY <1>2 DEF AfterWrite
    <2>. QED BY <1>1, <2>1, LastWriteDoes
  <1>3. CASE ~stopped[i] BY <1>1, <1>3 DEF AfterWrite, WriteOrNot
  <1>. QED BY <1>2, <1>3

LEMMA GoesDoes ==
    ASSUME RowTypes, NEW i \in Instance, Goes(i), ready[i], stopped' = stopped
    PROVE  WriteOrNot(i)
  <1>1. CASE pc[i] = "last" BY <1>1 DEF Goes, WriteOrNot, RowTypes
  <1>2. CASE pc[i] # "last"
    <2>1. AfterWrite(i) BY <1>2 DEF Goes
    <2>. QED BY <2>1, AfterWriteDoes
  <1>. QED BY <1>1, <1>2

\* The beginning of a write.
LEMMA BeginWriteKeeps == ASSUME RowInv, NEW i \in Instance, BeginWrite(i) PROVE RowInv'
  <1>. USE DEF loadVars, boundVars
  <1>1. RowTypes /\ pc[i] # "off" /\ Sound(i) /\ ready[i] BY TypesAgain DEF RowInv, BeginWrite, MayWrite
  <1>2. UNCHANGED <<clock, row, loadVars, written, stopped, lost, boots, fails, lateLoads, misfits>> BY DEF BeginWrite
  <1>3. WriteOrNot(i)
    <2>1. CASE Unwritten(i)
      <3>1. Send(i, "writing") /\ rerun' = rerun BY <2>1 DEF BeginWrite
      <3>. QED BY <1>1, <2>1, <3>1 DEF WriteOrNot, Unwritten, RowTypes
    <2>2. CASE ~Unwritten(i)
      <3>1. AfterWrite(i) BY <2>2 DEF BeginWrite
      <3>. QED BY <1>1, <1>2, <3>1, AfterWriteDoes
    <2>. QED BY <2>1, <2>2
  <1>4. Writing(i)' BY <1>1, <1>2 DEF Sound, Writing, Carries
  <1>. QED BY <1>1, <1>2, <1>3, <1>4, WriteKeeps DEF RowTypes

\* The guard of the statement never refuses: there is one process, and its store is ahead of the row.
LEMMA UpsertLandsKeeps ==
    ASSUME RowInv, NEW i \in Instance, UpsertLands(i)
    PROVE  RowInv' /\ row' = ToWrite(saving[i]) /\ lost' = [lost EXCEPT ![i] = {}]
  <1>. USE DEF loadVars, boundVars
  <1>1. RowTypes /\ pc[i] # "off" /\ Sound(i) /\ Sending(i)
    BY TypesAgain DEF RowInv, UpsertLands, Sound
  <1>2. /\ pc[i] \in {"writing", "last"} /\ ~landed[i] /\ landed' = [landed EXCEPT ![i] = TRUE]
        /\ UNCHANGED <<clock, loadVars, written, pc, rerun, stopped, saving, boots, fails, lateLoads, misfits>>
    BY DEF UpsertLands
  <1>4. /\ row \in StoredRow /\ saving[i] \in StoredRow /\ stores[i] \in StoreType /\ written[i] \in KeyType
        /\ landed'[i]
    BY <1>1, <1>2 DEF RowTypes
  <1>. DEFINE w == ToWrite(saving[i])
  <1>13. /\ w \in StoredRow /\ w.received = saving[i].received
         /\ w.reachable = saving[i].reachable /\ w.since = saving[i].since
         /\ \A p \in Part : /\ w.part[p].at = IF <<p, saving[i].part[p].at>> \in Oversized THEN Never
                                              ELSE saving[i].part[p].at
                            /\ <<p, w.part[p].at>> \notin Oversized
    BY <1>4, ToWriteFields
  <1>. HIDE DEF w
  <1>3. row' = w /\ lost' = [lost EXCEPT ![i] = {}] /\ lost'[i] = {}
    <2>1. row.received <= w.received BY <1>1, <1>2, <1>13 DEF Sending
    <2>. QED BY <1>1, <2>1 DEF UpsertLands, MayReplace, w, RowTypes
  <1>5. RowTypes' BY <1>1, <1>2, <1>3, <1>4, <1>13 DEF RowTypes
  <1>14. \A p \in Part : /\ w.part[p].at \in Int /\ saving[i].part[p].at \in Int /\ stores[i].part[p].at \in Int
                         /\ Never <= w.part[p].at /\ w.part[p].at <= saving[i].part[p].at
                         /\ saving[i].part[p].at <= stores[i].part[p].at
    <2>1. \A p \in Part : /\ w.part[p].at \in Int /\ saving[i].part[p].at \in Int
                          /\ stores[i].part[p].at \in Int
      BY <1>4, <1>13 DEF StoreType, StoredRow
    <2>2. \A p \in Part : saving[i].part[p].at <= stores[i].part[p].at
      BY <1>1, <1>4, KeyFields, RowFields DEF Sending, Before
    <2>3. \A p \in Part : Never <= saving[i].part[p].at BY <1>1 DEF Sending, Filled
    <2>4. Never \in Int BY DEF Never
    <2>5. \A a, b \in Int : a = b => a <= b OBVIOUS
    <2>6. \A p \in Part : w.part[p].at = Never \/ w.part[p].at = saving[i].part[p].at BY <1>13
    <2>7. \A p \in Part : Never <= w.part[p].at /\ w.part[p].at <= saving[i].part[p].at
      BY <2>1, <2>3, <2>4, <2>5, <2>6
    <2>. QED BY <2>1, <2>2, <2>7
  <1>6. ((row = NoRow \/ Filled(row)) /\ Fits)'
    <2>1. Filled(saving[i]) BY <1>1 DEF Sending
    <2>2. \A p \in Part : w.part[p].at <= w.received
      <3>1. \A p \in Part : saving[i].part[p].at <= w.received BY <1>13, <2>1 DEF Filled
      <3>2. w.received \in Int BY <1>13 DEF StoredRow
      <3>. QED BY <1>14, <3>1, <3>2
    <2>3. Filled(w) BY <1>13, <1>14, <2>1, <2>2 DEF Filled
    <2>. QED BY <1>2, <1>3, <1>13, <2>3 DEF Filled, Fits
  <1>7. Tidy(stores[i])' /\ (got[i] = NoRow \/ Filled(got[i]))' BY <1>1, <1>2 DEF Sound, Tidy, Filled
  <1>8. Sending(i)' BY <1>1, <1>2, <1>3, <1>4 DEF Sending, Filled, w
  <1>9. Writing(i)'
    <2>1. /\ Key(saving[i]) \in KeyType /\ Key(saving[i]).reachable = saving[i].reachable
          /\ Key(saving[i]).since = saving[i].since
          /\ \A p \in Part : Key(saving[i]).part[p] = saving[i].part[p].at
      BY <1>4, KeyFields
    <2>2. Carries(i, Key(saving[i]))' BY <1>2, <1>3, <1>13, <2>1 DEF Carries
    <2>. QED BY <1>1, <1>2, <2>1, <2>2 DEF Sending, Writing
  <1>10. Loaded(i)'
    <2>1. \A p \in Part : w.part[p].at <= stores[i].part[p].at BY <1>14
    <2>. QED BY <1>2, <1>3, <1>14, <2>1 DEF Loaded, Covers
  <1>11. Fresh(i)'
    <2>1. \A p \in Part : w.part[p].at <= stores[i].part[p].at BY <1>14
    <2>. QED BY <1>2, <1>3, <2>1 DEF Fresh
  <1>15. /\ (load[i] = "fetched" /\ (~ready[i] \/ ~Touched(stores[i])) => got[i] = row)'
         /\ (Touched(stores[i]) => row.received <= stores[i].received)'
         /\ (pc[i] = "idle" => ~stopped[i] /\ (Touched(stores[i]) => ready[i]))'
    BY <1>1, <1>2, <1>3, <1>13 DEF Sending
  <1>12. Sound(i)' BY <1>7, <1>8, <1>9, <1>10, <1>11, <1>15 DEF Sound
  <1>. QED BY <1>1, <1>2, <1>3, <1>5, <1>6, <1>12, OnlyThis DEF w

\* The statement has returned: what is taken for written is the row.
LEMMA UpsertReturnsKeeps == ASSUME RowInv, NEW i \in Instance, UpsertReturns(i) PROVE RowInv'
  <1>. USE DEF loadVars, boundVars
  <1>1. RowTypes /\ pc[i] # "off" /\ Sound(i) /\ Sending(i)
    BY TypesAgain DEF RowInv, UpsertReturns, Sound
  <1>2. /\ landed[i] /\ written' = [written EXCEPT ![i] = Key(saving[i])]
        /\ UNCHANGED <<clock, row, loadVars, stopped, lost, boots, fails, lateLoads, misfits>>
    BY DEF UpsertReturns
  <1>3. Key(saving[i]) \in KeyType BY <1>1, KeyFields DEF RowTypes
  <1>4. written' \in [Instance -> KeyType] /\ written'[i] = Key(saving[i]) BY <1>1, <1>2, <1>3 DEF RowTypes
  <1>5. Writing(i)'
    <2>1. Touched(stores[i]) /\ row = ToWrite(saving[i]) /\ Before(Key(saving[i]), Key(stores[i]))
      BY <1>1, <1>2 DEF Sending
    <2>2. Before(Key(saving[i]), Key(saving[i])) BY <1>3, BeforeReflexive
    <2>3. Carries(i, Key(saving[i]))
      <3>1. saving[i] \in StoredRow BY <1>1 DEF RowTypes
      <3>2. /\ row.reachable = saving[i].reachable /\ row.since = saving[i].since
            /\ \A p \in Part : row.part[p].at = IF <<p, saving[i].part[p].at>> \in Oversized THEN Never
                                                ELSE saving[i].part[p].at
        BY <2>1, <3>1, ToWriteFields
      <3>3. /\ Key(saving[i]).reachable = saving[i].reachable /\ Key(saving[i]).since = saving[i].since
            /\ \A p \in Part : Key(saving[i]).part[p] = saving[i].part[p].at
        BY <3>1, KeyFields
      <3>. QED BY <3>2, <3>3 DEF Carries
    <2>4. \E key \in KeyType : Before(written'[i], key) /\ Before(key, Key(stores[i])) /\ Carries(i, key)
      BY <1>3, <1>4, <2>1, <2>2, <2>3
    <2>. QED BY <1>2, <1>4, <2>1, <2>4 DEF Writing, Carries
  <1>6. ready[i] /\ Goes(i) BY <1>1 DEF Sending, UpsertReturns
  <1>7. WriteOrNot(i) BY <1>1, <1>2, <1>6, GoesDoes
  <1>. QED BY <1>1, <1>2, <1>4, <1>5, <1>7, WriteKeeps DEF RowTypes

\* The statement failed: what was taken for written is older than what was to be.
LEMMA UpsertFailsKeeps == ASSUME RowInv, NEW i \in Instance, UpsertFails(i) PROVE RowInv'
  <1>. USE DEF loadVars, boundVars
  <1>1. RowTypes /\ pc[i] # "off" /\ Sound(i) /\ Sending(i)
    BY TypesAgain DEF RowInv, UpsertFails, Sound
  <1>2. /\ fails' = fails + 1 /\ fails \in Nat
        /\ UNCHANGED <<clock, row, loadVars, written, stopped, lost, boots, lateLoads, misfits>>
    BY <1>1 DEF UpsertFails, WrittenAfterFailure, RowTypes
  <1>3. Writing(i)' BY <1>1, <1>2 DEF Sound, Writing, Carries
  <1>4. ready[i] /\ Goes(i) BY <1>1 DEF Sending, UpsertFails
  <1>5. WriteOrNot(i) BY <1>1, <1>2, <1>4, GoesDoes
  <1>. QED BY <1>1, <1>2, <1>3, <1>5, WriteKeeps DEF RowTypes

\* stop().
LEMMA StopKeeps == ASSUME RowInv, NEW i \in Instance, Stop(i) PROVE RowInv'
  <1>. USE DEF loadVars, boundVars
  <1>1. RowTypes /\ pc[i] # "off" /\ Sound(i) BY TypesAgain DEF RowInv, Stop
  <1>2. /\ stopped' = [stopped EXCEPT ![i] = TRUE] /\ stopped' \in [Instance -> BOOLEAN]
        /\ UNCHANGED <<clock, row, loadVars, written, rerun, lost, boots, fails, lateLoads, misfits>>
    BY <1>1 DEF Stop, RowTypes
  <1>3. Writing(i)' BY <1>1, <1>2 DEF Sound, Writing, Carries
  <1>4. CASE pc[i] = "idle"
    <2>1. LastWrite(i) /\ (Touched(stores[i]) => ready[i]) BY <1>1, <1>4 DEF Stop, Sound
    <2>2. WriteOrNot(i) BY <1>1, <1>2, <2>1, LastWriteDoes DEF RowTypes
    <2>. QED BY <1>1, <1>2, <1>3, <2>2, WriteKeeps DEF RowTypes
  <1>5. CASE pc[i] # "idle"
    <2>1. UNCHANGED <<pc, saving, landed>> BY <1>5 DEF Stop, Unsent
    <2>2. RowTypes' BY <1>1, <1>2, <2>1 DEF RowTypes
    <2>3. ((row = NoRow \/ Filled(row)) /\ Fits)' BY <1>2 DEF RowInv, Filled, Fits
    <2>4. Sound(i)' BY <1>1, <1>2, <1>5, <2>1 DEF Sound, Tidy, Filled, Sending, Writing, Carries, Loaded, Covers, Fresh
    <2>. QED BY <1>1, <2>1, <2>2, <2>3, <2>4, OnlyThis
  <1>. QED BY <1>4, <1>5

-----------------------------------------------------------------------------
(* What holds of every run.                                                  *)

\* Every step keeps the invariant.
LEMMA RowStep == ASSUME RowInv, [RowNext]_rowVars PROVE RowInv'
  <1>1. CASE ClockTicks BY <1>1, ClockKeeps
  <1>2. ASSUME NEW i \in Instance, Boot(i) \/ TimerFires(i) \/ Step(i) \/ Fault(i) PROVE RowInv'
    <2>1. CASE Boot(i) BY <2>1, BootKeeps
    <2>2. CASE TimerFires(i) BY <2>2, TimerKeeps
    <2>3. CASE Step(i)
      <3>1. CASE FetchRow(i) BY <3>1, FetchKeeps
      <3>2. CASE ApplyRow(i) BY <3>2, ApplyKeeps
      <3>3. CASE BeginWrite(i) BY <3>3, BeginWriteKeeps
      <3>4. CASE UpsertLands(i) BY <3>4, UpsertLandsKeeps
      <3>5. CASE UpsertReturns(i) BY <3>5, UpsertReturnsKeeps
      <3>. QED BY <2>3, <3>1, <3>2, <3>3, <3>4, <3>5 DEF Step
    <2>4. CASE Fault(i)
      <3>1. CASE LoadFails(i) \/ LoadIsLate(i) BY <3>1, LoadEndsKeeps
      <3>2. CASE UpsertFails(i) BY <3>2, UpsertFailsKeeps
      <3>3. CASE Stop(i) BY <3>3, StopKeeps
      <3>4. CASE Exit(i) BY <3>4, ExitKeeps
      <3>. QED BY <2>4, <3>1, <3>2, <3>3, <3>4 DEF Fault
    <2>. QED BY <1>2, <2>1, <2>2, <2>3, <2>4
  <1>3. ASSUME NEW i \in Instance, NEW a \in Arrival, Arrive(i, a) PROVE RowInv'
    BY <1>3, ArriveKeeps
  <1>4. CASE UNCHANGED rowVars
    <2>. USE <1>4 DEF rowVars, loadVars, flushVars, boundVars
    <2>1. RowTypeOK' BY DEF RowInv, RowTypeOK
    <2>2. ((row = NoRow \/ Filled(row)) /\ Fits)' BY DEF RowInv, Filled, Fits
    <2>3. ASSUME NEW i \in Instance, Sound(i) PROVE Sound(i)'
      <3>1. Fresh(i)' /\ Writing(i)' /\ (lateLoads = 0 => Loaded(i))'
        BY <2>3 DEF Sound, Writing, Carries, Loaded, Covers, Fresh
      <3>2. (pc[i] \in {"writing", "last"} => Sending(i))' BY <2>3 DEF Sound, Sending, Filled
      <3>3. Tidy(stores[i])' /\ (got[i] = NoRow \/ Filled(got[i]))' BY <2>3 DEF Sound, Tidy, Filled
      <3>. QED BY <2>3, <3>1, <3>2, <3>3 DEF Sound
    <2>. QED BY <2>1, <2>2, <2>3 DEF RowInv
  <1>. QED BY <1>1, <1>2, <1>3, <1>4 DEF RowNext

\* It holds in every state.
LEMMA RowInvariant == RowSpec => []RowInv
  <1>1. RowInit => RowInv BY RowInitially
  <1>2. RowInv /\ [RowNext]_rowVars => RowInv' BY RowStep
  <1>. QED BY <1>1, <1>2, PTL DEF RowSpec

\* Every variable of the row and its writers keeps its type, in every run.
THEOREM RowTyped == RowSpec => []RowTypeOK
  <1>1. RowInv => RowTypeOK BY DEF RowInv
  <1>. QED BY <1>1, RowInvariant, PTL

\* RowNeverGoesBack for any number of processes, starts and failures: while every load was in time
\* no write of latestSnapshotWriter.ts replaces a part of the row with an older one, and one is taken
\* out of it only by toWrite's cap or because stateFromRow could not read it.
THEOREM RowGoesOn == RowSpec => RowNeverGoesBack
  <1>1. ASSUME RowInv, [RowNext]_rowVars
        PROVE  [lateLoads = 0 =>
                  \A p \in Part :
                     \/ row'.part[p].at >= row.part[p].at
                     \/ row'.part[p].at = Never /\ (\E i \in Instance : Omits(i, p))]_rowVars
    <2>. SUFFICES ASSUME lateLoads = 0, NEW p \in Part
                  PROVE  \/ row'.part[p].at >= row.part[p].at
                         \/ row'.part[p].at = Never /\ (\E i \in Instance : Omits(i, p))
      OBVIOUS
    <2>0. RowTypes BY <1>1, TypesAgain DEF RowInv
    <2>1. row.part[p].at \in Int BY <2>0 DEF RowTypes, StoredRow
    <2>2. ASSUME NEW i \in Instance, UpsertLands(i)
          PROVE  \/ row'.part[p].at >= row.part[p].at
                 \/ row'.part[p].at = Never /\ Omits(i, p)
      <3>1. row' = ToWrite(saving[i]) /\ saving[i] \in StoredRow
        BY <1>1, <2>0, <2>2, UpsertLandsKeeps DEF RowTypes
      <3>2. /\ row'.part[p].at = IF <<p, saving[i].part[p].at>> \in Oversized THEN Never ELSE saving[i].part[p].at
            /\ saving[i].part[p].at \in Int
        BY <3>1, ToWriteFields DEF StoredRow
      <3>3. pc[i] \in {"writing", "last"} BY <2>2 DEF UpsertLands
      <3>4. Covers(i, saving[i]) BY <1>1, <3>3 DEF RowInv, Sound, Loaded
      <3>5. row.part[p].at <= saving[i].part[p].at \/ (p \in lost[i] /\ saving[i].part[p].at = Never)
        BY <3>4 DEF Covers
      <3>6. <<p, Never>> \notin Oversized BY OversizedAssumption DEF Never
      <3>7. CASE p \in lost[i] /\ saving[i].part[p].at = Never BY <3>2, <3>3, <3>6, <3>7 DEF Omits
      <3>8. CASE row.part[p].at <= saving[i].part[p].at
        <4>1. saving[i].part[p].at >= row.part[p].at BY <2>1, <3>2, <3>8
        <4>2. CASE <<p, saving[i].part[p].at>> \in Oversized BY <3>2, <3>3, <4>1, <4>2 DEF Omits
        <4>3. CASE <<p, saving[i].part[p].at>> \notin Oversized BY <3>2, <4>1, <4>3
        <4>. QED BY <4>2, <4>3
      <3>. QED BY <3>5, <3>7, <3>8
    <2>3. CASE row' = row BY <2>1, <2>3
    <2>4. (\E i \in Instance : UpsertLands(i)) \/ row' = row
      BY <1>1 DEF RowNext, rowVars, ClockTicks, Boot, TimerFires, Step, Fault, Arrive, FetchRow, ApplyRow,
                  BeginWrite, UpsertReturns, LoadFails, LoadIsLate, UpsertFails, Stop, Exit
    <2>. QED BY <2>2, <2>3, <2>4
  <1>. QED BY <1>1, RowInvariant, PTL DEF RowSpec, RowNeverGoesBack

\* Only these steps end the writer, and how.
LEMMA WhoEnds ==
    ASSUME RowInv, RowNext, NEW i \in Instance, pc[i] # "ended", pc'[i] = "ended", fails' = fails
    PROVE  \/ LastWrite(i) /\ (BeginWrite(i) \/ Stop(i) \/ (UpsertReturns(i) /\ pc[i] = "writing"))
           \/ UpsertReturns(i) /\ pc[i] = "last"
  <1>1. RowTypes BY TypesAgain DEF RowInv
  <1>2. ASSUME NEW j \in Instance, Boot(j) \/ TimerFires(j) \/ FetchRow(j) \/ ApplyRow(j) \/ UpsertLands(j)
                                   \/ LoadFails(j) \/ LoadIsLate(j) \/ Exit(j) \/ ClockTicks
        PROVE  FALSE
    BY <1>1, <1>2 DEF Boot, TimerFires, Flush, FetchRow, ApplyRow, UpsertLands, LoadFails, LoadIsLate, Exit,
                      ClockTicks, flushVars, RowTypes
  <1>3. ASSUME NEW j \in Instance, NEW a \in Arrival, Arrive(j, a) PROVE FALSE
    BY <1>1, <1>3 DEF Arrive, Flush, RowTypes
  <1>4. ASSUME NEW j \in Instance, UpsertFails(j) PROVE FALSE
    BY <1>1, <1>4 DEF UpsertFails, RowTypes
  <1>5. ASSUME NEW j \in Instance, BeginWrite(j) \/ Stop(j) \/ UpsertReturns(j) PROVE j = i
    <2>1. \A at \in {"idle", "begun", "writing", "last", "ended"} :
             pc' = [pc EXCEPT ![j] = at] => j = i
      BY <1>1 DEF RowTypes
    <2>2. pc' = pc \/ \E at \in {"idle", "begun", "writing", "last", "ended"} : pc' = [pc EXCEPT ![j] = at]
      BY <1>5 DEF BeginWrite, Stop, UpsertReturns, Goes, AfterWrite, LastWrite, Send
    <2>. QED BY <2>1, <2>2
  <1>6. BeginWrite(i) \/ Stop(i) \/ UpsertReturns(i)
    <2>1. CASE ClockTicks BY <1>2, <2>1
    <2>2. CASE \E j \in Instance : Boot(j) \/ TimerFires(j) \/ Step(j) \/ Fault(j)
      BY <1>2, <1>4, <1>5, <2>2 DEF Step, Fault
    <2>. QED BY <1>3, <2>1, <2>2 DEF RowNext
  <1>7. AfterWrite(i) => LastWrite(i)
    BY <1>1 DEF AfterWrite, RowTypes
  <1>8. ~Send(i, "writing") BY <1>1 DEF Send, RowTypes
  <1>9. CASE BeginWrite(i) BY <1>7, <1>8, <1>9 DEF BeginWrite
  <1>10. CASE Stop(i) BY <1>10 DEF Stop
  <1>11. CASE UpsertReturns(i)
    BY <1>7, <1>11 DEF UpsertReturns, Goes
  <1>. QED BY <1>6, <1>9, <1>10, <1>11

\* StopSaves for any run: a writer that ends without a failed statement (stop() of
\* latestSnapshotWriter.ts) leaves the last snapshot in the row: all of it but a factory over the cap.
THEOREM StoppingSaves == RowSpec => StopSaves
  <1>. DEFINE saved(i) == pc[i] # "ended" /\ pc'[i] = "ended" /\ fails' = fails /\ Touched(stores[i])
                          => Saved(i, IF pc[i] = "last" THEN saving[i] ELSE Row(stores[i]))
  <1>1. ASSUME RowInv, [RowNext]_rowVars PROVE [\A i \in Instance : saved(i)]_rowVars
    <2>. SUFFICES ASSUME RowNext, NEW i \in Instance, pc[i] # "ended", pc'[i] = "ended", fails' = fails,
                         Touched(stores[i])
                  PROVE  Saved(i, IF pc[i] = "last" THEN saving[i] ELSE Row(stores[i]))
      BY <1>1
    <2>1. RowTypes BY <1>1, TypesAgain DEF RowInv
    <2>2. CASE UpsertReturns(i) /\ pc[i] = "last"
      <3>1. Sending(i) BY <1>1, <2>2 DEF RowInv, Sound, UpsertReturns
      <3>2. row = ToWrite(saving[i]) /\ saving[i] \in StoredRow
        BY <2>1, <2>2, <3>1 DEF Sending, UpsertReturns, RowTypes
      <3>3. Saved(i, saving[i]) BY <3>2, ToWriteFields DEF Saved
      <3>. QED BY <2>2, <3>3
    <2>3. CASE LastWrite(i) /\ (BeginWrite(i) \/ Stop(i) \/ (UpsertReturns(i) /\ pc[i] = "writing"))
      <3>1. pc[i] \notin {"last", "off"} /\ stores' = stores /\ row' = row
        BY <2>3 DEF BeginWrite, Stop, UpsertReturns, LastWrite, loadVars
      <3>2. Key(Row(stores[i])) = written'[i]
        BY <2>1, <2>3 DEF LastWrite, Unwritten, Send, RowTypes
      <3>3. Key(Row(stores[i])) = Key(stores[i]) /\ Key(stores[i]) \in KeyType
            /\ Key(stores[i]).reachable = stores[i].reachable
        BY <2>1, RowFields DEF RowTypes
      <3>4. written'[i] # NoKey BY <3>2, <3>3, NothingIsFirst DEF Touched
      <3>5. Writing(i)'
        <4>1. RowInv' BY <1>1, RowStep
        <4>2. pc'[i] # "off" => Sound(i)' BY <4>1 DEF RowInv
        <4>. QED BY <4>2 DEF Sound
      <3>6. PICK key \in KeyType : Before(written'[i], key) /\ Before(key, Key(stores[i])) /\ Carries(i, key)'
        BY <3>1, <3>4, <3>5 DEF Writing
      <3>7. key = Key(Row(stores[i])) BY <3>2, <3>3, <3>6, BeforeAntisymmetric
      <3>8. lost' = lost BY <2>3 DEF BeginWrite, Stop, UpsertReturns
      <3>9. Carries(i, key) BY <3>1, <3>6, <3>8 DEF Carries
      <3>10. Saved(i, Row(stores[i]))
        <4>1. Row(stores[i]) \in StoredRow BY <2>1, RowFields DEF RowTypes
        <4>2. /\ key.reachable = Row(stores[i]).reachable /\ key.since = Row(stores[i]).since
              /\ \A p \in Part : key.part[p] = Row(stores[i]).part[p].at
          BY <3>7, <4>1, KeyFields
        <4>. QED BY <3>9, <4>2 DEF Carries, Saved
      <3>. QED BY <3>1, <3>10
    <2>. QED BY <2>2, <2>3, <1>1, WhoEnds
  <1>. QED BY <1>1, RowInvariant, PTL DEF RowSpec, StopSaves, saved

-----------------------------------------------------------------------------
(* Ingest (AgentIngest).                                                    *)

\* The clock, the game and the agent: snapshots are told apart by their times, and the load each saw is
\* known from its save, or from that of the load after.
Reloaded(a, b) == a # b /\ (b.name = a.name => b.played < a.played)
GameInv ==
    /\ Start <= now /\ 0 <= Start + skew
    /\ \A s \in taken :
          /\ Start <= s.at /\ s.at <= now /\ s.load <= loads
          /\ s.load = loads => s.save = save
          /\ s.load + 1 = loads => Reloaded(s.save, save)
          /\ IF s.up THEN "status" \in s.parts ELSE s.parts = {}
    /\ \A s, t \in taken :
          /\ s.at = t.at => s = t
          /\ s.at <= t.at => s.load <= t.load
          /\ s.load = t.load => s.save = t.save
          /\ s.load + 1 = t.load => Reloaded(s.save, t.save)
    /\ Came \subseteq taken

\* No snapshot was dated with its arrival, and the agent's clock is not ahead.
Trusted == skew <= 0 /\ ~redated
Dated(r, d) == r.at = r.taken + d /\ r.taken >= 0

\* The parts and the history's rows tell when the agent read them.
ReadingInv ==
    /\ Trusted => \A p \in Part : store.part[p] = NoReading \/ Dated(store.part[p], skew)
    /\ \A i \in DOMAIN rows : rows[i].at <= lastPowerRecordedAt /\ (Trusted => Dated(rows[i], skew))

\* The state is that of the newest snapshot, and an outage in order has its first one.
Newest(m) == m \in Came /\ \A t \in Came : t.at <= m.at
Run == {s \in Came : \A t \in Came : t.at >= s.at => ~t.up}
OutageInv ==
    /\ store.reachable = "yes" => store.since = Never
    /\ Trusted =>
         IF Came = {} THEN store.reachable = "unknown" /\ store.stateAt = Never /\ store.since = Never
         ELSE \E m \in Came : /\ Newest(m) /\ store.stateAt = m.at + skew
                              /\ store.reachable = IF m.up THEN "yes" ELSE "no"
    /\ InOrder /\ store.reachable = "no" =>
         \E f \in Run : store.since = f.at + skew /\ \A t \in Run : f.at <= t.at

\* In order, the session is that of the last snapshot of a game that answered, and so is the status; if no
\* load was missed, the chart and the generators are of its load.
LastUp(k) == k \in DOMAIN arrived /\ arrived[k].up /\ \A j \in DOMAIN arrived : k < j => ~arrived[j].up
LoadInv ==
    /\ \A i, j \in DOMAIN chart : i < j => chart[i].slot < chart[j].slot
    /\ InOrder =>
         IF \A i \in DOMAIN arrived : ~arrived[i].up
         THEN /\ lastSave = NoSave /\ lastStatusAt = Never /\ chart = <<>> /\ store.generators = NoReading
              /\ "status" \in Part => store.part["status"] = NoReading
         ELSE \E k \in DOMAIN arrived :
                /\ LastUp(k)
                /\ lastSave = arrived[k].save /\ lastStatusAt = arrived[k].at + skew
                /\ store.part["status"] = [at |-> lastStatusAt, taken |-> arrived[k].at]
                /\ NoLoadMissed =>
                     /\ \A i \in DOMAIN chart : chart[i].load = arrived[k].load
                     /\ store.generators # NoReading =>
                          \E g \in taken : g.at = store.generators.taken /\ g.load = arrived[k].load
    /\ InOrder => \A i \in DOMAIN rows :
                     \E s \in taken : s.at = rows[i].taken /\ s.save.name = rows[i].session

\* The types of what is kept.
Reading == [at : Int, taken : Int]
Point == [slot : Int, load : Nat]
HistoryRow == [session : {s.name : s \in Save \cup {NoSave}}, load : Nat, at : Int, taken : Nat]

\* What is handed to the store is a snapshot, dated no later than its arrival.
LEMMA SnapIsSnapshot ==
    ASSUME TypeOK, NEW s \in taken
    PROVE  /\ s \in Snapshot /\ Snap(s) \in Snapshots /\ ObservedAt(s) \in Int /\ ObservedAt(s) <= now
           /\ Snap(s).at = ObservedAt(s) /\ Snap(s).taken = s.at /\ Snap(s).parts = s.parts
           /\ Snap(s).generators = s.generators /\ Snap(s).reachable = IF s.up THEN "yes" ELSE "no"
  <1>1. s \in Snapshot /\ now \in Nat /\ skew \in Int BY DEF TypeOK
  <1>2. ObservedAt(s) \in Int /\ ObservedAt(s) <= now BY <1>1 DEF ObservedAt, Snapshot
  <1>. HIDE DEF ObservedAt
  <1>3. Snap(s) \in Snapshots BY <1>1, <1>2 DEF Snap, Snapshots, Snapshot
  <1>. QED BY <1>1, <1>2, <1>3 DEF Snap

\* What a power reading does to the chart.
LEMMA AppendedPoint ==
    ASSUME NEW points \in Seq(Point), Len(points) <= Capacity, NEW slot \in Int, NEW load1 \in Nat
    PROVE  /\ AppendPoint(points, slot, load1) \in Seq(Point)
           /\ Len(AppendPoint(points, slot, load1)) <= Capacity
           /\ (\A i, j \in DOMAIN points : i < j => points[i].slot < points[j].slot) =>
                 LET new == AppendPoint(points, slot, load1)
                 IN \A i, j \in DOMAIN new : i < j => new[i].slot < new[j].slot
           /\ (\A i \in DOMAIN points : points[i].load = load1) =>
                 LET new == AppendPoint(points, slot, load1)
                 IN \A i \in DOMAIN new : new[i].load = load1
  <1>. DEFINE p == [slot |-> slot, load |-> load1]
              more == Append(points, p)
  <1>1. Capacity \in Nat \ {0} /\ p \in Point BY TimeAssumption DEF Point
  <1>2. /\ more \in Seq(Point) /\ Len(more) = Len(points) + 1 /\ DOMAIN more = 1..Len(points) + 1
        /\ \A i \in 1..Len(points) : more[i] = points[i]
        /\ more[Len(points) + 1] = p /\ DOMAIN points = 1..Len(points) /\ Len(points) \in Nat
    BY <1>1
  <1>3. /\ Tail(more) \in Seq(Point) /\ Len(Tail(more)) = Len(points)
        /\ \A i \in DOMAIN Tail(more) : i \in 1..Len(points) /\ Tail(more)[i] = more[i + 1]
    BY <1>1, <1>2
  <1>4. p.slot = slot /\ p.load = load1 OBVIOUS
  <1>. HIDE DEF p, more
  <1>5. \/ AppendPoint(points, slot, load1) = points
        \/ /\ points = <<>> \/ points[Len(points)].slot < slot
           /\ IF Len(points) < Capacity THEN AppendPoint(points, slot, load1) = more
              ELSE AppendPoint(points, slot, load1) = Tail(more)
    BY DEF AppendPoint, Newer, p, more
  <1>6. AppendPoint(points, slot, load1) \in Seq(Point) /\ Len(AppendPoint(points, slot, load1)) <= Capacity
    <2>1. CASE AppendPoint(points, slot, load1) = points BY <2>1
    <2>2. CASE AppendPoint(points, slot, load1) = more /\ Len(points) < Capacity BY <1>1, <1>2, <2>2
    <2>3. CASE AppendPoint(points, slot, load1) = Tail(more) BY <1>3, <2>3
    <2>. QED BY <1>5, <2>1, <2>2, <2>3
  <1>7. ASSUME \A i, j \in DOMAIN points : i < j => points[i].slot < points[j].slot,
               points = <<>> \/ points[Len(points)].slot < slot
        PROVE  \A i, j \in DOMAIN more : i < j => more[i].slot < more[j].slot
    <2>. SUFFICES ASSUME NEW i \in DOMAIN more, NEW j \in DOMAIN more, i < j PROVE more[i].slot < more[j].slot
      OBVIOUS
    <2>1. i \in 1..Len(points) /\ more[i] = points[i] /\ points[i] \in Point BY <1>2
    <2>2. CASE j \in 1..Len(points) BY <1>2, <1>7, <2>1, <2>2
    <2>3. CASE j = Len(points) + 1
      <3>1. points[Len(points)].slot < slot /\ points[Len(points)] \in Point BY <1>7, <2>1
      <3>2. i = Len(points) \/ points[i].slot < points[Len(points)].slot BY <1>2, <1>7, <2>1
      <3>3. more[j].slot = slot BY <1>2, <1>4, <2>3
      <3>4. points[i].slot \in Int /\ points[Len(points)].slot \in Int BY <2>1, <3>1 DEF Point
      <3>. QED BY <2>1, <3>1, <3>2, <3>3, <3>4
    <2>. QED BY <1>2, <2>2, <2>3
  <1>8. ASSUME \A i, j \in DOMAIN more : i < j => more[i].slot < more[j].slot
        PROVE  \A i, j \in DOMAIN Tail(more) : i < j => Tail(more)[i].slot < Tail(more)[j].slot
    <2>. SUFFICES ASSUME NEW i \in DOMAIN Tail(more), NEW j \in DOMAIN Tail(more), i < j
                  PROVE  more[i + 1].slot < more[j + 1].slot
      BY <1>3
    <2>1. i + 1 \in DOMAIN more /\ j + 1 \in DOMAIN more /\ i + 1 < j + 1 BY <1>2, <1>3
    <2>. QED BY <1>8, <2>1
  <1>9. ASSUME \A i \in DOMAIN points : points[i].load = load1
        PROVE  (\A i \in DOMAIN more : more[i].load = load1)
    BY <1>2, <1>4, <1>9
  <1>10. ASSUME \A i \in DOMAIN more : more[i].load = load1
         PROVE  \A i \in DOMAIN Tail(more) : Tail(more)[i].load = load1
    <2>. SUFFICES ASSUME NEW i \in DOMAIN Tail(more) PROVE more[i + 1].load = load1 BY <1>3
    <2>. QED BY <1>2, <1>3, <1>10
  <1>11. ASSUME \A i, j \in DOMAIN points : i < j => points[i].slot < points[j].slot
         PROVE  LET new == AppendPoint(points, slot, load1)
                IN \A i, j \in DOMAIN new : i < j => new[i].slot < new[j].slot
    BY <1>5, <1>7, <1>8, <1>11
  <1>12. ASSUME \A i \in DOMAIN points : points[i].load = load1
         PROVE  LET new == AppendPoint(points, slot, load1)
                IN \A i \in DOMAIN new : new[i].load = load1
    BY <1>5, <1>9, <1>10, <1>12
  <1>. QED BY <1>6, <1>11, <1>12

\* What the store is before the snapshot is recorded: as it was, or without its generators.
LEMMA StoreBeforeFields ==
    ASSUME TypeOK, NEW s \in taken
    PROVE  /\ StoreBefore(s) \in StoreType /\ StoreBefore(s).part = store.part
           /\ StoreBefore(s).reachable = store.reachable /\ StoreBefore(s).stateAt = store.stateAt
           /\ StoreBefore(s).since = store.since
           /\ StoreBefore(s).generators = IF SessionChanged(s) THEN NoReading ELSE store.generators
  <1>1. store \in StoreType /\ ObservedAt(s) \in Int BY SnapIsSnapshot DEF TypeOK
  <1>2. NoReading \in Reading /\ Later(store.floor, ObservedAt(s)) \in Int
    BY <1>1 DEF NoReading, Never, Later, StoreType, Reading
  <1>. QED BY <1>1, <1>2 DEF StoreBefore, DropGenerators, StoreType, Reading

\* The types hold at the start.
LEMMA InitiallyTyped == Init => TypeOK
  <1>. SUFFICES ASSUME Init PROVE TypeOK OBVIOUS
  <1>1. EmptyStore \in StoreType /\ Never \in Int BY DEF EmptyStore, StoreType, NoReading, Never
  <1>2. Never - Interval \in Int BY <1>1, TimeAssumption
  <1>3. skew \in Int /\ now \in Nat /\ save \in Save /\ loads \in Nat /\ Capacity \in Nat
    BY TimeAssumption DEF Init
  <1>4. /\ arrived = <<>> /\ chart = <<>> /\ rows = <<>> /\ taken = {} /\ store = EmptyStore
        /\ lastSave = NoSave /\ lastStatusAt = Never /\ wasPaused = FALSE
        /\ lastPowerRecordedAt = Never - Interval /\ lastFactoryRecordedAt = Never - Interval
    BY DEF Init
  <1>5. Len(<<>>) <= Capacity BY <1>3
  <1>6. arrived \in Seq(Snapshot) /\ taken \subseteq Snapshot BY <1>4
  <1>7. chart \in Seq([slot : Int, load : Nat]) /\ Len(chart) <= Capacity BY <1>4, <1>5
  <1>8. rows \in Seq([session : {s.name : s \in Save \cup {NoSave}}, load : Nat, at : Int, taken : Nat]) BY <1>4
  <1>9. lastSave \in Save \cup {NoSave} /\ wasPaused \in BOOLEAN BY <1>4
  <1>. QED BY <1>1, <1>2, <1>3, <1>4, <1>6, <1>7, <1>8, <1>9 DEF TypeOK

\* The chart and the history keep their types.
LEMMA PowerTyped ==
    ASSUME TypeOK, NEW s \in taken, IngestPower(s), lastSave' \in Save \cup {NoSave}
    PROVE  /\ lastPowerRecordedAt' \in Int /\ chart' \in Seq(Point) /\ Len(chart') <= Capacity
           /\ rows' \in Seq(HistoryRow)
  <1>1. s \in Snapshot /\ ObservedAt(s) \in Int /\ s.load \in Nat /\ s.at \in Nat BY SnapIsSnapshot DEF Snapshot
  <1>2. chart \in Seq(Point) /\ Len(chart) <= Capacity /\ rows \in Seq(HistoryRow) /\ lastPowerRecordedAt \in Int
    BY DEF TypeOK, Point, HistoryRow
  <1>3. Capacity \in Nat /\ Interval \in Nat \ {0} BY TimeAssumption
  <1>4. ChartBefore(s) \in Seq(Point) /\ Len(ChartBefore(s)) <= Capacity BY <1>2, <1>3 DEF ChartBefore
  <1>5. (ObservedAt(s) \div Interval) * Interval \in Int BY <1>1, <1>3
  <1>6. chart' \in Seq(Point) /\ Len(chart') <= Capacity
    BY <1>1, <1>4, <1>5, AppendedPoint DEF IngestPower
  <1>7. FiledUnder(s) \in {x.name : x \in Save \cup {NoSave}} BY DEF FiledUnder
  <1>8. lastPowerRecordedAt' \in Int /\ rows' \in Seq(HistoryRow)
    <2>1. CASE PowerIsDue(s)
      <3>. DEFINE r == [session |-> FiledUnder(s), load |-> s.load, at |-> ObservedAt(s), taken |-> s.at]
      <3>1. r \in HistoryRow BY <1>1, <1>7 DEF HistoryRow
      <3>2. rows' = Append(rows, r) /\ lastPowerRecordedAt' = ObservedAt(s) BY <2>1 DEF IngestPower
      <3>. HIDE DEF r
      <3>. QED BY <1>1, <1>2, <3>1, <3>2
    <2>2. CASE ~PowerIsDue(s) BY <1>2, <2>2 DEF IngestPower
    <2>. QED BY <2>1, <2>2
  <1>. QED BY <1>6, <1>8

\* Every step keeps the types.
LEMMA StaysTyped == ASSUME TypeOK, [Next]_vars PROVE TypeOK'
  <1>. USE DEF gameVars, arrivalVars, sessionVars, factoryVars, powerVars
  <1>1. CASE Tick BY <1>1 DEF Tick, TypeOK
  <1>2. ASSUME NEW s \in Save, Load(s) PROVE TypeOK' BY <1>2 DEF Load, TypeOK
  <1>3. ASSUME NEW k \in Kind, Sample(k) PROVE TypeOK'
    <2>. DEFINE t == [at |-> now, load |-> loads, save |-> save, up |-> k.up, paused |-> k.paused,
                      parts |-> k.parts, generators |-> k.generators]
    <2>1. k \in [up : BOOLEAN, paused : BOOLEAN, parts : SUBSET Part, generators : BOOLEAN]
      BY KindAssumption
    <2>2. t \in Snapshot BY <2>1 DEF TypeOK, Snapshot
    <2>3. taken' = taken \cup {t} BY <1>3 DEF Sample
    <2>. HIDE DEF t
    <2>. QED BY <1>3, <2>2, <2>3 DEF Sample, TypeOK
  <1>4. ASSUME NEW s \in taken, Arrives(s) PROVE arrived' \in Seq(Snapshot)
    BY <1>4 DEF Arrives, TypeOK
  <1>5. ASSUME NEW s \in taken, IngestUnreachable(s) PROVE TypeOK'
    <2>1. arrived' \in Seq(Snapshot) BY <1>4, <1>5 DEF IngestUnreachable
    <2>2. Record(store, Snap(s)) \in StoreType BY SnapIsSnapshot, RecordFields DEF TypeOK
    <2>. QED BY <1>5, <2>1, <2>2 DEF IngestUnreachable, TypeOK
  <1>6. ASSUME NEW s \in taken, Ingest(s) PROVE TypeOK'
    <2>1. arrived' \in Seq(Snapshot) BY <1>4, <1>6 DEF Ingest
    <2>2. store' \in StoreType
      <3>1. StoreBefore(s) \in StoreType /\ Snap(s) \in Snapshots BY SnapIsSnapshot, StoreBeforeFields
      <3>. QED BY <1>6, <3>1, RecordFields DEF Ingest
    <2>3. lastSave' \in Save \cup {NoSave} /\ lastStatusAt' \in Int
      <3>1. s \in Snapshot /\ ObservedAt(s) \in Int BY SnapIsSnapshot
      <3>. QED BY <1>6, <3>1 DEF Ingest, TypeOK, Snapshot
    <2>4. lastFactoryRecordedAt' \in Int /\ wasPaused' \in BOOLEAN
      <3>1. s \in Snapshot /\ ObservedAt(s) \in Int BY SnapIsSnapshot
      <3>. QED BY <1>6, <3>1 DEF Ingest, IngestFactory, TypeOK, Snapshot
    <2>5. /\ lastPowerRecordedAt' \in Int /\ chart' \in Seq(Point) /\ Len(chart') <= Capacity
          /\ rows' \in Seq(HistoryRow)
      BY <1>6, <2>3, PowerTyped DEF Ingest
    <2>. QED BY <1>6, <2>1, <2>2, <2>3, <2>4, <2>5 DEF Ingest, TypeOK, Point, HistoryRow
  <1>7. CASE UNCHANGED vars BY <1>7 DEF vars, TypeOK
  <1>. QED BY <1>1, <1>2, <1>3, <1>5, <1>6, <1>7 DEF Next

-----------------------------------------------------------------------------
(* The game and the agent.                                                   *)

\* Every snapshot that comes is one the agent took.
LEMMA CameNext ==
    ASSUME TypeOK, NEW s \in taken, Arrives(s)
    PROVE  /\ arrived' = Append(arrived, s) /\ DOMAIN arrived = 1..Len(arrived) /\ Len(arrived) \in Nat
           /\ DOMAIN arrived' = 1..(Len(arrived) + 1) /\ arrived'[Len(arrived) + 1] = s
           /\ \A i \in DOMAIN arrived : i \in DOMAIN arrived' /\ arrived'[i] = arrived[i] /\ i < Len(arrived) + 1
           /\ Came' = Came \cup {s}
  <1>1. arrived \in Seq(Snapshot) /\ s \in Snapshot BY DEF TypeOK
  <1>2. arrived' = Append(arrived, s) BY DEF Arrives
  <1>3. /\ DOMAIN arrived = 1..Len(arrived) /\ Len(arrived) \in Nat
        /\ DOMAIN arrived' = 1..(Len(arrived) + 1) /\ arrived'[Len(arrived) + 1] = s
        /\ \A i \in DOMAIN arrived : i \in DOMAIN arrived' /\ arrived'[i] = arrived[i] /\ i < Len(arrived) + 1
    BY <1>1, <1>2
  <1>4. Came' = Came \cup {s}
    <2>1. ASSUME NEW x \in Came' PROVE x \in Came \cup {s}
      <3>1. PICK i \in DOMAIN arrived' : x = arrived'[i] BY DEF Came
      <3>2. CASE i = Len(arrived) + 1 BY <1>3, <3>1, <3>2
      <3>3. CASE i # Len(arrived) + 1
        <4>1. i \in DOMAIN arrived BY <1>3, <3>1, <3>3
        <4>2. x = arrived[i] BY <1>3, <3>1, <4>1
        <4>. QED BY <4>1, <4>2 DEF Came
      <3>. QED BY <3>2, <3>3
    <2>2. ASSUME NEW x \in Came PROVE x \in Came'
      <3>1. PICK i \in DOMAIN arrived : x = arrived[i] BY DEF Came
      <3>. QED BY <1>3, <3>1 DEF Came
    <2>3. s \in Came'
      <3>1. Len(arrived) + 1 \in DOMAIN arrived' BY <1>3
      <3>. QED BY <1>3, <3>1 DEF Came
    <2>. QED BY <2>1, <2>2, <2>3
  <1>. QED BY <1>2, <1>3, <1>4

\* The game and the agent at the start.
LEMMA GameInitially == Init => GameInv
  <1>. SUFFICES ASSUME Init PROVE GameInv OBVIOUS
  <1>1. Start \in Nat /\ skew \in Skew BY TimeAssumption DEF Init
  <1>2. 0 <= Start + skew BY <1>1, TimeAssumption
  <1>3. taken = {} /\ arrived = <<>> BY DEF Init
  <1>4. now = Start /\ Start <= now BY <1>1 DEF Init
  <1>5. Came = {} BY <1>3 DEF Came
  <1>. QED BY <1>2, <1>3, <1>4, <1>5 DEF GameInv

\* Every step keeps what is known of the game and the snapshots.
LEMMA GameStays == ASSUME TypeOK, GameInv, [Next]_vars PROVE GameInv'
  <1>. USE DEF gameVars, arrivalVars
  <1>1. /\ now \in Nat /\ skew \in Int /\ loads \in Nat /\ Start \in Nat /\ taken \subseteq Snapshot
        /\ save \in Save /\ \A s \in Save : s.played \in Nat
    BY TimeAssumption, SaveAssumption DEF TypeOK
  <1>2. \A s \in taken : s.at \in Nat /\ s.load \in Nat /\ s.save \in Save BY <1>1 DEF Snapshot
  <1>3. CASE Tick
    <2>1. now' = now + 1 /\ UNCHANGED <<skew, loads, save, taken, arrived>> BY <1>3 DEF Tick
    <2>2. Came' = Came BY <2>1 DEF Came
    <2>. QED BY <1>1, <1>2, <2>1, <2>2 DEF GameInv
  <1>4. ASSUME NEW n \in Save, Load(n) PROVE GameInv'
    <2>1. /\ n # save /\ (n.name = save.name => n.played < save.played)
          /\ loads' = loads + 1 /\ save' = n /\ UNCHANGED <<now, skew, taken, arrived>>
      BY <1>4 DEF Load
    <2>2. Came' = Came BY <2>1 DEF Came
    <2>3. Reloaded(save, n) BY <2>1 DEF Reloaded
    <2>4. \A s \in taken : /\ s.load <= loads' /\ s.load # loads'
                           /\ (s.load + 1 = loads' => Reloaded(s.save, save'))
      BY <1>1, <1>2, <2>1, <2>3 DEF GameInv
    <2>. QED BY <2>1, <2>2, <2>4 DEF GameInv
  <1>5. ASSUME NEW k \in Kind, Sample(k) PROVE GameInv'
    <2>. DEFINE n == [at |-> now, load |-> loads, save |-> save, up |-> k.up, paused |-> k.paused,
                      parts |-> k.parts, generators |-> k.generators]
    <2>1. /\ taken' = taken \cup {n} /\ (\A s \in taken : s.at # now)
          /\ UNCHANGED <<now, skew, loads, save, arrived>>
      BY <1>5 DEF Sample
    <2>2. n.at = now /\ n.load = loads /\ n.save = save /\ IF n.up THEN "status" \in n.parts ELSE n.parts = {}
      BY KindAssumption
    <2>. HIDE DEF n
    <2>3. Came' = Came BY <2>1 DEF Came
    <2>4. \A s \in taken : s.at < now /\ s.at <= now /\ ~(now <= s.at) BY <1>1, <1>2, <2>1 DEF GameInv
    <2>5. \A s \in taken' :
          /\ Start <= s.at /\ s.at <= now /\ s.load <= loads
          /\ s.load = loads => s.save = save
          /\ s.load + 1 = loads => Reloaded(s.save, save)
          /\ IF s.up THEN "status" \in s.parts ELSE s.parts = {}
      BY <1>1, <2>1, <2>2 DEF GameInv
    <2>6. ASSUME NEW s \in taken', NEW t \in taken'
          PROVE  /\ s.at = t.at => s = t
                 /\ s.at <= t.at => s.load <= t.load
                 /\ s.load = t.load => s.save = t.save
                 /\ s.load + 1 = t.load => Reloaded(s.save, t.save)
      <3>1. CASE s \in taken /\ t \in taken BY <3>1 DEF GameInv
      <3>2. CASE s \in taken /\ t = n BY <1>1, <1>2, <2>2, <2>4, <3>2 DEF GameInv
      <3>3. CASE s = n /\ t \in taken
        <4>1. t.load <= loads /\ t.load \in Nat BY <1>2, <3>3 DEF GameInv
        <4>2. loads + 1 # t.load BY <1>1, <4>1
        <4>. QED BY <2>2, <2>4, <2>5, <3>3, <4>2 DEF GameInv
      <3>4. CASE s = n /\ t = n BY <1>1, <2>2, <3>4
      <3>. QED BY <2>1, <3>1, <3>2, <3>3, <3>4
    <2>7. Came' \subseteq taken' BY <2>1, <2>3 DEF GameInv
    <2>. QED BY <2>1, <2>5, <2>6, <2>7 DEF GameInv
  <1>6. ASSUME NEW s \in taken, Arrives(s), UNCHANGED <<now, skew, save, loads, taken>> PROVE GameInv'
    <2>1. Came' = Came \cup {s} BY <1>6, CameNext
    <2>. QED BY <1>6, <2>1 DEF GameInv
  <1>7. CASE UNCHANGED vars
    <2>1. UNCHANGED <<now, skew, save, loads, taken, arrived>> BY <1>7 DEF vars
    <2>2. Came' = Came BY <2>1 DEF Came
    <2>. QED BY <2>1, <2>2 DEF GameInv
  <1>8. ASSUME NEW s \in taken, Ingest(s) \/ IngestUnreachable(s) PROVE GameInv'
    BY <1>6, <1>8 DEF Ingest, IngestUnreachable
  <1>. QED BY <1>3, <1>4, <1>5, <1>7, <1>8 DEF Next

\* What is not dated with its arrival is dated with the agent's time.
LEMMA DatedByTheAgent ==
    ASSUME TypeOK, GameInv, NEW s \in taken, Arrives(s), skew <= 0, ~redated'
    PROVE  Trusted /\ ObservedAt(s) = s.at + skew /\ 0 <= ObservedAt(s) /\ s.at \in Nat
  <1>1. Near(s) /\ ~redated BY DEF Arrives
  <1>2. s.at \in Nat /\ now \in Nat /\ skew \in Int /\ Start \in Nat BY TimeAssumption DEF TypeOK, Snapshot
  <1>3. Start <= s.at /\ s.at <= now /\ 0 <= Start + skew BY DEF GameInv
  <1>4. s.at + skew <= now /\ 0 <= s.at + skew BY <1>2, <1>3
  <1>5. ObservedAt(s) = s.at + skew BY <1>1, <1>2, <1>4 DEF ObservedAt
  <1>. QED BY <1>1, <1>2, <1>4, <1>5 DEF Trusted

-----------------------------------------------------------------------------
(* Readings and rows.                                                        *)

\* What a snapshot leaves in the store, whether or not the game answered.
LEMMA WhatIsStored ==
    ASSUME TypeOK, NEW s \in taken, Ingest(s) \/ IngestUnreachable(s)
    PROVE  /\ Arrives(s) /\ UNCHANGED gameVars
           /\ IF ObservedAt(s) < store.stateAt
              THEN /\ store'.reachable = store.reachable /\ store'.stateAt = store.stateAt
                   /\ store'.since = store.since
              ELSE /\ store'.reachable = IF s.up THEN "yes" ELSE "no"
                   /\ store'.stateAt = ObservedAt(s)
                   /\ store'.since = IF s.up THEN Never
                                     ELSE IF store.reachable = "no" THEN store.since ELSE ObservedAt(s)
           /\ \A p \in Part :
                 store'.part[p] = IF s.up /\ p \in s.parts /\ ObservedAt(s) >= store.part[p].at
                                  THEN [at |-> ObservedAt(s), taken |-> s.at] ELSE store.part[p]
  <1>1. /\ s \in Snapshot /\ Snap(s) \in Snapshots /\ ObservedAt(s) \in Int
        /\ Snap(s).at = ObservedAt(s) /\ Snap(s).taken = s.at /\ Snap(s).parts = s.parts
        /\ Snap(s).reachable = (IF s.up THEN "yes" ELSE "no")
    BY SnapIsSnapshot
  <1>2. Snap(s).reachable = "yes" <=> s.up BY <1>1
  <1>3. Arrives(s) /\ UNCHANGED gameVars BY DEF Ingest, IngestUnreachable
  <1>4. PICK b \in StoreType : /\ store' = Record(b, Snap(s)) /\ b.part = store.part
                               /\ b.reachable = store.reachable /\ b.stateAt = store.stateAt
                               /\ b.since = store.since
    <2>1. CASE Ingest(s) BY <2>1, StoreBeforeFields DEF Ingest
    <2>2. CASE IngestUnreachable(s) BY <2>2 DEF IngestUnreachable, TypeOK
    <2>. QED BY <2>1, <2>2
  <1>5. /\ IF Snap(s).at < b.stateAt
           THEN /\ Record(b, Snap(s)).reachable = b.reachable
                /\ Record(b, Snap(s)).stateAt = b.stateAt
                /\ Record(b, Snap(s)).since = b.since
           ELSE /\ Record(b, Snap(s)).reachable = Snap(s).reachable
                /\ Record(b, Snap(s)).stateAt = Snap(s).at
                /\ Record(b, Snap(s)).since = IF Snap(s).reachable = "yes" THEN Never
                                              ELSE IF b.reachable = "no" THEN b.since ELSE Snap(s).at
        /\ \A p \in Part :
              Record(b, Snap(s)).part[p] =
                 IF Snap(s).reachable = "yes" /\ p \in TakenParts(b, Snap(s))
                 THEN [at |-> Snap(s).at, taken |-> Snap(s).taken] ELSE b.part[p]
    BY <1>1, RecordFields
  <1>6. \A p \in Part : p \in TakenParts(b, Snap(s)) <=> p \in s.parts /\ ObservedAt(s) >= store.part[p].at
    BY <1>1, <1>4 DEF TakenParts, Snapshot
  <1>. QED BY <1>1, <1>2, <1>3, <1>4, <1>5, <1>6

\* What a snapshot adds to the history, if anything.
LEMMA WhatIsRecorded ==
    ASSUME TypeOK, NEW s \in taken, Ingest(s) \/ IngestUnreachable(s)
    PROVE  \/ UNCHANGED <<rows, lastPowerRecordedAt>>
           \/ /\ Ingest(s) /\ ObservedAt(s) - lastPowerRecordedAt >= Half /\ lastPowerRecordedAt' = ObservedAt(s)
              /\ \E r \in HistoryRow : /\ rows' = Append(rows, r) /\ r.at = ObservedAt(s) /\ r.taken = s.at
                                       /\ r.session = lastSave'.name
  <1>1. CASE IngestUnreachable(s) BY <1>1 DEF IngestUnreachable, powerVars
  <1>2. CASE Ingest(s) /\ ~PowerIsDue(s) BY <1>2 DEF Ingest, IngestPower
  <1>3. CASE Ingest(s) /\ PowerIsDue(s)
    <2>. DEFINE r == [session |-> FiledUnder(s), load |-> s.load, at |-> ObservedAt(s), taken |-> s.at]
    <2>1. rows' = Append(rows, r) /\ lastPowerRecordedAt' = ObservedAt(s) BY <1>3 DEF Ingest, IngestPower
    <2>2. r \in HistoryRow
      <3>1. s \in Snapshot /\ ObservedAt(s) \in Int BY SnapIsSnapshot
      <3>2. lastSave' \in Save \cup {NoSave} BY <1>3, <3>1 DEF Ingest, TypeOK, Snapshot, sessionVars
      <3>. QED BY <3>1, <3>2 DEF HistoryRow, FiledUnder, Snapshot
    <2>3. r.at = ObservedAt(s) /\ r.taken = s.at /\ r.session = lastSave'.name BY DEF FiledUnder
    <2>4. ObservedAt(s) - lastPowerRecordedAt >= Half BY <1>3 DEF PowerIsDue
    <2>. HIDE DEF r
    <2>. QED BY <1>3, <2>1, <2>2, <2>3, <2>4
  <1>. QED BY <1>1, <1>2, <1>3

\* The invariant the readings and the rows rest on.
ReadInv == TypeOK /\ GameInv /\ ReadingInv

\* Every step keeps the times of the parts and of the rows.
LEMMA ReadingStays == ASSUME ReadInv, [Next]_vars PROVE ReadInv'
  <1>. USE DEF gameVars, arrivalVars, powerVars
  <1>1. TypeOK /\ GameInv /\ TypeOK' /\ GameInv' BY StaysTyped, GameStays DEF ReadInv
  <1>2. ASSUME UNCHANGED <<skew, redated, store, rows, lastPowerRecordedAt>> PROVE ReadingInv'
    BY <1>2 DEF ReadInv, ReadingInv, Trusted, Dated
  <1>3. ASSUME NEW s \in taken, Ingest(s) \/ IngestUnreachable(s) PROVE ReadingInv'
    <2>1. /\ Arrives(s) /\ skew' = skew
          /\ \A p \in Part : store'.part[p] \in {store.part[p], [at |-> ObservedAt(s), taken |-> s.at]}
      BY <1>1, <1>3, WhatIsStored
    <2>2. Trusted' => Trusted /\ ObservedAt(s) = s.at + skew /\ s.at \in Nat
      BY <1>1, <2>1, DatedByTheAgent DEF Trusted
    <2>3. Trusted' => \A p \in Part : store'.part[p] = NoReading \/ Dated(store'.part[p], skew)
      BY <2>1, <2>2 DEF ReadInv, ReadingInv, Dated
    <2>4. \A i \in DOMAIN rows' : rows'[i].at <= lastPowerRecordedAt' /\ (Trusted' => Dated(rows'[i], skew))
      <3>1. CASE UNCHANGED <<rows, lastPowerRecordedAt>>
        BY <2>1, <2>2, <3>1 DEF ReadInv, ReadingInv, Dated
      <3>2. CASE ~UNCHANGED <<rows, lastPowerRecordedAt>>
        <4>1. ObservedAt(s) - lastPowerRecordedAt >= Half /\ lastPowerRecordedAt' = ObservedAt(s)
          BY <1>1, <1>3, <3>2, WhatIsRecorded
        <4>2. PICK r \in HistoryRow : rows' = Append(rows, r) /\ r.at = ObservedAt(s) /\ r.taken = s.at
          BY <1>1, <1>3, <3>2, WhatIsRecorded
        <4>3. rows \in Seq(HistoryRow) /\ lastPowerRecordedAt \in Int /\ ObservedAt(s) \in Int
          BY <1>1, SnapIsSnapshot DEF TypeOK, HistoryRow
        <4>4. Half \in Nat \ {0} BY TimeAssumption DEF Half
        <4>5. lastPowerRecordedAt <= ObservedAt(s) BY <4>1, <4>3, <4>4
        <4>. TAKE i \in DOMAIN rows'
        <4>6. CASE i \in DOMAIN rows
          <5>1. rows'[i] = rows[i] /\ rows[i] \in HistoryRow BY <4>2, <4>3, <4>6
          <5>2. rows[i].at <= lastPowerRecordedAt /\ (Trusted => Dated(rows[i], skew)) BY <4>6 DEF ReadInv, ReadingInv
          <5>3. rows[i].at \in Int BY <5>1 DEF HistoryRow
          <5>. QED BY <2>2, <4>1, <4>3, <4>5, <5>1, <5>2, <5>3
        <4>7. CASE i \notin DOMAIN rows
          <5>1. rows'[i] = r BY <4>2, <4>3, <4>7
          <5>. QED BY <2>1, <2>2, <4>1, <4>2, <4>3, <5>1 DEF Dated
        <4>. QED BY <4>6, <4>7
      <3>. QED BY <3>1, <3>2
    <2>. QED BY <2>1, <2>3, <2>4 DEF ReadingInv, Dated
  <1>4. ReadingInv'
    <2>1. CASE Tick BY <1>2, <2>1 DEF Tick
    <2>2. ASSUME NEW n \in Save, Load(n) PROVE ReadingInv' BY <1>2, <2>2 DEF Load
    <2>3. ASSUME NEW k \in Kind, Sample(k) PROVE ReadingInv' BY <1>2, <2>3 DEF Sample
    <2>4. CASE UNCHANGED vars BY <1>2, <2>4 DEF vars
    <2>. QED BY <1>3, <2>1, <2>2, <2>3, <2>4 DEF Next
  <1>. QED BY <1>1, <1>4 DEF ReadInv

\* They hold in every state.
LEMMA ReadInvariant == Spec => []ReadInv
  <1>1. Init => ReadInv
    <2>. SUFFICES ASSUME Init PROVE ReadInv OBVIOUS
    <2>1. rows = <<>> /\ \A p \in Part : store.part[p] = NoReading BY DEF Init, EmptyStore
    <2>. QED BY <2>1, InitiallyTyped, GameInitially DEF ReadInv, ReadingInv
  <1>2. ReadInv /\ [Next]_vars => ReadInv' BY ReadingStays
  <1>. QED BY <1>1, <1>2, PTL DEF Spec

\* Every variable of the ingest keeps its type, the chart its capacity, in every run.
THEOREM IngestTyped == Spec => []TypeOK
  <1>1. ReadInv => TypeOK BY DEF ReadInv
  <1>. QED BY <1>1, ReadInvariant, PTL

\* NewerStays for any clock that is not ahead, any tolerance and any order of arrival: record()
\* of agentSnapshotStore.ts never puts an older reading over a newer one.
THEOREM NewerReadingStays == Spec => NewerStays
  <1>1. ASSUME ReadInv, [Next]_vars
        PROVE  [skew <= 0 /\ ~redated' => \A p \in Part : store'.part[p].taken >= store.part[p].taken]_vars
    <2>. SUFFICES ASSUME Next, skew <= 0, ~redated', NEW p \in Part
                  PROVE  store'.part[p].taken >= store.part[p].taken
      BY <1>1
    <2>0. TypeOK /\ GameInv BY <1>1 DEF ReadInv
    <2>1. store.part[p] \in Reading BY <2>0 DEF TypeOK, StoreType, Reading
    <2>2. CASE store' = store BY <2>1, <2>2 DEF Reading
    <2>3. ASSUME NEW s \in taken, Ingest(s) \/ IngestUnreachable(s)
          PROVE  store'.part[p].taken >= store.part[p].taken
      <3>1. /\ Arrives(s)
            /\ store'.part[p] = IF s.up /\ p \in s.parts /\ ObservedAt(s) >= store.part[p].at
                                THEN [at |-> ObservedAt(s), taken |-> s.at] ELSE store.part[p]
        BY <2>0, <2>3, WhatIsStored
      <3>2. Trusted /\ ObservedAt(s) = s.at + skew /\ s.at \in Nat BY <2>0, <3>1, DatedByTheAgent
      <3>3. store.part[p] = NoReading \/ Dated(store.part[p], skew) BY <1>1, <3>2 DEF ReadInv, ReadingInv
      <3>4. skew \in Int BY <2>0 DEF TypeOK
      <3>5. CASE store.part[p] = NoReading BY <2>1, <3>1, <3>2, <3>5 DEF NoReading, Never, Reading
      <3>6. CASE Dated(store.part[p], skew) BY <2>1, <3>1, <3>2, <3>4, <3>6 DEF Dated, Reading
      <3>. QED BY <3>3, <3>5, <3>6
    <2>. QED BY <2>2, <2>3 DEF Next, Tick, Load, Sample
  <1>. QED BY <1>1, ReadInvariant, PTL DEF Spec, NewerStays

\* Every step keeps the rows in order and a cadence apart.
LEMMA CadenceStays == ASSUME ReadInv, RowsKeepCadence, [Next]_vars PROVE RowsKeepCadence'
  <1>. USE DEF gameVars, arrivalVars, powerVars
  <1>0. TypeOK /\ GameInv BY DEF ReadInv
  <1>1. ASSUME UNCHANGED <<skew, redated, rows>> PROVE RowsKeepCadence' BY <1>1 DEF RowsKeepCadence
  <1>2. ASSUME NEW s \in taken, Ingest(s) \/ IngestUnreachable(s) PROVE RowsKeepCadence'
    <2>1. Arrives(s) /\ skew' = skew BY <1>0, <1>2, WhatIsStored
    <2>2. skew <= 0 /\ ~redated' => Trusted /\ ObservedAt(s) = s.at + skew /\ s.at \in Nat
      BY <1>0, <2>1, DatedByTheAgent
    <2>3. ~redated' => ~redated BY <2>1 DEF Arrives
    <2>4. CASE rows' = rows BY <2>1, <2>3, <2>4 DEF RowsKeepCadence
    <2>5. CASE rows' # rows
      <3>1. ObservedAt(s) - lastPowerRecordedAt >= Half BY <1>0, <1>2, <2>5, WhatIsRecorded
      <3>2. PICK r \in HistoryRow : rows' = Append(rows, r) /\ r.at = ObservedAt(s) /\ r.taken = s.at
        BY <1>0, <1>2, <2>5, WhatIsRecorded
      <3>3. rows \in Seq(HistoryRow) /\ lastPowerRecordedAt \in Int /\ ObservedAt(s) \in Int /\ skew \in Int
        BY <1>0, SnapIsSnapshot DEF TypeOK, HistoryRow
      <3>4. Half \in Nat \ {0} BY TimeAssumption DEF Half
      <3>. SUFFICES ASSUME NEW i \in DOMAIN rows', NEW j \in DOMAIN rows', i < j
                    PROVE  /\ rows'[j].at - rows'[i].at >= Half
                           /\ skew <= 0 /\ ~redated' => rows'[j].taken > rows'[i].taken
        BY <2>1 DEF RowsKeepCadence
      <3>5. i \in DOMAIN rows /\ rows'[i] = rows[i] /\ rows[i] \in HistoryRow BY <3>2, <3>3
      <3>6. CASE j \in DOMAIN rows
        <4>1. rows'[j] = rows[j] BY <3>2, <3>3, <3>6
        <4>. QED BY <2>3, <3>5, <3>6, <4>1 DEF RowsKeepCadence
      <3>7. CASE j \notin DOMAIN rows
        <4>1. rows'[j] = r BY <3>2, <3>3, <3>7
        <4>2. rows[i].at <= lastPowerRecordedAt /\ (Trusted => Dated(rows[i], skew))
          BY <3>5 DEF ReadInv, ReadingInv
        <4>0. /\ r.taken \in Int /\ rows[i].taken \in Int /\ r.at \in Int /\ rows[i].at \in Int
              /\ Half \in Int /\ Half >= 1
          BY <3>2, <3>4, <3>5 DEF HistoryRow
        <4>3. r.at - rows[i].at >= Half BY <3>1, <3>2, <3>3, <4>0, <4>2
        <4>4. ASSUME skew <= 0, ~redated' PROVE r.taken > rows[i].taken
          <5>1. Trusted /\ r.at = r.taken + skew BY <2>2, <3>2, <4>4
          <5>2. rows[i].at = rows[i].taken + skew BY <4>2, <5>1 DEF Dated
          <5>3. r.at = r.taken + skew BY <5>1
          <5>4. \A a, b, x, y, d, h \in Int : a = x + d /\ b = y + d /\ a - b >= h /\ h >= 1 => x > y
            OBVIOUS
          <5>. HIDE DEF Half
          <5>. QED BY <3>3, <4>0, <4>3, <5>2, <5>3, <5>4, Zenon
        <4>. QED BY <3>5, <4>1, <4>3, <4>4
      <3>. QED BY <3>6, <3>7
    <2>. QED BY <2>4, <2>5
  <1>3. CASE Tick BY <1>1, <1>3 DEF Tick
  <1>4. ASSUME NEW n \in Save, Load(n) PROVE RowsKeepCadence' BY <1>1, <1>4 DEF Load
  <1>5. ASSUME NEW k \in Kind, Sample(k) PROVE RowsKeepCadence' BY <1>1, <1>5 DEF Sample
  <1>6. CASE UNCHANGED vars BY <1>1, <1>6 DEF vars
  <1>. QED BY <1>2, <1>3, <1>4, <1>5, <1>6 DEF Next

\* RowsKeepCadence for any interval: ingest() of agentIngest.ts records at most one power reading
\* per cadence, in order.
THEOREM HistoryKeepsCadence == Spec => []RowsKeepCadence
  <1>1. Init => RowsKeepCadence BY DEF Init, RowsKeepCadence
  <1>2. ReadInv /\ RowsKeepCadence /\ [Next]_vars => RowsKeepCadence' BY CadenceStays
  <1>. QED BY <1>1, <1>2, ReadInvariant, PTL DEF Spec

-----------------------------------------------------------------------------
(* Outages.                                                                  *)

\* In order, what comes is not older than anything that came.
LEMMA InOrderNext ==
    ASSUME TypeOK, NEW s \in taken, Arrives(s), skew' = skew
    PROVE  InOrder' => /\ InOrder /\ skew <= 0 /\ ~redated'
                       /\ \A t \in Came : t.at <= s.at
  <1>. SUFFICES ASSUME InOrder' PROVE InOrder /\ skew <= 0 /\ ~redated' /\ \A t \in Came : t.at <= s.at
    OBVIOUS
  <1>1. /\ DOMAIN arrived' = 1..(Len(arrived) + 1) /\ arrived'[Len(arrived) + 1] = s /\ Len(arrived) \in Nat
        /\ \A i \in DOMAIN arrived : i \in DOMAIN arrived' /\ arrived'[i] = arrived[i] /\ i < Len(arrived) + 1
    BY CameNext
  <1>2. /\ skew <= 0 /\ ~redated'
        /\ \A i, j \in DOMAIN arrived' : i < j => arrived'[i].at <= arrived'[j].at
    BY DEF InOrder
  <1>3. ~redated BY <1>2 DEF Arrives
  <1>4. \A i, j \in DOMAIN arrived : i < j => arrived[i].at <= arrived[j].at
    <2>. SUFFICES ASSUME NEW i \in DOMAIN arrived, NEW j \in DOMAIN arrived, i < j
                  PROVE  arrived[i].at <= arrived[j].at
      OBVIOUS
    <2>. QED BY <1>1, <1>2
  <1>5. ASSUME NEW t \in Came PROVE t.at <= s.at
    <2>1. PICK i \in DOMAIN arrived : t = arrived[i] BY DEF Came
    <2>2. Len(arrived) + 1 \in DOMAIN arrived' BY <1>1
    <2>. QED BY <1>1, <1>2, <2>1, <2>2
  <1>. QED BY <1>2, <1>3, <1>4, <1>5 DEF InOrder

\* The one the outages rest on.
TellInv == TypeOK /\ GameInv /\ OutageInv

\* Every step keeps the state that of the newest snapshot, and the outage dated.
LEMMA OutageStays == ASSUME TellInv, [Next]_vars PROVE TellInv'
  <1>. USE DEF gameVars, arrivalVars
  <1>1. TypeOK /\ GameInv /\ OutageInv /\ TypeOK' /\ GameInv' BY StaysTyped, GameStays DEF TellInv
  <1>2. ASSUME UNCHANGED <<skew, redated, arrived, store>> PROVE OutageInv'
    BY <1>1, <1>2 DEF OutageInv, Trusted, Came, Newest, InOrder, Run
  <1>3. ASSUME NEW s \in taken, Ingest(s) \/ IngestUnreachable(s) PROVE OutageInv'
    <2>1. /\ Arrives(s) /\ skew' = skew /\ s \in Snapshot
          /\ IF ObservedAt(s) < store.stateAt
             THEN /\ store'.reachable = store.reachable /\ store'.stateAt = store.stateAt
                  /\ store'.since = store.since
             ELSE /\ store'.reachable = IF s.up THEN "yes" ELSE "no"
                  /\ store'.stateAt = ObservedAt(s)
                  /\ store'.since = IF s.up THEN Never
                                    ELSE IF store.reachable = "no" THEN store.since ELSE ObservedAt(s)
      BY <1>1, <1>3, WhatIsStored, SnapIsSnapshot
    <2>2. Came' = Came \cup {s} BY <1>1, <2>1, CameNext
    <2>3. Came \subseteq taken /\ taken \subseteq Snapshot /\ skew \in Int /\ \A t \in taken : t.at \in Nat
      BY <1>1 DEF GameInv, TypeOK, Snapshot
    <2>4. \A t, u \in Came' : t.at = u.at => t = u BY <1>1, <2>2, <2>3 DEF GameInv
    <2>5. Trusted' => Trusted /\ ObservedAt(s) = s.at + skew /\ 0 <= ObservedAt(s)
      BY <1>1, <2>1, DatedByTheAgent DEF Trusted
    <2>6. (store.reachable = "yes" => store.since = Never)'
      BY <1>1, <2>1 DEF OutageInv
    <2>7. ASSUME Trusted'
          PROVE  \E m \in Came' : /\ \A t \in Came' : t.at <= m.at
                                  /\ store'.stateAt = m.at + skew
                                  /\ store'.reachable = IF m.up THEN "yes" ELSE "no"
      <3>1. Trusted /\ ObservedAt(s) = s.at + skew /\ 0 <= ObservedAt(s) BY <2>5, <2>7
      <3>2. CASE Came = {}
        <4>1. store.stateAt = Never BY <1>1, <3>1, <3>2 DEF OutageInv
        <4>. QED BY <2>1, <2>2, <2>3, <3>1, <3>2, <4>1 DEF Never
      <3>3. CASE Came # {}
        <4>1. PICK m \in Came : /\ \A t \in Came : t.at <= m.at
                                /\ store.stateAt = m.at + skew
                                /\ store.reachable = IF m.up THEN "yes" ELSE "no"
          BY <1>1, <3>1, <3>3 DEF OutageInv, Newest
        <4>2. CASE ObservedAt(s) < store.stateAt
          <5>1. s.at <= m.at BY <2>3, <3>1, <4>1, <4>2
          <5>. QED BY <2>1, <2>2, <4>1, <4>2, <5>1
        <4>3. CASE ~(ObservedAt(s) < store.stateAt)
          <5>1. m.at <= s.at BY <2>3, <3>1, <4>1, <4>3
          <5>2. \A t \in Came : t.at <= s.at BY <2>3, <4>1, <5>1
          <5>. QED BY <2>1, <2>2, <2>3, <3>1, <4>3, <5>2
        <4>. QED BY <4>2, <4>3
      <3>. QED BY <3>2, <3>3
    <2>8. (Trusted =>
             IF Came = {} THEN store.reachable = "unknown" /\ store.stateAt = Never /\ store.since = Never
             ELSE \E m \in Came : /\ Newest(m) /\ store.stateAt = m.at + skew
                                  /\ store.reachable = IF m.up THEN "yes" ELSE "no")'
      BY <2>1, <2>2, <2>7 DEF Newest
    <2>9. ASSUME InOrder', store'.reachable = "no"
          PROVE  \E f \in Run' : store'.since = f.at + skew /\ \A t \in Run' : f.at <= t.at
      <3>1. InOrder /\ Trusted' /\ \A t \in Came : t.at <= s.at
        BY <1>1, <2>1, <2>9, InOrderNext DEF Trusted
      <3>2. Trusted /\ ObservedAt(s) = s.at + skew /\ 0 <= ObservedAt(s) BY <2>5, <3>1
      <3>3. Run' = {x \in Came' : \A t \in Came' : t.at >= x.at => ~t.up} BY DEF Run
      <3>4. ~(ObservedAt(s) < store.stateAt)
        <4>1. CASE Came = {}
          <5>1. store.stateAt = Never BY <1>1, <3>2, <4>1 DEF OutageInv
          <5>. QED BY <2>3, <3>2, <5>1 DEF Never
        <4>2. CASE Came # {}
          <5>1. PICK m \in Came : store.stateAt = m.at + skew BY <1>1, <3>2, <4>2 DEF OutageInv
          <5>2. m.at <= s.at /\ m.at \in Nat /\ s.at \in Nat BY <2>3, <3>1
          <5>. QED BY <2>3, <3>2, <5>1, <5>2
        <4>. QED BY <4>1, <4>2
      <3>5. ~s.up /\ store'.since = IF store.reachable = "no" THEN store.since ELSE s.at + skew
        BY <2>1, <2>9, <3>2, <3>4
      <3>6. s \in Run'
        <4>1. ASSUME NEW t \in Came', t.at >= s.at PROVE ~t.up
          <5>1. t.at = s.at BY <2>2, <2>3, <3>1, <4>1
          <5>2. t = s BY <2>2, <2>4, <5>1
          <5>. QED BY <3>5, <5>2
        <4>. QED BY <2>2, <3>3, <4>1
      <3>7. CASE store.reachable = "no"
        <4>1. PICK f \in Run : store.since = f.at + skew /\ \A t \in Run : f.at <= t.at
          BY <1>1, <3>1, <3>7 DEF OutageInv
        <4>2. f \in Came /\ \A t \in Came : t.at >= f.at => ~t.up BY DEF Run
        <4>3. f \in Run' BY <2>2, <3>3, <3>5, <4>2
        <4>4. ASSUME NEW t \in Run' PROVE f.at <= t.at
          <5>1. t \in Came' /\ \A u \in Came' : u.at >= t.at => ~u.up BY <3>3
          <5>2. CASE t = s BY <3>1, <4>2, <5>2
          <5>3. CASE t # s
            <6>1. t \in Run BY <2>2, <5>1, <5>3 DEF Run
            <6>. QED BY <4>1, <6>1
          <5>. QED BY <5>2, <5>3
        <4>. QED BY <3>5, <3>7, <4>1, <4>3, <4>4
      <3>8. CASE store.reachable # "no"
        <4>1. ASSUME NEW t \in Run' PROVE s.at <= t.at
          <5>1. t \in Came' /\ \A u \in Came' : u.at >= t.at => ~u.up BY <3>3
          <5>2. CASE t = s BY <2>3, <5>2
          <5>3. CASE t # s
            <6>1. t \in Came BY <2>2, <5>1, <5>3
            <6>2. PICK m \in Came : /\ \A u \in Came : u.at <= m.at
                                    /\ store.reachable = IF m.up THEN "yes" ELSE "no"
              BY <1>1, <3>2, <6>1 DEF OutageInv, Newest
            <6>3. m.up /\ m.at >= t.at BY <2>3, <3>8, <6>1, <6>2
            <6>. QED BY <2>2, <5>1, <6>3
          <5>. QED BY <5>2, <5>3
        <4>. QED BY <3>5, <3>6, <3>8, <4>1
      <3>. QED BY <3>7, <3>8
    <2>10. (InOrder /\ store.reachable = "no" =>
              \E f \in Run : store.since = f.at + skew /\ \A t \in Run : f.at <= t.at)'
      BY <2>1, <2>9
    <2>. QED BY <2>6, <2>8, <2>10 DEF OutageInv
  <1>4. OutageInv'
    <2>1. CASE Tick BY <1>2, <2>1 DEF Tick
    <2>2. ASSUME NEW n \in Save, Load(n) PROVE OutageInv' BY <1>2, <2>2 DEF Load
    <2>3. ASSUME NEW k \in Kind, Sample(k) PROVE OutageInv' BY <1>2, <2>3 DEF Sample
    <2>4. CASE UNCHANGED vars BY <1>2, <2>4 DEF vars
    <2>. QED BY <1>3, <2>1, <2>2, <2>3, <2>4 DEF Next
  <1>. QED BY <1>1, <1>4 DEF TellInv

\* OutageIsTold for any snapshots in any order: the state that agentSnapshotStore.ts serves is that
\* of the newest snapshot, and an outage is dated from the first snapshot of its run.
THEOREM OutagesAreTold == Spec => []OutageIsTold
  <1>1. Init => TellInv
    <2>. SUFFICES ASSUME Init PROVE TellInv OBVIOUS
    <2>1. store.reachable = "unknown" /\ store.stateAt = Never /\ store.since = Never /\ Came = {}
      BY DEF Init, EmptyStore, Came
    <2>. QED BY <2>1, InitiallyTyped, GameInitially DEF TellInv, OutageInv
  <1>2. TellInv /\ [Next]_vars => TellInv' BY OutageStays
  <1>3. TellInv => OutageIsTold
    <2>. SUFFICES ASSUME TellInv PROVE OutageIsTold OBVIOUS
    <2>1. TypeOK /\ GameInv /\ OutageInv BY DEF TellInv
    <2>2. Came \subseteq taken /\ skew \in Int /\ \A t \in taken : t.at \in Nat
      BY <2>1 DEF GameInv, TypeOK, Snapshot
    <2>3. \A t, u \in Came : t.at = u.at => t = u BY <2>1, <2>2 DEF GameInv
    <2>4. ASSUME Trusted, Came # {}
          PROVE  \E m \in Came : /\ \A t \in Came : t.at <= m.at
                                 /\ store.reachable = IF m.up THEN "yes" ELSE "no"
      BY <2>1, <2>4 DEF OutageInv, Newest
    <2>5. ASSUME Trusted, NEW s \in Came, \A t \in Came : s.at >= t.at
          PROVE  store.reachable = IF s.up THEN "yes" ELSE "no"
      <3>1. PICK m \in Came : /\ \A t \in Came : t.at <= m.at
                              /\ store.reachable = IF m.up THEN "yes" ELSE "no"
        BY <2>4, <2>5
      <3>2. m = s BY <2>2, <2>3, <2>5, <3>1
      <3>. QED BY <3>1, <3>2
    <2>6. ASSUME Trusted, Run = {} PROVE store.since = Never
      <3>1. CASE Came = {} BY <2>1, <2>6, <3>1 DEF OutageInv
      <3>2. CASE Came # {}
        <4>1. PICK m \in Came : /\ \A t \in Came : t.at <= m.at
                                /\ store.reachable = IF m.up THEN "yes" ELSE "no"
          BY <2>4, <2>6, <3>2
        <4>2. m.up
          <5>. SUFFICES ASSUME ~m.up PROVE FALSE OBVIOUS
          <5>1. \A t \in Came : t.at >= m.at => t = m BY <2>2, <2>3, <4>1
          <5>. QED BY <2>6, <5>1 DEF Run
        <4>. QED BY <2>1, <4>1, <4>2 DEF OutageInv
      <3>. QED BY <3>1, <3>2
    <2>7. ASSUME InOrder, NEW s \in Run, \A t \in Run : s.at <= t.at PROVE store.since = s.at + skew
      <3>1. Trusted /\ s \in Came /\ \A t \in Came : t.at >= s.at => ~t.up
        BY <2>7 DEF InOrder, Trusted, Run
      <3>2. PICK m \in Came : /\ \A t \in Came : t.at <= m.at
                              /\ store.reachable = IF m.up THEN "yes" ELSE "no"
        BY <2>4, <3>1
      <3>3. store.reachable = "no" BY <2>2, <3>1, <3>2
      <3>4. PICK f \in Run : store.since = f.at + skew /\ \A t \in Run : f.at <= t.at
        BY <2>1, <2>7, <3>3 DEF OutageInv
      <3>5. f \in Came /\ f.at \in Nat /\ s.at \in Nat BY <2>2, <3>1 DEF Run
      <3>6. f.at = s.at BY <2>7, <3>4, <3>5
      <3>. QED BY <3>4, <3>6
    <2>. QED BY <2>5, <2>6, <2>7 DEF OutageIsTold, Trusted, Run
  <1>. QED BY <1>1, <1>2, <1>3, PTL DEF Spec

-----------------------------------------------------------------------------
(* The loads of the game.                                                    *)

\* Of the generators, what was kept, unless the session changed, or what the snapshot carries.
LEMMA WhatGenerators ==
    ASSUME TypeOK, NEW s \in taken
    PROVE  /\ Ingest(s) => store'.generators \in
                              {IF SessionChanged(s) THEN NoReading ELSE store.generators,
                               [at |-> ObservedAt(s), taken |-> s.at]}
           /\ IngestUnreachable(s) => store'.generators = store.generators
  <1>1. ASSUME NEW b \in StoreType, NEW snap \in Snapshots
        PROVE  /\ Record(b, snap).generators \in {b.generators, [at |-> snap.at, taken |-> snap.taken]}
               /\ snap.reachable = "no" => Record(b, snap).generators = b.generators
    <2>. DEFINE state == [ReachabilityOf(b, snap) EXCEPT !.received = snap.received]
                reading == [at |-> snap.at, taken |-> snap.taken]
                parts == [p \in Part |-> IF p \in TakenParts(b, snap) THEN reading ELSE state.part[p]]
                others == state.restored \ TakenParts(b, snap)
                kept == IF KeepsGenerators(b, snap) THEN reading ELSE state.generators
    <2>1. state.generators = b.generators /\ state \in [{"reachable", "stateAt", "since", "received", "part",
                                                          "restored", "generators", "floor"} -> {state[f] : f \in DOMAIN state}]
      BY DEF StoreType, Snapshots, ReachabilityOf
    <2>2. Record(b, snap) = IF snap.reachable = "no" THEN state
                            ELSE [state EXCEPT !.part = parts, !.restored = others, !.generators = kept]
      BY DEF Record
    <2>. HIDE DEF state, parts, others, reading
    <2>3. Record(b, snap).generators = IF snap.reachable = "no" THEN state.generators ELSE kept
      BY <2>1, <2>2
    <2>. QED BY <2>1, <2>3 DEF reading
  <1>2. Snap(s) \in Snapshots /\ Snap(s).at = ObservedAt(s) /\ Snap(s).taken = s.at
        /\ Snap(s).reachable = IF s.up THEN "yes" ELSE "no"
    BY SnapIsSnapshot
  <1>3. /\ StoreBefore(s) \in StoreType
        /\ StoreBefore(s).generators = IF SessionChanged(s) THEN NoReading ELSE store.generators
    BY StoreBeforeFields
  <1>4. ASSUME Ingest(s)
        PROVE  store'.generators \in {IF SessionChanged(s) THEN NoReading ELSE store.generators,
                                      [at |-> ObservedAt(s), taken |-> s.at]}
    <2>1. store' = Record(StoreBefore(s), Snap(s)) BY <1>4 DEF Ingest
    <2>. QED BY <1>1, <1>2, <1>3, <2>1
  <1>5. ASSUME IngestUnreachable(s) PROVE store'.generators = store.generators
    <2>1. store' = Record(store, Snap(s)) /\ Snap(s).reachable = "no" /\ store \in StoreType
      BY <1>2, <1>5 DEF IngestUnreachable, TypeOK
    <2>. QED BY <1>1, <1>2, <2>1
  <1>. QED BY <1>4, <1>5

\* If no load is missed after a snapshot came, none was before, nor with it.
LEMMA NoLoadMissedNext ==
    ASSUME TypeOK, NEW s \in taken, Arrives(s), NoLoadMissed'
    PROVE  /\ NoLoadMissed
           /\ \A k \in DOMAIN arrived : LastUp(k) /\ s.up => s.load <= arrived[k].load + 1
  <1>1. /\ DOMAIN arrived = 1..Len(arrived) /\ Len(arrived) \in Nat
        /\ DOMAIN arrived' = 1..(Len(arrived) + 1) /\ arrived'[Len(arrived) + 1] = s
        /\ \A i \in DOMAIN arrived : i \in DOMAIN arrived' /\ arrived'[i] = arrived[i] /\ i < Len(arrived) + 1
    BY CameNext
  <1>2. \A i, j \in DOMAIN arrived' :
            i < j /\ arrived'[i].up /\ arrived'[j].up
            => arrived'[j].load <= arrived'[i].load + 1 \/ \E k \in (i + 1)..(j - 1) : arrived'[k].up
    BY DEF NoLoadMissed
  <1>3. NoLoadMissed
    <2>. SUFFICES ASSUME NEW i \in DOMAIN arrived, NEW j \in DOMAIN arrived,
                         i < j, arrived[i].up, arrived[j].up,
                         ~(arrived[j].load <= arrived[i].load + 1)
                  PROVE  \E k \in (i + 1)..(j - 1) : arrived[k].up
      BY DEF NoLoadMissed
    <2>1. PICK k \in (i + 1)..(j - 1) : arrived'[k].up BY <1>1, <1>2
    <2>2. k \in DOMAIN arrived BY <1>1
    <2>. QED BY <1>1, <2>1, <2>2
  <1>4. ASSUME NEW k \in DOMAIN arrived, LastUp(k), s.up PROVE s.load <= arrived[k].load + 1
    <2>1. Len(arrived) + 1 \in DOMAIN arrived' BY <1>1
    <2>2. \/ s.load <= arrived[k].load + 1
          \/ \E j \in (k + 1)..(Len(arrived) + 1 - 1) : arrived'[j].up
      BY <1>1, <1>2, <1>4, <2>1 DEF LastUp
    <2>3. \A j \in (k + 1)..(Len(arrived) + 1 - 1) : j \in DOMAIN arrived /\ k < j BY <1>1
    <2>. QED BY <1>1, <1>4, <2>2, <2>3 DEF LastUp
  <1>. QED BY <1>3, <1>4

\* A change of the load is seen in the session; without one there is none.
LEMMA ChangeIsSeen ==
    ASSUME TypeOK, GameInv, NEW s \in taken, NEW u \in taken, lastSave = u.save, u.at <= s.at,
           ObservedAt(s) >= lastStatusAt
    PROVE  /\ s.load = u.load => ~SessionChanged(s)
           /\ s.load <= u.load + 1 => s.load = u.load \/ SessionChanged(s)
  <1>1. s.load \in Nat /\ u.load \in Nat /\ s.save \in Save /\ u.save \in Save BY DEF TypeOK, Snapshot
  <1>2. /\ u.load <= s.load /\ (u.load = s.load => u.save = s.save)
        /\ u.load + 1 = s.load => Reloaded(u.save, s.save)
    BY DEF GameInv
  <1>3. u.save # NoSave /\ u.save.played \in Nat /\ s.save.played \in Nat BY <1>1, SaveAssumption
  <1>4. ASSUME s.load = u.load PROVE ~SessionChanged(s)
    <2>1. s.save = lastSave BY <1>2, <1>4
    <2>. QED BY <1>3, <2>1 DEF SessionChanged
  <1>5. ASSUME s.load <= u.load + 1, s.load # u.load PROVE SessionChanged(s)
    <2>1. u.load + 1 = s.load BY <1>1, <1>2, <1>5
    <2>2. Reloaded(u.save, s.save) BY <1>2, <2>1
    <2>. QED BY <1>3, <2>2 DEF SessionChanged, Reloaded
  <1>. QED BY <1>4, <1>5

\* What a snapshot of a game that answers does to the chart.
LEMMA WhatChart ==
    ASSUME TypeOK, NEW s \in taken, Ingest(s)
    PROVE  /\ (\A i, j \in DOMAIN chart : i < j => chart[i].slot < chart[j].slot) =>
                 \A i, j \in DOMAIN chart' : i < j => chart'[i].slot < chart'[j].slot
           /\ SessionChanged(s) \/ (\A i \in DOMAIN chart : chart[i].load = s.load) =>
                 \A i \in DOMAIN chart' : chart'[i].load = s.load
  <1>1. s \in Snapshot /\ ObservedAt(s) \in Int /\ s.load \in Nat BY SnapIsSnapshot DEF Snapshot
  <1>2. chart \in Seq(Point) /\ Len(chart) <= Capacity BY DEF TypeOK, Point
  <1>3. Capacity \in Nat /\ Interval \in Nat \ {0} BY TimeAssumption
  <1>. DEFINE slot == (ObservedAt(s) \div Interval) * Interval
  <1>4. slot \in Int BY <1>1, <1>3
  <1>5. ChartBefore(s) \in Seq(Point) /\ Len(ChartBefore(s)) <= Capacity BY <1>2, <1>3 DEF ChartBefore
  <1>6. chart' = IF "power" \in s.parts THEN AppendPoint(ChartBefore(s), slot, s.load) ELSE ChartBefore(s)
    BY DEF Ingest, IngestPower
  <1>. HIDE DEF slot
  <1>7. /\ (\A i, j \in DOMAIN ChartBefore(s) : i < j => ChartBefore(s)[i].slot < ChartBefore(s)[j].slot) =>
              \A i, j \in DOMAIN chart' : i < j => chart'[i].slot < chart'[j].slot
        /\ (\A i \in DOMAIN ChartBefore(s) : ChartBefore(s)[i].load = s.load) =>
              \A i \in DOMAIN chart' : chart'[i].load = s.load
    BY <1>1, <1>4, <1>5, <1>6, AppendedPoint
  <1>8. ChartBefore(s) = chart \/ ChartBefore(s) = <<>> BY DEF ChartBefore
  <1>9. SessionChanged(s) => ChartBefore(s) = <<>> BY DEF ChartBefore
  <1>10. DOMAIN (<<>>) = {} OBVIOUS
  <1>11. ASSUME ChartBefore(s) = <<>>
         PROVE  /\ \A i, j \in DOMAIN chart' : i < j => chart'[i].slot < chart'[j].slot
                /\ \A i \in DOMAIN chart' : chart'[i].load = s.load
    BY <1>7, <1>10, <1>11
  <1>. QED BY <1>7, <1>8, <1>9, <1>11

\* The one the loads rest on.
ApartInv == TypeOK /\ GameInv /\ LoadInv

\* Every step keeps the session, the chart and the generators of one load.
LEMMA LoadStays == ASSUME ApartInv, [Next]_vars PROVE ApartInv'
  <1>. USE DEF gameVars, sessionVars, powerVars
  <1>1. TypeOK /\ GameInv /\ LoadInv /\ TypeOK' /\ GameInv' BY StaysTyped, GameStays DEF ApartInv
  <1>2. ASSUME UNCHANGED <<skew, redated, arrived, store, lastSave, lastStatusAt, chart, rows>>,
               taken \subseteq taken'
        PROVE  LoadInv'
    BY <1>1, <1>2 DEF LoadInv, InOrder, LastUp, NoLoadMissed
  <1>3. ASSUME NEW s \in taken, Ingest(s) \/ IngestUnreachable(s) PROVE LoadInv'
    <2>1. /\ Arrives(s) /\ skew' = skew /\ taken' = taken /\ s \in Snapshot
          /\ \A p \in Part :
                store'.part[p] = IF s.up /\ p \in s.parts /\ ObservedAt(s) >= store.part[p].at
                                 THEN [at |-> ObservedAt(s), taken |-> s.at] ELSE store.part[p]
      BY <1>1, <1>3, WhatIsStored, SnapIsSnapshot
    <2>0. Len(arrived) + 1 \in Nat BY <1>1 DEF TypeOK
    <2>. PICK n \in Nat : n = Len(arrived) + 1 BY <2>0
    <2>2. /\ DOMAIN arrived = 1..Len(arrived) /\ Len(arrived) \in Nat
          /\ DOMAIN arrived' = 1..n /\ arrived'[n] = s /\ n \in DOMAIN arrived' /\ n \notin DOMAIN arrived
          /\ \A i \in DOMAIN arrived : i \in DOMAIN arrived' /\ arrived'[i] = arrived[i] /\ i < n
          /\ \A i \in DOMAIN arrived' : i = n \/ i \in DOMAIN arrived
      BY <1>1, <2>1, CameNext
    <2>3. InOrder' => InOrder /\ (\A t \in Came : t.at <= s.at) /\ ObservedAt(s) = s.at + skew /\ 0 <= ObservedAt(s)
      BY <1>1, <2>1, InOrderNext, DatedByTheAgent
    <2>4. \A i \in DOMAIN arrived : arrived[i] \in Came /\ arrived[i] \in taken BY <1>1 DEF Came, GameInv
    <2>5. skew \in Int /\ s.at \in Nat /\ \A t \in taken : t.at \in Nat BY <1>1 DEF TypeOK, Snapshot
    <2>6. (\A i, j \in DOMAIN chart : i < j => chart[i].slot < chart[j].slot)'
      BY <1>1, <1>3, WhatChart DEF LoadInv, IngestUnreachable
    <2>7. CASE ~s.up
      <3>1. /\ UNCHANGED <<lastSave, lastStatusAt, chart, rows>> /\ store'.generators = store.generators
            /\ \A p \in Part : store'.part[p] = store.part[p]
        BY <1>1, <1>3, <2>1, <2>7, WhatGenerators DEF Ingest, IngestUnreachable
      <3>2. (InOrder => \A i \in DOMAIN rows :
                           \E t \in taken : t.at = rows[i].taken /\ t.save.name = rows[i].session)'
        BY <1>1, <2>1, <2>3, <3>1 DEF LoadInv
      <3>3. (\A i \in DOMAIN arrived' : ~arrived'[i].up) <=> \A i \in DOMAIN arrived : ~arrived[i].up
        BY <2>2, <2>7
      <3>4. ASSUME InOrder', \A i \in DOMAIN arrived : ~arrived[i].up
            PROVE  /\ lastSave' = NoSave /\ lastStatusAt' = Never /\ chart' = <<>>
                   /\ store'.generators = NoReading
                   /\ "status" \in Part => store'.part["status"] = NoReading
        BY <1>1, <2>3, <3>1, <3>4 DEF LoadInv
      <3>5. ASSUME InOrder', ~\A i \in DOMAIN arrived : ~arrived[i].up
            PROVE  \E k \in DOMAIN arrived' :
                     /\ LastUp(k)'
                     /\ lastSave' = arrived'[k].save /\ lastStatusAt' = arrived'[k].at + skew'
                     /\ store'.part["status"] = [at |-> lastStatusAt', taken |-> arrived'[k].at]
                     /\ NoLoadMissed' =>
                          /\ \A i \in DOMAIN chart' : chart'[i].load = arrived'[k].load
                          /\ store'.generators # NoReading =>
                               \E g \in taken' : g.at = store'.generators.taken /\ g.load = arrived'[k].load
        <4>1. PICK k \in DOMAIN arrived :
                     /\ LastUp(k)
                     /\ lastSave = arrived[k].save /\ lastStatusAt = arrived[k].at + skew
                     /\ store.part["status"] = [at |-> lastStatusAt, taken |-> arrived[k].at]
                     /\ NoLoadMissed =>
                          /\ \A i \in DOMAIN chart : chart[i].load = arrived[k].load
                          /\ store.generators # NoReading =>
                               \E g \in taken : g.at = store.generators.taken /\ g.load = arrived[k].load
          BY <1>1, <2>3, <3>5 DEF LoadInv
        <4>2. LastUp(k)' BY <2>2, <2>7, <4>1 DEF LastUp
        <4>3. "status" \in Part
          <5>1. arrived[k] \in taken /\ arrived[k].up BY <2>4, <4>1 DEF LastUp
          <5>2. "status" \in arrived[k].parts BY <1>1, <5>1 DEF GameInv
          <5>. QED BY <1>1, <5>1, <5>2 DEF TypeOK, Snapshot
        <4>4. NoLoadMissed' => NoLoadMissed BY <1>1, <2>1, NoLoadMissedNext
        <4>5. arrived'[k] = arrived[k] /\ k \in DOMAIN arrived' BY <2>2
        <4>. QED BY <2>1, <3>1, <4>1, <4>2, <4>3, <4>4, <4>5
      <3>. QED BY <2>6, <3>2, <3>3, <3>4, <3>5 DEF LoadInv
    <2>8. CASE s.up
      <3>1. Ingest(s) BY <1>3, <2>8 DEF IngestUnreachable
      <3>2. "status" \in s.parts /\ "status" \in Part
        <4>1. "status" \in s.parts BY <1>1, <2>8 DEF GameInv
        <4>. QED BY <2>1, <4>1 DEF Snapshot
      <3>3. LastUp(n)' BY <2>2, <2>8 DEF LastUp
      <3>4. ASSUME InOrder'
            PROVE  /\ lastSave' = s.save /\ lastStatusAt' = s.at + skew
                   /\ store'.part["status"] = [at |-> lastStatusAt', taken |-> s.at]
                   /\ NoLoadMissed' =>
                        /\ \A i \in DOMAIN chart' : chart'[i].load = s.load
                        /\ store'.generators # NoReading =>
                             \E g \in taken' : g.at = store'.generators.taken /\ g.load = s.load
        <4>1. InOrder /\ ObservedAt(s) = s.at + skew /\ 0 <= ObservedAt(s) BY <2>3, <3>4
        <4>2. CASE \A i \in DOMAIN arrived : ~arrived[i].up
          <5>1. /\ lastSave = NoSave /\ lastStatusAt = Never /\ chart = <<>> /\ store.generators = NoReading
                /\ store.part["status"] = NoReading
            BY <1>1, <3>2, <4>1, <4>2 DEF LoadInv
          <5>2. ObservedAt(s) >= lastStatusAt /\ ObservedAt(s) >= store.part["status"].at
            BY <2>5, <4>1, <5>1 DEF Never, NoReading
          <5>3. lastSave' = s.save /\ lastStatusAt' = ObservedAt(s) BY <3>1, <5>2 DEF Ingest
          <5>4. ~SessionChanged(s) BY <5>1 DEF SessionChanged
          <5>5. \A i \in DOMAIN chart' : chart'[i].load = s.load
            <6>1. \A i \in DOMAIN chart : chart[i].load = s.load BY <5>1
            <6>. QED BY <1>1, <3>1, <6>1, WhatChart
          <5>6. store'.generators \in {NoReading, [at |-> ObservedAt(s), taken |-> s.at]}
            BY <1>1, <3>1, <5>1, <5>4, WhatGenerators
          <5>7. store'.generators # NoReading => store'.generators.taken = s.at BY <5>6
          <5>. QED BY <2>1, <2>8, <3>2, <4>1, <5>2, <5>3, <5>5, <5>7
        <4>3. CASE ~\A i \in DOMAIN arrived : ~arrived[i].up
          <5>1. PICK k \in DOMAIN arrived :
                     /\ LastUp(k)
                     /\ lastSave = arrived[k].save /\ lastStatusAt = arrived[k].at + skew
                     /\ store.part["status"] = [at |-> lastStatusAt, taken |-> arrived[k].at]
                     /\ NoLoadMissed =>
                          /\ \A i \in DOMAIN chart : chart[i].load = arrived[k].load
                          /\ store.generators # NoReading =>
                               \E g \in taken : g.at = store.generators.taken /\ g.load = arrived[k].load
            BY <1>1, <4>1, <4>3 DEF LoadInv
          <5>2. arrived[k] \in taken /\ arrived[k].at <= s.at /\ arrived[k].at \in Nat
            BY <2>3, <2>4, <2>5, <3>4
          <5>3. ObservedAt(s) >= lastStatusAt /\ ObservedAt(s) >= store.part["status"].at
            BY <2>5, <4>1, <5>1, <5>2
          <5>4. lastSave' = s.save /\ lastStatusAt' = ObservedAt(s) BY <3>1, <5>3 DEF Ingest
          <5>5. ASSUME NoLoadMissed'
                PROVE  /\ \A i \in DOMAIN chart' : chart'[i].load = s.load
                       /\ store'.generators # NoReading =>
                            \E g \in taken' : g.at = store'.generators.taken /\ g.load = s.load
            <6>1. NoLoadMissed /\ s.load <= arrived[k].load + 1
              BY <1>1, <2>1, <2>8, <5>1, <5>5, NoLoadMissedNext
            <6>2. s.load = arrived[k].load \/ SessionChanged(s)
              BY <1>1, <5>1, <5>2, <5>3, <6>1, ChangeIsSeen
            <6>3. \A i \in DOMAIN chart' : chart'[i].load = s.load
              BY <1>1, <3>1, <5>1, <6>1, <6>2, WhatChart
            <6>4. store'.generators \in {IF SessionChanged(s) THEN NoReading ELSE store.generators,
                                         [at |-> ObservedAt(s), taken |-> s.at]}
              BY <1>1, <3>1, WhatGenerators
            <6>5. ASSUME store'.generators # NoReading
                  PROVE  \E g \in taken' : g.at = store'.generators.taken /\ g.load = s.load
              <7>1. CASE store'.generators = [at |-> ObservedAt(s), taken |-> s.at] BY <2>1, <7>1
              <7>2. CASE store'.generators = store.generators /\ ~SessionChanged(s)
                BY <2>1, <5>1, <6>1, <6>2, <6>5, <7>2
              <7>. QED BY <6>4, <6>5, <7>1, <7>2
            <6>. QED BY <6>3, <6>5
          <5>. QED BY <2>1, <2>8, <3>2, <4>1, <5>3, <5>4, <5>5
        <4>. QED BY <4>2, <4>3
      <3>5. ASSUME InOrder'
            PROVE  \A i \in DOMAIN rows' :
                      \E t \in taken' : t.at = rows'[i].taken /\ t.save.name = rows'[i].session
        <4>1. CASE rows' = rows BY <1>1, <2>1, <2>3, <3>5, <4>1 DEF LoadInv
        <4>2. CASE rows' # rows
          <5>1. PICK r \in HistoryRow : rows' = Append(rows, r) /\ r.taken = s.at /\ r.session = lastSave'.name
            BY <1>1, <1>3, <4>2, WhatIsRecorded
          <5>2. rows \in Seq(HistoryRow) BY <1>1 DEF TypeOK, HistoryRow
          <5>. TAKE i \in DOMAIN rows'
          <5>3. CASE i \in DOMAIN rows
            <6>1. rows'[i] = rows[i] BY <5>1, <5>2, <5>3
            <6>. QED BY <1>1, <2>1, <2>3, <3>5, <5>3, <6>1 DEF LoadInv
          <5>4. CASE i \notin DOMAIN rows
            <6>1. rows'[i] = r BY <5>1, <5>2, <5>4
            <6>. QED BY <2>1, <3>4, <3>5, <5>1, <6>1
          <5>. QED BY <5>3, <5>4
        <4>. QED BY <4>1, <4>2
      <3>6. ~\A i \in DOMAIN arrived' : ~arrived'[i].up BY <2>2, <2>8
      <3>7. (InOrder =>
              \E k \in DOMAIN arrived :
                /\ LastUp(k)
                /\ lastSave = arrived[k].save /\ lastStatusAt = arrived[k].at + skew
                /\ store.part["status"] = [at |-> lastStatusAt, taken |-> arrived[k].at]
                /\ NoLoadMissed =>
                     /\ \A i \in DOMAIN chart : chart[i].load = arrived[k].load
                     /\ store.generators # NoReading =>
                          \E g \in taken : g.at = store.generators.taken /\ g.load = arrived[k].load)'
        BY <2>1, <2>2, <3>3, <3>4
      <3>. QED BY <2>6, <3>5, <3>6, <3>7 DEF LoadInv
    <2>. QED BY <2>7, <2>8
  <1>4. LoadInv'
    <2>1. CASE Tick BY <1>2, <2>1 DEF Tick, arrivalVars
    <2>2. ASSUME NEW n \in Save, Load(n) PROVE LoadInv' BY <1>2, <2>2 DEF Load, arrivalVars
    <2>3. ASSUME NEW k \in Kind, Sample(k) PROVE LoadInv'
      <3>1. taken \subseteq taken' BY <2>3 DEF Sample
      <3>. QED BY <1>2, <2>3, <3>1 DEF Sample, arrivalVars
    <2>4. CASE UNCHANGED vars BY <1>2, <2>4 DEF vars, arrivalVars
    <2>. QED BY <1>3, <2>1, <2>2, <2>3, <2>4 DEF Next
  <1>. QED BY <1>1, <1>4 DEF ApartInv

\* LoadsStayApart for any saves and any number of loads: chart, history and generators of
\* agentIngest.ts never mix two loads, if snapshots come in order and no load is missed.
THEOREM LoadsDoNotMix == Spec => []LoadsStayApart
  <1>1. Init => ApartInv
    <2>. SUFFICES ASSUME Init PROVE ApartInv OBVIOUS
    <2>1. /\ arrived = <<>> /\ chart = <<>> /\ rows = <<>> /\ lastSave = NoSave /\ lastStatusAt = Never
          /\ store.generators = NoReading /\ \A p \in Part : store.part[p] = NoReading
      BY DEF Init, EmptyStore
    <2>. QED BY <2>1, InitiallyTyped, GameInitially DEF ApartInv, LoadInv
  <1>2. ApartInv /\ [Next]_vars => ApartInv' BY LoadStays
  <1>3. ApartInv => LoadsStayApart
    <2>. SUFFICES ASSUME ApartInv PROVE LoadsStayApart OBVIOUS
    <2>1. TypeOK /\ GameInv /\ LoadInv BY DEF ApartInv
    <2>2. \A i \in DOMAIN arrived : arrived[i] \in taken BY <2>1 DEF Came, GameInv
    <2>3. ASSUME InOrder, NoLoadMissed
          PROVE  /\ \A i, j \in DOMAIN chart : chart[i].load = chart[j].load
                 /\ store.generators # NoReading =>
                      \E g, s \in taken : /\ g.at = store.generators.taken
                                          /\ s.at = store.part["status"].taken
                                          /\ g.load = s.load
      <3>1. CASE \A i \in DOMAIN arrived : ~arrived[i].up
        <4>1. chart = <<>> /\ store.generators = NoReading BY <2>1, <2>3, <3>1 DEF LoadInv
        <4>. QED BY <4>1
      <3>2. CASE ~\A i \in DOMAIN arrived : ~arrived[i].up
        <4>1. PICK k \in DOMAIN arrived :
                /\ store.part["status"] = [at |-> lastStatusAt, taken |-> arrived[k].at]
                /\ \A i \in DOMAIN chart : chart[i].load = arrived[k].load
                /\ store.generators # NoReading =>
                     \E g \in taken : g.at = store.generators.taken /\ g.load = arrived[k].load
          BY <2>1, <2>3, <3>2 DEF LoadInv
        <4>. QED BY <2>2, <4>1
      <3>. QED BY <3>1, <3>2
    <2>. QED BY <2>1, <2>3 DEF LoadsStayApart, LoadInv
  <1>. QED BY <1>1, <1>2, <1>3, PTL DEF Spec
=============================================================================
