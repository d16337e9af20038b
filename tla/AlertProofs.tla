------------------------------- MODULE AlertProofs -------------------------------
(***************************************************************************)
(* Theorems about alerts: first the outbox and its senders (AlertDelivery, *)
(* for any number of processes, rows, targets and times, as long as a      *)
(* tick's budget, its last call and its releases fit in the lease), then   *)
(* the rules of a server (AlertEvaluator, for any subjects and times).     *)
(***************************************************************************)
EXTENDS AlertDelivery, AlertEvaluator, FiniteSetTheorems, FunctionTheorems, SequenceTheorems, TLAPS

USE DEF vars, boundVars

\* A tick starts no call once its budget is used up; its last call and the releases still fit.
InTime == Budget + MaxCall + (Batch - 1) * MaxRelease <= Lease

Accepts(p, r) == sender[p].pc = "answered" /\ sender[p].answer = "sent" /\ Doing(p) = r

\* The row an open transaction queues is not there yet.
Queueing == writing # 0 => outbox[writing].status = "none"

\* A row is claimed once: by one process, and by it once.
Distinct ==
    \A p \in Process : \A i, j \in 1 .. Len(sender[p].claims) : i # j =>
        sender[p].claims[i].row # sender[p].claims[j].row
Apart ==
    \A p, q \in Process : p # q =>
        \A i \in 1 .. Len(sender[p].claims), j \in 1 .. Len(sender[q].claims) :
            sender[p].claims[i].row # sender[q].claims[j].row

\* Its lease lasts at least what is left of it by the time its tick has taken.
Leased ==
    \A p \in Process : \A i \in 1 .. Len(sender[p].claims) :
        LET r == sender[p].claims[i].row
        IN  /\ outbox[r].status # "none"
            /\ Pending(r) => outbox[r].wait >= Lease - sender[p].elapsed

\* How long a tick has taken in each of its phases.
TimeOf(s) ==
    LET n == Len(s.claims)
    IN  /\ s.pc = "idle" => s.elapsed = 0
        /\ s.pc = "next" => s.elapsed <= Budget - 1 + MaxCall /\ n <= Batch /\ (s.elapsed > 0 => n < Batch)
        /\ s.pc \in {"sending", "answered"} =>
               s.elapsed <= Budget - 1 + s.spent /\ s.spent <= MaxCall /\ n <= Batch
        /\ s.pc = "releasing" =>
               /\ s.elapsed <= Budget - 1 + MaxCall + (Batch - 1 - n) * MaxRelease + s.spent
               /\ s.spent <= MaxRelease /\ n < Batch
Timed == \A p \in Process : TimeOf(sender[p])

\* A message accepted without a loss is a row no longer pending, or about to be written.
Unsent(r) == outbox[r].posts <= outbox[r].lost
Counted ==
    /\ \A r \in Row : Pending(r) /\ (\A p \in Process : ~Accepts(p, r)) => Unsent(r)
    /\ \A p \in Process : \A i \in 1 .. Len(sender[p].claims) :
           ~Accepts(p, sender[p].claims[i].row) => Unsent(sender[p].claims[i].row)

IInv == TypeOK /\ Queueing /\ Distinct /\ Apart /\ Leased /\ Timed /\ Counted /\ RepeatsOnlyLosses

-----------------------------------------------------------------------------
Claim1 == [row : Row, attempts : Nat \ {0}]

LEMMA Constants ==
    /\ {Lease, Budget, Batch, MaxCall, Base, MaxDelay, Recheck, DeadAfter, MaxRow, MaxRelease} \subseteq Nat
    /\ Lease \in Nat \ {0} /\ Budget \in Nat \ {0} /\ Batch \in Nat \ {0} /\ MaxCall \in Nat \ {0}
    /\ Recheck \in Nat /\ MaxRow \in Nat /\ MaxRelease \in Nat
  BY TimesAssumption

LEMMA Tails ==
    ASSUME NEW S, NEW s \in Seq(S), s # <<>>
    PROVE  /\ Len(s) \in Nat \ {0} /\ s[1] \in S
           /\ Tail(s) \in Seq(S) /\ Len(Tail(s)) = Len(s) - 1
           /\ \A i \in 1 .. Len(s) - 1 : Tail(s)[i] = s[i + 1]
           /\ Tail(s) = <<>> <=> Len(s) = 1
  <1>1. Len(s) \in Nat \ {0} /\ s[1] \in S BY LenProperties, ElementOfSeq, EmptySeq
  <1>2. Tail(s) \in Seq(S) /\ Len(Tail(s)) = Len(s) - 1 /\ \A i \in 1 .. Len(s) - 1 : Tail(s)[i] = s[i + 1]
    BY <1>1, HeadTailProperties
  <1>3. Tail(s) = <<>> <=> Len(Tail(s)) = 0 BY <1>2, EmptySeq
  <1>. QED BY <1>1, <1>2, <1>3

\* A busy tick has a claim in hand.
LEMMA Busy ==
    ASSUME TypeOK, NEW p \in Process, sender[p].pc # "idle"
    PROVE  /\ sender[p].claims \in Seq(Claim1) /\ sender[p].claims # <<>> /\ Len(sender[p].claims) \in Nat \ {0}
           /\ Claimed(p) \in Claim1 /\ Doing(p) \in Row /\ Doing(p) = sender[p].claims[1].row /\ Aim(p) \in Target
           /\ sender[p] \in TickType /\ outbox[Doing(p)] \in OutboxRow
  <1>1. sender[p].claims \in Seq(Claim1) /\ sender[p].claims # <<>> BY DEF TypeOK, TickType, Claim1
  <1>2. Len(sender[p].claims) \in Nat \ {0} /\ sender[p].claims[1] \in Claim1 BY <1>1, Tails
  <1>. QED BY <1>1, <1>2, TargetsAssumption DEF TypeOK, Claimed, Doing, Aim, Claim1

LEMMA BehindIs ==
    ASSUME NEW s \in TickType, s.claims # <<>>
    PROVE  /\ Behind(s) \in TickType
           /\ Behind(s).pc = "idle" <=> Behind(s).claims = <<>>
           /\ Len(s.claims) = 1 => Behind(s) = NoTick
           /\ Len(s.claims) # 1 =>
                  /\ Behind(s).pc = "next" /\ Behind(s).claims = Tail(s.claims)
                  /\ Behind(s).elapsed = s.elapsed /\ Behind(s) # NoTick
  <1>1. s.claims \in Seq(Claim1) BY DEF TickType, Claim1
  <1>2. Tail(s.claims) \in Seq(Claim1) /\ (Tail(s.claims) = <<>> <=> Len(s.claims) = 1) BY <1>1, Tails
  <1>3. NoTick \in TickType /\ NoTick.pc = "idle" /\ NoTick.claims = <<>>
    BY EmptySeq DEF NoTick, TickType
  <1>4. CASE Len(s.claims) = 1 BY <1>3, <1>4 DEF Behind
  <1>5. CASE Len(s.claims) # 1
    <2>1. Behind(s) = [s EXCEPT !.pc = "next", !.claims = Tail(@), !.spent = 0, !.answer = "none", !.after = 0]
      BY <1>5 DEF Behind
    <2>2. Behind(s) = [pc |-> "next", claims |-> Tail(s.claims), elapsed |-> s.elapsed, spent |-> 0,
                       answer |-> "none", after |-> 0, paused |-> s.paused, hostPaused |-> s.hostPaused]
      BY <2>1 DEF TickType
    <2>3. Behind(s) \in TickType BY <2>2, <1>2 DEF TickType, Claim1
    <2>4. /\ Behind(s).pc = "next" /\ Behind(s).claims = Tail(s.claims)
          /\ Behind(s).elapsed = s.elapsed /\ Behind(s) # NoTick
      BY <2>2 DEF NoTick
    <2>. QED BY <1>2, <1>5, <2>3, <2>4
  <1>. QED BY <1>4, <1>5

LEMMA Product ==
    /\ \A n \in Nat : (Batch - 1 - n) * MaxRelease \in Int
    /\ \A n \in Nat \ {0} : (Batch - 1 - (n - 1)) * MaxRelease = (Batch - 1 - n) * MaxRelease + MaxRelease
    /\ \A n \in Nat : n < Batch => (Batch - 1 - n) * MaxRelease >= 0
    /\ \A n \in Nat \ {0} : (Batch - 1 - n) * MaxRelease + MaxRelease <= (Batch - 1) * MaxRelease
  BY Constants

LEMMA Adds ==
    /\ \A e, s, x, y \in Int :
           e <= Budget - 1 + MaxCall + x + s /\ s <= MaxRelease /\ x + MaxRelease <= y
           /\ Budget + MaxCall + y <= Lease => e < Lease
    /\ \A e, s, x, y \in Int :
           e <= Budget - 1 + MaxCall + x + s /\ s <= MaxRelease /\ y = x + MaxRelease
           => e <= Budget - 1 + MaxCall + y + 0
  BY Constants

\* Within its lease, and so none of its rows is due.
LEMMA WithinLease == ASSUME InTime, TypeOK, Timed, NEW p \in Process PROVE sender[p].elapsed < Lease
  <1>1. TimeOf(sender[p]) /\ sender[p].elapsed \in Nat /\ sender[p].spent \in Nat BY DEF TypeOK, TickType, Timed
  <1>2. (Batch - 1) * MaxRelease \in Nat /\ Budget + MaxCall <= Lease BY Product, Constants DEF InTime
  <1>3. CASE sender[p].pc = "idle" BY <1>1, <1>3, Constants DEF TimeOf
  <1>4. CASE sender[p].pc = "next" BY <1>1, <1>2, <1>4, Constants DEF TimeOf
  <1>5. CASE sender[p].pc \in {"sending", "answered"} BY <1>1, <1>2, <1>5, Constants DEF TimeOf
  <1>6. CASE sender[p].pc = "releasing"
    <2>1. Len(sender[p].claims) \in Nat \ {0} BY <1>6, Busy
    <2>2. /\ (Batch - 1 - Len(sender[p].claims)) * MaxRelease + MaxRelease <= (Batch - 1) * MaxRelease
          /\ (Batch - 1 - Len(sender[p].claims)) * MaxRelease \in Int
      BY <2>1, Product
    <2>3. /\ sender[p].elapsed <=
                 Budget - 1 + MaxCall + (Batch - 1 - Len(sender[p].claims)) * MaxRelease + sender[p].spent
          /\ sender[p].spent <= MaxRelease
      BY <1>1, <1>6 DEF TimeOf
    <2>. QED BY <1>1, <1>2, <2>2, <2>3, Adds DEF InTime
  <1>. QED BY <1>3, <1>4, <1>5, <1>6 DEF TypeOK, TickType

LEMMA ClaimedIsNotDue ==
    ASSUME InTime, TypeOK, Timed, Leased, NEW p \in Process, NEW i \in 1 .. Len(sender[p].claims)
    PROVE  ~Due(sender[p].claims[i].row)
  <1>1. sender[p].elapsed < Lease BY WithinLease
  <1>2. sender[p].claims \in Seq(Claim1) /\ sender[p].elapsed \in Nat BY DEF TypeOK, TickType, Claim1
  <1>3. sender[p].claims[i] \in Claim1 BY <1>2, ElementOfSeq
  <1>4. sender[p].claims[i].row \in Row BY <1>3 DEF Claim1
  <1> DEFINE r == sender[p].claims[i].row
  <1>5. Pending(r) => outbox[r].wait >= Lease - sender[p].elapsed BY DEF Leased
  <1>6. outbox[r].wait \in Int BY <1>4 DEF TypeOK, OutboxRow
  <1>. HIDE DEF r
  <1>7. Pending(r) => outbox[r].wait > 0 BY <1>1, <1>2, <1>5, <1>6, Constants
  <1>. QED BY <1>6, <1>7 DEF Due, r

-----------------------------------------------------------------------------
\* What a step of a tick leaves of its claims: all of them, or all but the first.
Keeps(p, k) ==
    /\ \A q \in Process \ {p} : sender'[q] = sender[q]
    /\ \A i \in 1 .. Len(sender'[p].claims) :
           i + k \in 1 .. Len(sender[p].claims) /\ sender'[p].claims[i] = sender[p].claims[i + k]
    /\ Len(sender'[p].claims) > 0 => sender'[p].elapsed = sender[p].elapsed

\* What a statement about row d, or about a target, writes.
Written(o, d) ==
    /\ o \in [Row -> OutboxRow]
    /\ \A r \in Row :
          /\ o[r].posts = outbox[r].posts /\ o[r].lost = outbox[r].lost
          /\ o[r].status = "none" <=> outbox[r].status = "none"
          /\ o[r].status = "pending" =>
                outbox[r].status = "pending" /\ (o[r].wait = outbox[r].wait \/ r = d)

\* Among the claims of all processes a row is in one place.
LEMMA OnlyThere ==
    ASSUME TypeOK, Distinct, Apart, NEW p \in Process, sender[p].pc # "idle",
           NEW q \in Process, NEW i \in 1 .. Len(sender[q].claims), sender[q].claims[i].row = Doing(p)
    PROVE  q = p /\ i = 1
  <1>1. Doing(p) = sender[p].claims[1].row /\ 1 \in 1 .. Len(sender[p].claims) BY Busy
  <1>2. q = p BY <1>1 DEF Apart
  <1>. QED BY <1>1, <1>2 DEF Distinct

LEMMA RowsOf ==
    ASSUME NEW c \in Seq(Claim1)
    PROVE  Len(c) \in Nat /\ \A i \in 1 .. Len(c) : c[i] \in Claim1 /\ c[i].row \in Row
  <1>1. \A i \in 1 .. Len(c) : c[i] \in Claim1 BY ElementOfSeq
  <1>. QED BY <1>1, LenProperties DEF Claim1

LEMMA RowsOfClaims ==
    ASSUME TypeOK, NEW p \in Process
    PROVE  /\ Len(sender[p].claims) \in Nat
           /\ \A i \in 1 .. Len(sender[p].claims) : sender[p].claims[i].row \in Row
  <1>1. sender[p].claims \in Seq(Claim1) BY DEF TypeOK, TickType, Claim1
  <1>. QED BY <1>1, RowsOf

\* A step that keeps or advances the claims of its tick, and touches only the row it is about.
LEMMA KeepsClaims ==
    ASSUME TypeOK, TypeOK', Queueing, Distinct, Apart, Leased, NEW p \in Process, NEW k \in {0, 1},
           sender[p].pc # "idle", Keeps(p, k), writing' = writing,
           \A r \in Row : /\ outbox'[r].status = "none" <=> outbox[r].status = "none"
                          /\ Pending(r)' => /\ Pending(r)
                                            /\ outbox'[r].wait = outbox[r].wait \/ (k = 1 /\ r = Doing(p))
    PROVE  Queueing' /\ Distinct' /\ Apart' /\ Leased'
  <1>0. \A q \in Process : /\ Len(sender[q].claims) \in Nat /\ Len(sender'[q].claims) \in Nat
                           /\ \A i \in 1 .. Len(sender[q].claims) : sender[q].claims[i].row \in Row
                           /\ \A i \in 1 .. Len(sender'[q].claims) : sender'[q].claims[i].row \in Row
    <2>1. \A q \in Process : sender[q].claims \in Seq(Claim1) /\ sender'[q].claims \in Seq(Claim1)
      BY DEF TypeOK, TickType, Claim1
    <2>. QED BY <2>1, RowsOf
  <1> DEFINE From(q, i) == IF q = p THEN i + k ELSE i
  <1>1. \A q \in Process : \A i \in 1 .. Len(sender'[q].claims) :
            /\ From(q, i) \in 1 .. Len(sender[q].claims)
            /\ sender'[q].claims[i] = sender[q].claims[From(q, i)]
            /\ sender'[q].elapsed = sender[q].elapsed
    BY <1>0 DEF Keeps
  <1>2. \A q \in Process : \A i, j \in 1 .. Len(sender'[q].claims) : i # j => From(q, i) # From(q, j)
    BY <1>0
  <1>3. Queueing' BY DEF Queueing, TypeOK
  <1>4. Distinct'
    <2>1. ASSUME NEW q \in Process, NEW i \in 1 .. Len(sender'[q].claims),
                 NEW j \in 1 .. Len(sender'[q].claims), i # j
          PROVE  sender'[q].claims[i].row # sender'[q].claims[j].row
      <3>1. From(q, i) # From(q, j) BY <1>2, <2>1
      <3>2. sender[q].claims[From(q, i)].row # sender[q].claims[From(q, j)].row BY <1>1, <3>1 DEF Distinct
      <3>. QED BY <1>1, <3>2
    <2>. QED BY <2>1 DEF Distinct
  <1>5. Apart'
    <2>1. ASSUME NEW q \in Process, NEW u \in Process, q # u,
                 NEW i \in 1 .. Len(sender'[q].claims), NEW j \in 1 .. Len(sender'[u].claims)
          PROVE  sender'[q].claims[i].row # sender'[u].claims[j].row
      <3>1. From(q, i) \in 1 .. Len(sender[q].claims) /\ From(u, j) \in 1 .. Len(sender[u].claims) BY <1>1
      <3>2. sender[q].claims[From(q, i)].row # sender[u].claims[From(u, j)].row BY <2>1, <3>1 DEF Apart
      <3>. QED BY <1>1, <3>2
    <2>. QED BY <2>1 DEF Apart
  <1>6. Leased'
    <2>1. ASSUME NEW q \in Process, NEW i \in 1 .. Len(sender'[q].claims)
          PROVE  /\ outbox'[sender'[q].claims[i].row].status # "none"
                 /\ outbox'[sender'[q].claims[i].row].status = "pending" =>
                        outbox'[sender'[q].claims[i].row].wait >= Lease - sender'[q].elapsed
      <3> DEFINE r == sender[q].claims[From(q, i)].row
      <3>1. From(q, i) \in 1 .. Len(sender[q].claims) /\ r \in Row BY <1>0, <1>1
      <3>2. k = 1 => r # Doing(p) BY <1>0, <3>1, OnlyThere
      <3>3. outbox[r].status # "none" /\ (Pending(r) => outbox[r].wait >= Lease - sender[q].elapsed)
        BY <3>1 DEF Leased
      <3>4. sender'[q].claims[i].row = r /\ sender'[q].elapsed = sender[q].elapsed BY <1>1
      <3>. HIDE DEF r
      <3>. QED BY <3>1, <3>2, <3>3, <3>4 DEF Pending
    <2>. QED BY <2>1 DEF Leased, Pending
  <1>. QED BY <1>3, <1>4, <1>5, <1>6

\* A step after which its row is settled or was not sent by it.
LEMMA WrittenCounts ==
    ASSUME TypeOK, TypeOK', Distinct, Apart, Counted, RepeatsOnlyLosses, NEW p \in Process,
           sender[p].pc # "idle", sender'[p].pc # "answered", Keeps(p, 1),
           Written(outbox', Doing(p)), Accepts(p, Doing(p)) => outbox'[Doing(p)].status # "pending"
    PROVE  Counted' /\ RepeatsOnlyLosses'
  <1>1. \A r \in Row : Unsent(r)' <=> Unsent(r) BY DEF Written, Unsent
  <1>2. \A q \in Process \ {p} : sender'[q].claims = sender[q].claims /\ \A r : Accepts(q, r)' <=> Accepts(q, r)
    BY DEF Keeps, Accepts, Doing, Claimed
  <1>3. \A r : ~Accepts(p, r)' BY DEF Accepts
  <1>4. ASSUME NEW r \in Row, Pending(r)', \A q \in Process : ~Accepts(q, r)' PROVE Unsent(r)'
    <2>1. Pending(r) BY <1>4 DEF Written, Pending
    <2>2. ~Accepts(p, r) BY <1>4 DEF Accepts, Pending
    <2>3. \A q \in Process : ~Accepts(q, r) BY <1>2, <1>4, <2>2
    <2>. QED BY <1>1, <2>1, <2>3 DEF Counted
  <1>5. ASSUME NEW q \in Process, NEW i \in 1 .. Len(sender'[q].claims), ~Accepts(q, sender[q].claims[i].row)'
        PROVE  Unsent(sender[q].claims[i].row)'
    <2>1. CASE q # p
      <3>1. ~Accepts(q, sender[q].claims[i].row) /\ sender[q].claims[i].row \in Row
        BY <1>2, <1>5, <2>1, RowsOfClaims
      <3>. QED BY <1>1, <1>2, <2>1, <3>1 DEF Counted
    <2>2. CASE q = p
      <3>1. i + 1 \in 1 .. Len(sender[p].claims) /\ sender'[p].claims[i] = sender[p].claims[i + 1]
        BY <2>2 DEF Keeps
      <3>2. sender[p].claims[i + 1].row # Doing(p) /\ sender[p].claims[i + 1].row \in Row
        BY <2>2, <3>1, OnlyThere, RowsOfClaims, i \in Int
      <3>3. Unsent(sender[p].claims[i + 1].row) BY <3>1, <3>2 DEF Counted, Accepts
      <3>. QED BY <1>1, <2>2, <3>1, <3>2, <3>3
    <2>. QED BY <2>1, <2>2
  <1>6. RepeatsOnlyLosses' BY DEF RepeatsOnlyLosses, Written
  <1>. QED BY <1>4, <1>5, <1>6 DEF Counted

-----------------------------------------------------------------------------
\* What the statements about a row or a target write.
LEMMA UpdateWrites ==
    ASSUME TypeOK, NEW r \in Row, NEW new \in OutboxRow, new.status # "none",
           new.posts = outbox[r].posts, new.lost = outbox[r].lost
    PROVE  Written(Update(outbox, r, new), r)
  <1>1. CASE outbox[r].status = "pending"
    <2>1. Update(outbox, r, new) = [outbox EXCEPT ![r] = new] BY <1>1 DEF Update
    <2>. QED BY <1>1, <2>1 DEF Written, TypeOK
  <1>2. CASE outbox[r].status # "pending" BY <1>2 DEF Written, TypeOK, Update
  <1>. QED BY <1>1, <1>2

LEMMA NothingWrites == ASSUME TypeOK, NEW r PROVE Written(outbox, r)
  BY DEF Written, TypeOK

LEMMA MarkSentWrites ==
    ASSUME TypeOK, NEW r \in Row
    PROVE  Written(MarkSent(outbox, r), r) /\ MarkSent(outbox, r)[r].status # "pending"
  <1> DEFINE new == [outbox[r] EXCEPT !.status = "sent"]
  <1>1. new \in OutboxRow /\ new.status = "sent" /\ new.posts = outbox[r].posts /\ new.lost = outbox[r].lost
    BY DEF TypeOK, OutboxRow
  <1>. HIDE DEF new
  <1>2. Written(Update(outbox, r, new), r) BY <1>1, UpdateWrites
  <1>3. Update(outbox, r, new)[r].status # "pending" BY <1>1 DEF Update, TypeOK
  <1>. QED BY <1>2, <1>3 DEF MarkSent, new

LEMMA DeadWrites == ASSUME TypeOK, NEW r \in Row PROVE Written(Dead(outbox, r), r)
  <1> DEFINE new == [outbox[r] EXCEPT !.status = "dead"]
  <1>1. new \in OutboxRow /\ new.status = "dead" /\ new.posts = outbox[r].posts /\ new.lost = outbox[r].lost
    BY DEF TypeOK, OutboxRow
  <1>. HIDE DEF new
  <1>2. Written(Update(outbox, r, new), r) BY <1>1, UpdateWrites
  <1>. QED BY <1>2 DEF Dead, new

LEMMA WaitWrites ==
    ASSUME TypeOK, NEW r \in Row, NEW o, o = outbox[r], NEW wait \in Int, NEW attempts \in Nat, o.status # "none"
    PROVE  Written(Update(outbox, r, [o EXCEPT !.wait = wait, !.attempts = attempts]), r)
  <1> DEFINE new == [o EXCEPT !.wait = wait, !.attempts = attempts]
  <1>1. new \in OutboxRow /\ new.status = o.status /\ new.posts = o.posts /\ new.lost = o.lost
    BY DEF TypeOK, OutboxRow
  <1>. HIDE DEF new
  <1>2. Written(Update(outbox, r, new), r) BY <1>1, UpdateWrites
  <1>. QED BY <1>2 DEF new

LEMMA GivenBackWrites ==
    ASSUME TypeOK, NEW r \in Row, outbox[r].status # "none" PROVE Written(GivenBack(outbox, r), r)
  <1>1. \A o, n : o = outbox[r] /\ n = Most(o.attempts - 1, 0) =>
            GivenBack(outbox, r) = Update(outbox, r, [o EXCEPT !.wait = 0, !.attempts = n])
    BY DEF GivenBack
  <1>2. Most(outbox[r].attempts - 1, 0) \in Nat BY DEF TypeOK, OutboxRow, Most
  <1>3. \A o, n : o = outbox[r] /\ n \in Nat =>
            Written(Update(outbox, r, [o EXCEPT !.wait = 0, !.attempts = n]), r)
    <2>. SUFFICES ASSUME NEW o, NEW n \in Nat, o = outbox[r]
                  PROVE  Written(Update(outbox, r, [o EXCEPT !.wait = 0, !.attempts = n]), r)
      OBVIOUS
    <2>. DEFINE zero == 0
    <2>1. zero \in Int OBVIOUS
    <2>. HIDE DEF zero
    <2>2. Written(Update(outbox, r, [o EXCEPT !.wait = zero, !.attempts = n]), r) BY <2>1, WaitWrites
    <2>. QED BY <2>2 DEF zero
  <1>. QED BY <1>1, <1>2, <1>3

LEMMA RescheduledWrites ==
    ASSUME TypeOK, NEW p \in Process, sender[p].pc # "idle", outbox[Doing(p)].status # "none", NEW delay \in Int
    PROVE  Written(Rescheduled(p, delay), Doing(p))
  <1>1. Most(delay - sender[p].spent, 0) \in Int BY DEF TypeOK, TickType, Most
  <1>2. Doing(p) \in Row /\ outbox[Doing(p)].attempts \in Nat BY Busy DEF OutboxRow
  <1>3. Rescheduled(p, delay) =
            Update(outbox, Doing(p), [outbox[Doing(p)] EXCEPT !.wait = Most(delay - sender[p].spent, 0),
                                                              !.attempts = outbox[Doing(p)].attempts])
    BY <1>2 DEF Rescheduled, TypeOK, OutboxRow
  <1>. QED BY <1>1, <1>2, <1>3, WaitWrites

LEMMA DelayType == \A n \in Nat, asked \in Int : RetryDelay(n, asked) \in Int
  <1>1. \A n \in Nat : Most(n, 1) - 1 \in Nat BY DEF Most
  <1>2. \A k \in Nat : Base * 2 ^ k \in Int
    <2>1. \A k \in Nat : 2 ^ k \in Int OBVIOUS
    <2>. QED BY <2>1, TimesAssumption
  <1>3. \A n \in Nat : Backoff(n) \in Int BY <1>1, <1>2, TimesAssumption DEF Backoff, Least
  <1>. QED BY <1>3 DEF RetryDelay, Most

LEMMA RetriedWrites ==
    ASSUME TypeOK, NEW p \in Process, sender[p].pc # "idle", outbox[Doing(p)].status # "none"
    PROVE  Written(Retried(p), Doing(p))
  <1>1. Claimed(p).attempts \in Nat /\ sender[p].after \in Int BY Busy DEF TickType, Claim1
  <1>2. NextDelay(p) \in Int BY <1>1, DelayType DEF NextDelay
  <1>3. Written(Rescheduled(p, NextDelay(p)), Doing(p)) BY <1>2, RescheduledWrites
  <1>4. Written(Dead(outbox, Doing(p)), Doing(p)) BY Busy, DeadWrites
  <1>. QED BY <1>3, <1>4 DEF Retried

LEMMA TargetWrites ==
    ASSUME TypeOK, NEW t, NEW r
    PROVE  Written(DeadForTarget(outbox, t), r) /\ Written(Removed(outbox, t), r)
  <1>1. \A q \in Row : \A st \in {"dead", "removed"} :
            [outbox[q] EXCEPT !.status = st] \in OutboxRow
            /\ [outbox[q] EXCEPT !.status = st].status = st
            /\ [outbox[q] EXCEPT !.status = st].posts = outbox[q].posts
            /\ [outbox[q] EXCEPT !.status = st].lost = outbox[q].lost
    BY DEF TypeOK, OutboxRow
  <1>2. \A q \in Row : outbox[q] \in OutboxRow BY DEF TypeOK
  <1>3. Written(DeadForTarget(outbox, t), r) BY <1>1, <1>2 DEF Written, DeadForTarget
  <1>4. Written(Removed(outbox, t), r) BY <1>1, <1>2 DEF Written, Removed
  <1>. QED BY <1>3, <1>4

-----------------------------------------------------------------------------
\* A step of a tick that goes on to its next row, or ends, after statements about the first.
LEMMA AdvanceKeeps ==
    ASSUME IInv, NEW p \in Process, sender[p].pc # "idle",
           NEW new \in TickType, sender' = [sender EXCEPT ![p] = new],
           new.pc \in {"idle", "next", "releasing"}, new.pc = "idle" <=> new.claims = <<>>,
           Len(sender[p].claims) = 1 => new.claims = <<>>,
           Len(sender[p].claims) # 1 => new.claims = Tail(sender[p].claims) /\ new.elapsed = sender[p].elapsed,
           TimeOf(new), Written(outbox', Doing(p)),
           Accepts(p, Doing(p)) => outbox'[Doing(p)].status # "pending",
           UNCHANGED <<writing, faults, saves>>, enabled' \in [Target -> BOOLEAN]
    PROVE  IInv'
  <1>1. sender'[p] = new /\ \A q \in Process \ {p} : sender'[q] = sender[q] BY DEF IInv, TypeOK
  <1>2. TypeOK' BY <1>1 DEF IInv, TypeOK, Written
  <1>3. Keeps(p, 1)
    <2>1. sender[p].claims \in Seq(Claim1) /\ sender[p].claims # <<>> BY Busy DEF IInv
    <2>2. CASE Len(sender[p].claims) = 1 BY <1>1, <2>2, EmptySeq DEF Keeps
    <2>3. CASE Len(sender[p].claims) # 1
      <3> DEFINE c == sender[p].claims
      <3>1. /\ Len(c) \in Nat \ {0} /\ Len(Tail(c)) = Len(c) - 1
            /\ \A i \in 1 .. Len(c) - 1 : Tail(c)[i] = c[i + 1]
        BY <2>1, Tails
      <3>2. new.claims = Tail(c) /\ new.elapsed = sender[p].elapsed BY <2>3
      <3>3. \A i \in 1 .. Len(new.claims) : i + 1 \in 1 .. Len(c) /\ new.claims[i] = c[i + 1]
        <4>. HIDE DEF c
        <4>. QED BY <3>1, <3>2
      <3>. QED BY <1>1, <3>2, <3>3 DEF Keeps
    <2>. QED BY <2>2, <2>3
  <1>4. Queueing' /\ Distinct' /\ Apart' /\ Leased'
    <2>1. \A r \in Row : /\ outbox'[r].status = "none" <=> outbox[r].status = "none"
                         /\ Pending(r)' => Pending(r) /\ (outbox'[r].wait = outbox[r].wait \/ r = Doing(p))
      BY DEF Written, Pending
    <2>. QED BY <1>2, <1>3, <2>1, KeepsClaims DEF IInv
  <1>5. Timed' BY <1>1 DEF IInv, Timed
  <1>6. Counted' /\ RepeatsOnlyLosses' BY <1>1, <1>2, <1>3, WrittenCounts DEF IInv
  <1>. QED BY <1>2, <1>4, <1>5, <1>6 DEF IInv

\* A step of p's tick alone.
StepOf(p) == sender' \in [Process -> TickType] /\ \A q \in Process \ {p} : sender'[q] = sender[q]

\* A step of a tick that stays with its row.
LEMMA StayKeeps ==
    ASSUME IInv, NEW p \in Process, sender[p].pc # "idle", StepOf(p),
           sender'[p].pc # "idle", sender'[p].claims = sender[p].claims,
           sender'[p].elapsed = sender[p].elapsed, TimeOf(sender'[p]),
           outbox' \in [Row -> OutboxRow],
           \A r \in Row : outbox'[r].status = outbox[r].status /\ outbox'[r].wait = outbox[r].wait,
           UNCHANGED <<writing, enabled, faults, saves>>
    PROVE  TypeOK' /\ Queueing' /\ Distinct' /\ Apart' /\ Leased' /\ Timed'
  <1>1. \A q \in Process \ {p} : sender'[q] = sender[q] BY DEF StepOf
  <1>2. TypeOK' BY <1>1 DEF IInv, TypeOK, StepOf
  <1>3. Keeps(p, 0)
    <2>1. Len(sender[p].claims) \in Nat BY RowsOfClaims DEF IInv
    <2>. QED BY <1>1, <2>1 DEF Keeps
  <1>4. Queueing' /\ Distinct' /\ Apart' /\ Leased'
    <2>1. \A r \in Row : /\ outbox'[r].status = "none" <=> outbox[r].status = "none"
                         /\ Pending(r)' => Pending(r) /\ outbox'[r].wait = outbox[r].wait
      BY DEF Pending
    <2>. QED BY <1>2, <1>3, <2>1, KeepsClaims DEF IInv
  <1>5. Timed' BY <1>1 DEF IInv, Timed
  <1>. QED BY <1>2, <1>4, <1>5

\* Such a step accepts at most one message, of its row.
LEMMA StayCounts ==
    ASSUME IInv, NEW p \in Process, sender[p].pc # "idle", ~Accepts(p, Doing(p)),
           \A q \in Process : sender'[q].claims = sender[q].claims /\ (q # p => sender'[q] = sender[q]),
           \A r \in Row : /\ outbox'[r].status = outbox[r].status
                          /\ r # Doing(p) => outbox'[r].posts = outbox[r].posts /\ outbox'[r].lost = outbox[r].lost,
           Unsent(Doing(p)) =>
               \/ outbox'[Doing(p)].posts <= outbox'[Doing(p)].lost
               \/ /\ sender'[p].pc = "answered" /\ sender'[p].answer = "sent"
                  /\ outbox'[Doing(p)].posts <= outbox'[Doing(p)].lost + 1,
           \A r \in Row : outbox'[r].posts \in Nat /\ outbox'[r].lost \in Nat
    PROVE  Counted' /\ RepeatsOnlyLosses'
  <1> DEFINE d == Doing(p)
  <1>1. d \in Row /\ d = sender[p].claims[1].row /\ 1 \in 1 .. Len(sender[p].claims) BY Busy DEF IInv
  <1>2. Unsent(d) BY <1>1 DEF IInv, Counted
  <1>3. outbox'[d].posts <= outbox'[d].lost \/ (\A r : r = d => Accepts(p, r)')
    BY <1>1, <1>2 DEF Accepts, Doing, Claimed
  <1>4. \A q \in Process : \A r : Accepts(q, r) => q # p /\ Accepts(q, r)'
    BY DEF Accepts, Doing, Claimed
  <1>5. ASSUME NEW r \in Row, Pending(r)', \A q \in Process : ~Accepts(q, r)' PROVE Unsent(r)'
    <2>1. CASE r = d BY <1>3, <1>5, <2>1 DEF Unsent
    <2>2. CASE r # d BY <1>4, <1>5, <2>2 DEF IInv, Counted, Pending, Unsent
    <2>. QED BY <2>1, <2>2
  <1>6. ASSUME NEW q \in Process, NEW i \in 1 .. Len(sender[q].claims), ~Accepts(q, sender[q].claims[i].row)'
        PROVE  Unsent(sender[q].claims[i].row)'
    <2> DEFINE r == sender[q].claims[i].row
    <2>1. r \in Row BY RowsOfClaims DEF IInv
    <2>2. CASE r = d
      <3>1. q = p BY <2>2, OnlyThere DEF IInv
      <3>. QED BY <1>3, <1>6, <2>2, <3>1 DEF Unsent
    <2>3. CASE r # d
      <3>1. ~Accepts(q, r) BY <1>4, <1>6
      <3>2. Unsent(r) BY <3>1 DEF IInv, Counted
      <3>. QED BY <2>1, <2>3, <3>2 DEF Unsent
    <2>. QED BY <2>2, <2>3
  <1>7. RepeatsOnlyLosses'
    <2>1. outbox'[d].posts <= outbox'[d].lost + 1 BY <1>1, <1>2
    <2>. QED BY <2>1 DEF IInv, RepeatsOnlyLosses
  <1>. QED BY <1>5, <1>6, <1>7 DEF Counted

-----------------------------------------------------------------------------
\* One lemma for each action.
LEMMA Untouched ==
    ASSUME IInv, UNCHANGED <<outbox, sender>>
    PROVE  Distinct' /\ Apart' /\ Leased' /\ Timed' /\ Counted' /\ RepeatsOnlyLosses'
  <1>1. \A r : (Pending(r)' <=> Pending(r)) /\ (Unsent(r)' <=> Unsent(r)) BY DEF Pending, Unsent
  <1>2. \A q, r : Accepts(q, r)' <=> Accepts(q, r) BY DEF Accepts, Doing, Claimed
  <1>3. Distinct' /\ Apart' /\ Timed' BY DEF IInv, Distinct, Apart, Timed
  <1>4. Leased' BY <1>1 DEF IInv, Leased
  <1>5. Counted' /\ RepeatsOnlyLosses' BY <1>1, <1>2 DEF IInv, Counted, RepeatsOnlyLosses
  <1>. QED BY <1>3, <1>4, <1>5

LEMMA EnqueueKeeps == ASSUME IInv, NEW r \in Row, Enqueue(r) PROVE IInv'
  <1>1. TypeOK' BY DEF IInv, TypeOK, Enqueue
  <1>2. Queueing' BY DEF Queueing, Enqueue
  <1>3. UNCHANGED <<outbox, sender>> BY DEF Enqueue
  <1>. QED BY <1>1, <1>2, <1>3, Untouched DEF IInv

LEMMA CommitKeeps == ASSUME IInv, Commit PROVE IInv'
  <1>1. writing \in Row /\ outbox[writing].status = "none" /\ UNCHANGED <<enabled, sender, faults, saves>>
    BY DEF IInv, TypeOK, Queueing, Commit
  <1> DEFINE new == [NoRow EXCEPT !.status = "pending"]
  <1>2. new \in OutboxRow /\ new.status = "pending" /\ new.posts = 0 /\ new.lost = 0 BY DEF NoRow, OutboxRow
  <1>. HIDE DEF new
  <1>3. outbox' = [outbox EXCEPT ![writing] = new] BY DEF Commit, new
  <1>4. outbox'[writing] = new /\ \A r \in Row : r # writing => outbox'[r] = outbox[r]
    BY <1>1, <1>3 DEF IInv, TypeOK
  <1>5. TypeOK' /\ Queueing' BY <1>1, <1>2, <1>3 DEF IInv, TypeOK, Queueing, Commit
  <1>6. \A q \in Process : \A i \in 1 .. Len(sender[q].claims) :
            sender[q].claims[i].row \in Row /\ outbox'[sender[q].claims[i].row] = outbox[sender[q].claims[i].row]
    BY <1>1, <1>4, RowsOfClaims DEF IInv, Leased
  <1>7. Distinct' /\ Apart' /\ Timed' BY <1>1 DEF IInv, Distinct, Apart, Timed
  <1>8. Leased' BY <1>1, <1>6 DEF IInv, Leased, Pending
  <1>9. \A q, r : Accepts(q, r)' <=> Accepts(q, r) BY <1>1 DEF Accepts, Doing, Claimed
  <1>10. \A r \in Row : r # writing => (Unsent(r)' <=> Unsent(r)) /\ (Pending(r)' <=> Pending(r))
    BY <1>1, <1>2, <1>4 DEF Unsent, Pending
  <1>11. ASSUME NEW r \in Row, Pending(r)', \A q \in Process : ~Accepts(q, r)'
        PROVE outbox'[r].posts <= outbox'[r].lost
    BY <1>2, <1>4, <1>9, <1>11 DEF IInv, Counted, Unsent, Pending
  <1>12. ASSUME NEW q \in Process, NEW i \in 1 .. Len(sender[q].claims), ~Accepts(q, sender[q].claims[i].row)'
         PROVE  outbox'[sender[q].claims[i].row].posts <= outbox'[sender[q].claims[i].row].lost
    <2>1. ~Accepts(q, sender[q].claims[i].row) BY <1>1, <1>9, <1>12
    <2>. QED BY <1>6, <2>1 DEF IInv, Counted, Unsent
  <1>13. Counted' BY <1>1, <1>11, <1>12 DEF Counted, Unsent
  <1>14. RepeatsOnlyLosses' BY <1>2, <1>4 DEF IInv, RepeatsOnlyLosses
  <1>. QED BY <1>5, <1>7, <1>8, <1>13, <1>14 DEF IInv

\* A tick's first row is in the outbox, and unsent unless its send was just accepted.
LEMMA FirstRow ==
    ASSUME IInv, NEW p \in Process, sender[p].pc # "idle"
    PROVE  /\ outbox[Doing(p)].status # "none"
           /\ ~Accepts(p, Doing(p)) => Unsent(Doing(p))
  <1>1. Doing(p) = sender[p].claims[1].row /\ 1 \in 1 .. Len(sender[p].claims) BY Busy DEF IInv
  <1>. QED BY <1>1 DEF IInv, Leased, Counted

LEMMA BehindTimes ==
    ASSUME IInv, NEW p \in Process, sender[p].pc \in {"next", "answered"} PROVE TimeOf(Behind(sender[p]))
  <1>1. sender[p] \in TickType /\ sender[p].claims # <<>> /\ Len(sender[p].claims) \in Nat \ {0}
        /\ sender[p].claims \in Seq(Claim1)
    BY Busy DEF IInv
  <1>2. CASE Len(sender[p].claims) = 1
    <2>1. Behind(sender[p]) = NoTick BY <1>1, <1>2, BehindIs
    <2>. QED BY <2>1 DEF TimeOf, NoTick
  <1>3. CASE Len(sender[p].claims) # 1
    <2>1. /\ Behind(sender[p]).pc = "next" /\ Behind(sender[p]).claims = Tail(sender[p].claims)
          /\ Behind(sender[p]).elapsed = sender[p].elapsed
      BY <1>1, <1>3, BehindIs
    <2>2. Len(Tail(sender[p].claims)) = Len(sender[p].claims) - 1 BY <1>1, Tails
    <2>3. TimeOf(sender[p]) /\ sender[p].elapsed \in Nat /\ sender[p].spent \in Nat
      BY DEF IInv, Timed, TypeOK, TickType
    <2>. QED BY <1>1, <2>1, <2>2, <2>3, Constants DEF TimeOf
  <1>. QED BY <1>2, <1>3

LEMMA SkipPausedKeeps == ASSUME IInv, NEW p \in Process, SkipPaused(p) PROVE IInv'
  <1> DEFINE new == Behind(sender[p])
  <1>1. /\ sender[p].pc = "next" /\ sender' = [sender EXCEPT ![p] = new]
        /\ UNCHANGED <<outbox, writing, enabled, faults, saves>>
    BY DEF SkipPaused
  <1>2. sender[p] \in TickType /\ sender[p].claims # <<>> BY <1>1, Busy DEF IInv
  <1>3. /\ new \in TickType /\ (new.pc = "idle" <=> new.claims = <<>>) /\ new.pc \in {"idle", "next", "releasing"}
        /\ Len(sender[p].claims) = 1 => new.claims = <<>>
        /\ Len(sender[p].claims) # 1 => new.claims = Tail(sender[p].claims) /\ new.elapsed = sender[p].elapsed
    BY <1>2, BehindIs DEF NoTick
  <1>4. TimeOf(new) BY <1>1, BehindTimes
  <1>5. ~Accepts(p, Doing(p)) BY <1>1 DEF Accepts
  <1>6. Written(outbox', Doing(p)) BY <1>1, NothingWrites DEF IInv
  <1>7. enabled' \in [Target -> BOOLEAN] BY <1>1 DEF IInv, TypeOK
  <1>. HIDE DEF new
  <1>. QED BY <1>1, <1>3, <1>4, <1>5, <1>6, <1>7, AdvanceKeeps

LEMMA ReleaseKeeps == ASSUME IInv, NEW p \in Process, Release(p) PROVE IInv'
  <1> DEFINE new == IF Len(sender[p].claims) = 1 THEN NoTick ELSE [sender[p] EXCEPT !.claims = Tail(@), !.spent = 0]
  <1>1. /\ sender[p].pc = "releasing" /\ sender' = [sender EXCEPT ![p] = new]
        /\ outbox' = GivenBack(outbox, Doing(p)) /\ UNCHANGED <<writing, enabled, faults, saves>>
    BY DEF Release
  <1>2. /\ sender[p] \in TickType /\ sender[p].claims # <<>> /\ Len(sender[p].claims) \in Nat \ {0}
        /\ sender[p].claims \in Seq(Claim1)
    BY <1>1, Busy DEF IInv
  <1>3. /\ new \in TickType /\ (new.pc = "idle" <=> new.claims = <<>>) /\ new.pc \in {"idle", "next", "releasing"}
        /\ Len(sender[p].claims) = 1 => new.claims = <<>>
        /\ Len(sender[p].claims) # 1 => new.claims = Tail(sender[p].claims) /\ new.elapsed = sender[p].elapsed
        /\ TimeOf(new)
    <2>1. CASE Len(sender[p].claims) = 1
      <3>1. new = NoTick BY <2>1
      <3>. QED BY <2>1, <3>1, EmptySeq DEF NoTick, TickType, TimeOf
    <2>2. CASE Len(sender[p].claims) # 1
      <3> DEFINE n == Len(sender[p].claims)
      <3>1. new = [sender[p] EXCEPT !.claims = Tail(@), !.spent = 0] BY <2>2
      <3>2. new = [pc |-> "releasing", claims |-> Tail(sender[p].claims), elapsed |-> sender[p].elapsed, spent |-> 0,
                   answer |-> sender[p].answer, after |-> sender[p].after, paused |-> sender[p].paused,
                   hostPaused |-> sender[p].hostPaused]
        BY <1>1, <1>2, <3>1 DEF TickType
      <3>3. /\ Tail(sender[p].claims) \in Seq(Claim1) /\ Tail(sender[p].claims) # <<>>
            /\ Len(Tail(sender[p].claims)) = n - 1
        BY <1>2, <2>2, Tails
      <3>. HIDE DEF new
      <3>4. new \in TickType BY <1>2, <3>2, <3>3 DEF TickType, Claim1
      <3>5. /\ sender[p].elapsed <= Budget - 1 + MaxCall + (Batch - 1 - n) * MaxRelease + sender[p].spent
            /\ sender[p].spent <= MaxRelease /\ n < Batch
        BY <1>1 DEF IInv, Timed, TimeOf
      <3>few. n < Batch BY <3>5
      <3>some. n \in Nat \ {0} BY <1>2
      <3>. HIDE DEF n
      <3>6. n \in Nat \ {0} /\ n - 1 \in Nat /\ n - 1 < Batch
        <4>1. Batch \in Nat BY Constants
        <4>. QED BY <3>few, <3>some, <4>1
      <3>7. sender[p].elapsed <= Budget - 1 + MaxCall + (Batch - 1 - (n - 1)) * MaxRelease + 0
        <4>1. /\ (Batch - 1 - (n - 1)) * MaxRelease = (Batch - 1 - n) * MaxRelease + MaxRelease
              /\ (Batch - 1 - n) * MaxRelease \in Int /\ (Batch - 1 - (n - 1)) * MaxRelease \in Int
          BY <3>6, Product
        <4>2. sender[p].elapsed \in Int /\ sender[p].spent \in Int BY <1>2 DEF TickType
        <4>. QED BY <3>5, <4>1, <4>2, Adds
      <3>8. TimeOf(new)
        <4>1. new.pc = "releasing" /\ Len(new.claims) = n - 1 /\ new.elapsed = sender[p].elapsed /\ new.spent = 0
          BY <3>2, <3>3 DEF n
        <4>. QED BY <3>6, <3>7, <4>1, Constants DEF TimeOf
      <3>. QED BY <2>2, <3>2, <3>3, <3>4, <3>8
    <2>. QED BY <2>1, <2>2
  <1>4. ~Accepts(p, Doing(p)) BY <1>1 DEF Accepts
  <1>5. Written(outbox', Doing(p))
    <2>1. Doing(p) \in Row /\ outbox[Doing(p)].status # "none" BY <1>1, Busy, FirstRow DEF IInv
    <2>. QED BY <1>1, <2>1, GivenBackWrites DEF IInv
  <1>6. enabled' \in [Target -> BOOLEAN] BY <1>1 DEF IInv, TypeOK
  <1>. HIDE DEF new
  <1>. QED BY <1>1, <1>3, <1>4, <1>5, <1>6, AdvanceKeeps

\* A step that posts nothing and stays with its row.
LEMMA SilentKeeps ==
    ASSUME IInv, NEW p \in Process, sender[p].pc \in {"next", "sending"},
           StepOf(p), sender'[p].pc # "idle", sender'[p].claims = sender[p].claims,
           sender'[p].elapsed = sender[p].elapsed, TimeOf(sender'[p]),
           sender'[p].pc # "answered" \/ sender'[p].answer # "sent",
           UNCHANGED <<outbox, writing, enabled, faults, saves>>
    PROVE  IInv'
  <1>1. \A q \in Process \ {p} : sender'[q] = sender[q] BY DEF StepOf
  <1>2. outbox' \in [Row -> OutboxRow] BY DEF IInv, TypeOK
  <1>3. TypeOK' /\ Queueing' /\ Distinct' /\ Apart' /\ Leased' /\ Timed' BY <1>2, StayKeeps
  <1>4. Counted' /\ RepeatsOnlyLosses'
    <2>1. ~Accepts(p, Doing(p)) BY DEF Accepts
    <2>2. \A q \in Process : sender'[q].claims = sender[q].claims /\ (q # p => sender'[q] = sender[q]) BY <1>1
    <2>3. \A r \in Row : outbox'[r].posts \in Nat /\ outbox'[r].lost \in Nat BY <1>2 DEF OutboxRow
    <2>4. Unsent(Doing(p)) => outbox'[Doing(p)].posts <= outbox'[Doing(p)].lost BY DEF Unsent
    <2>. QED BY <2>1, <2>2, <2>3, <2>4, StayCounts
  <1>. QED BY <1>3, <1>4 DEF IInv

\* A tick whose row is being sent, or has its answer.
LEMMA TickFields ==
    ASSUME NEW s \in TickType, NEW pc \in {"sending", "answered"}, NEW a \in Answered \cup {"none"},
           NEW n \in Nat, NEW m \in Nat
    PROVE  [s EXCEPT !.pc = pc, !.answer = a, !.spent = n, !.after = m] \in TickType
  BY DEF TickType

LEMMA Answering ==
    ASSUME TypeOK, NEW p \in Process, NEW pc \in {"sending", "answered"}, NEW a \in Answered \cup {"none"},
           NEW n \in Nat, NEW m \in Nat,
           sender' = [sender EXCEPT ![p].pc = pc, ![p].answer = a, ![p].spent = n, ![p].after = m]
    PROVE  /\ StepOf(p) /\ sender'[p].claims = sender[p].claims /\ sender'[p].elapsed = sender[p].elapsed
           /\ sender'[p].pc = pc /\ sender'[p].answer = a /\ sender'[p].spent = n
  <1>1. sender \in [Process -> TickType] BY DEF TypeOK
  <1>2. sender'[p] = [sender[p] EXCEPT !.pc = pc, !.answer = a, !.spent = n, !.after = m]
    BY <1>1 DEF TickType
  <1>3. sender'[p] \in TickType BY <1>1, <1>2, TickFields
  <1>4. /\ sender' = [q \in Process |-> sender'[q]]
        /\ \A q \in Process \ {p} : sender'[q] = sender[q]
    BY <1>1
  <1>5. \A q \in Process : sender'[q] \in TickType BY <1>1, <1>3, <1>4
  <1>6. sender' \in [Process -> TickType] BY Zenon, <1>4, <1>5
  <1>7. /\ sender'[p].claims = sender[p].claims /\ sender'[p].elapsed = sender[p].elapsed
        /\ sender'[p].pc = pc /\ sender'[p].answer = a /\ sender'[p].spent = n
    BY <1>1 DEF TickType
  <1>. QED BY <1>4, <1>6, <1>7 DEF StepOf

LEMMA DeliverKeeps == ASSUME IInv, NEW p \in Process, Deliver(p) PROVE IInv'
  <1>1. sender[p].pc = "next" /\ sender[p].elapsed < Budget /\ UNCHANGED <<outbox, writing, enabled, faults, saves>>
    BY DEF Deliver, MayTry
  <1>2. PICK e \in {"none", "expired", "unreadable", "dropped", "untried"} :
            sender' = [sender EXCEPT ![p].pc = IF e = "none" THEN "sending" ELSE "answered",
                                     ![p].answer = e, ![p].spent = 0]
    BY DEF Deliver
  <1>3. /\ StepOf(p) /\ sender'[p].claims = sender[p].claims /\ sender'[p].elapsed = sender[p].elapsed
        /\ sender'[p].pc = (IF e = "none" THEN "sending" ELSE "answered") /\ sender'[p].answer = e
        /\ sender'[p].spent = 0
    <2>1. PICK pc \in {"sending", "answered"} : pc = IF e = "none" THEN "sending" ELSE "answered" OBVIOUS
    <2>2. sender[p].after \in Nat /\ e \in Answered \cup {"none"} BY DEF IInv, TypeOK, TickType, Answered
    <2>3. PICK n \in Nat : n = 0 OBVIOUS
    <2>4. sender' = [sender EXCEPT ![p].pc = pc, ![p].answer = e, ![p].spent = n, ![p].after = sender[p].after]
      <3>1. sender \in [Process -> TickType] BY DEF IInv, TypeOK
      <3>2. sender' = [sender EXCEPT ![p].pc = pc, ![p].answer = e, ![p].spent = n] BY <1>2, <2>1, <2>3
      <3>. QED BY <3>1, <3>2 DEF TickType
    <2>5. TypeOK BY DEF IInv
    <2>6. StepOf(p) BY <2>2, <2>4, <2>5, Answering
    <2>7. /\ sender'[p].claims = sender[p].claims /\ sender'[p].elapsed = sender[p].elapsed
          /\ sender'[p].pc = pc /\ sender'[p].answer = e /\ sender'[p].spent = n
      BY <2>4 DEF IInv, TypeOK, TickType
    <2>. QED BY <2>1, <2>3, <2>6, <2>7
  <1>4. TimeOf(sender'[p])
    <2>1. TimeOf(sender[p]) /\ sender[p].elapsed \in Nat BY DEF IInv, Timed, TypeOK, TickType
    <2>. QED BY <1>1, <1>3, <2>1, Constants DEF TimeOf
  <1>. QED BY <1>1, <1>3, <1>4, SilentKeeps

LEMMA LimitedKeeps == ASSUME IInv, NEW p \in Process, Limited(p) PROVE IInv'
  <1>1. sender[p].pc = "sending" /\ UNCHANGED <<outbox, writing, enabled, faults, saves>> BY DEF Limited
  <1>2. PICK a \in Asked : sender' = [sender EXCEPT ![p].pc = "answered", ![p].answer = "limited", ![p].after = a]
    BY DEF Limited
  <1>3. /\ StepOf(p) /\ sender'[p].claims = sender[p].claims /\ sender'[p].elapsed = sender[p].elapsed
        /\ sender'[p].pc = "answered" /\ sender'[p].answer = "limited" /\ sender'[p].spent = sender[p].spent
    <2>1. sender[p].spent \in Nat /\ a \in Nat BY TimesAssumption DEF IInv, TypeOK, TickType
    <2>2. sender' = [sender EXCEPT ![p].pc = "answered", ![p].answer = "limited",
                                   ![p].spent = sender[p].spent, ![p].after = a]
      BY <1>2 DEF IInv, TypeOK, TickType
    <2>. QED BY <2>1, <2>2, Answering DEF IInv, Answered
  <1>4. TimeOf(sender'[p]) BY <1>1, <1>3 DEF IInv, Timed, TimeOf
  <1>. QED BY <1>1, <1>3, <1>4, SilentKeeps

LEMMA OutOfTimeKeeps == ASSUME IInv, NEW p \in Process, OutOfTime(p) PROVE IInv'
  <1>1. /\ sender[p].pc = "next" /\ sender[p].elapsed >= Budget
        /\ UNCHANGED <<outbox, writing, enabled, faults, saves>>
        /\ sender' = [sender EXCEPT ![p].pc = "releasing", ![p].spent = 0]
    BY DEF OutOfTime
  <1>2. /\ StepOf(p) /\ sender'[p].claims = sender[p].claims /\ sender'[p].elapsed = sender[p].elapsed
        /\ sender'[p].pc = "releasing" /\ sender'[p].spent = 0
    <2>1. PICK n \in Nat : n = 0 OBVIOUS
    <2> DEFINE new == [sender[p] EXCEPT !.pc = "releasing", !.spent = n]
    <2>2. sender \in [Process -> TickType] /\ sender[p] \in TickType BY DEF IInv, TypeOK
    <2>3. sender' = [sender EXCEPT ![p] = new] BY <1>1, <2>1, <2>2 DEF TickType
    <2>4. /\ new \in TickType /\ new.claims = sender[p].claims /\ new.elapsed = sender[p].elapsed
          /\ new.pc = "releasing" /\ new.spent = n
      BY <2>2 DEF TickType
    <2>. HIDE DEF new
    <2>. QED BY <2>1, <2>2, <2>3, <2>4 DEF StepOf
  <1>3. TimeOf(sender'[p])
    <2> DEFINE n == Len(sender[p].claims)
    <2>1. n \in Nat /\ sender[p].elapsed \in Nat BY RowsOfClaims DEF IInv, TypeOK, TickType
    <2>2. sender[p].elapsed <= Budget - 1 + MaxCall /\ n < Batch
      <3>1. TimeOf(sender[p]) /\ sender[p].elapsed > 0 BY <1>1, <2>1, Constants DEF IInv, Timed
      <3>. QED BY <1>1, <3>1 DEF TimeOf
    <2>3. (Batch - 1 - n) * MaxRelease \in Int /\ (Batch - 1 - n) * MaxRelease >= 0 BY <2>1, <2>2, Product
    <2>4. sender'[p].pc = "releasing" /\ Len(sender'[p].claims) = n /\ sender'[p].elapsed = sender[p].elapsed
          /\ sender'[p].spent = 0
      BY <1>2
    <2>. HIDE DEF n
    <2>5. sender[p].elapsed <= Budget - 1 + MaxCall + (Batch - 1 - n) * MaxRelease + 0
      BY <2>1, <2>2, <2>3, Constants
    <2>. QED BY <2>2, <2>4, <2>5, Constants DEF TimeOf
  <1>. QED BY <1>1, <1>2, <1>3, SilentKeeps

\* The message was taken, and its answer perhaps lost.
LEMMA AcceptedRow ==
    ASSUME NEW o \in [Row -> OutboxRow], NEW r \in Row
    PROVE  \A k \in Nat :
              /\ Accepted(o, r, k) \in [Row -> OutboxRow]
              /\ Accepted(o, r, k)[r].status = o[r].status /\ Accepted(o, r, k)[r].wait = o[r].wait
              /\ Accepted(o, r, k)[r].posts = o[r].posts + 1 /\ Accepted(o, r, k)[r].lost = o[r].lost + k
              /\ \A q \in Row \ {r} : Accepted(o, r, k)[q] = o[q]
  <1> TAKE k \in Nat
  <1> DEFINE m == o[r].posts + 1
             n == o[r].lost + k
             new == [o[r] EXCEPT !.posts = m, !.lost = n]
  <1>1. Accepted(o, r, k) = [o EXCEPT ![r] = new] BY DEF Accepted, OutboxRow
  <1>2. m \in Nat /\ n \in Nat /\ o[r] \in OutboxRow BY DEF OutboxRow
  <1>3. new \in OutboxRow
    <2>. HIDE DEF m, n
    <2>1. \A x \in OutboxRow : [x EXCEPT !.posts = m, !.lost = n] \in OutboxRow BY <1>2 DEF OutboxRow
    <2>. QED BY <1>2, <2>1
  <1>4. new.status = o[r].status /\ new.wait = o[r].wait /\ new.posts = m /\ new.lost = n
    BY <1>2 DEF OutboxRow
  <1>. HIDE DEF new
  <1>. QED BY <1>1, <1>3, <1>4

LEMMA AnswerKeeps == ASSUME IInv, NEW p \in Process, Answer(p) PROVE IInv'
  <1>1. sender[p].pc = "sending" /\ UNCHANGED <<writing, enabled, faults, saves>> BY DEF Answer
  <1>2. PICK a \in Answers \ {"unreadable", "dropped"} :
            /\ sender' = [sender EXCEPT ![p].pc = "answered", ![p].answer = a]
            /\ outbox' \in CASE a = "sent" -> {Accepted(outbox, Doing(p), 0)}
                             [] a = "timeout" -> {outbox, Accepted(outbox, Doing(p), 1)}
                             [] OTHER -> {outbox}
    BY DEF Answer
  <1> DEFINE d == Doing(p)
  <1>3. d \in Row /\ outbox \in [Row -> OutboxRow] BY <1>1, Busy DEF IInv, TypeOK
  <1>4. /\ StepOf(p) /\ sender'[p].claims = sender[p].claims /\ sender'[p].elapsed = sender[p].elapsed
        /\ sender'[p].pc = "answered" /\ sender'[p].answer = a /\ sender'[p].spent = sender[p].spent
    <2>1. sender[p].spent \in Nat /\ sender[p].after \in Nat /\ a \in Answered \cup {"none"}
      BY TimesAssumption DEF IInv, TypeOK, TickType
    <2>2. sender' = [sender EXCEPT ![p].pc = "answered", ![p].answer = a,
                                   ![p].spent = sender[p].spent, ![p].after = sender[p].after]
      BY <1>2 DEF IInv, TypeOK, TickType
    <2>3. TypeOK BY DEF IInv
    <2>4. StepOf(p) BY <2>1, <2>2, <2>3, Answering
    <2>5. /\ sender'[p].claims = sender[p].claims /\ sender'[p].elapsed = sender[p].elapsed
          /\ sender'[p].pc = "answered" /\ sender'[p].answer = a /\ sender'[p].spent = sender[p].spent
      BY <2>2 DEF IInv, TypeOK, TickType
    <2>. QED BY <2>4, <2>5
  <1>5. TimeOf(sender'[p]) BY <1>1, <1>4 DEF IInv, Timed, TimeOf
  <1>6. /\ outbox' \in [Row -> OutboxRow]
        /\ \A r \in Row : outbox'[r].status = outbox[r].status /\ outbox'[r].wait = outbox[r].wait
        /\ \A r \in Row : r # d => outbox'[r] = outbox[r]
        /\ \/ outbox'[d].posts = outbox[d].posts /\ outbox'[d].lost = outbox[d].lost
           \/ outbox'[d].posts = outbox[d].posts + 1 /\ outbox'[d].lost = outbox[d].lost + 1
           \/ outbox'[d].posts = outbox[d].posts + 1 /\ outbox'[d].lost = outbox[d].lost + 0 /\ a = "sent"
    <2>1. \/ outbox' = outbox
          \/ outbox' = Accepted(outbox, d, 1)
          \/ outbox' = Accepted(outbox, d, 0) /\ a = "sent"
      BY <1>2
    <2>. HIDE DEF d
    <2>2. CASE outbox' = outbox BY <1>3, <2>2
    <2>3. CASE outbox' = Accepted(outbox, d, 1) BY <1>3, <2>3, AcceptedRow
    <2>4. CASE outbox' = Accepted(outbox, d, 0) /\ a = "sent"
      <3> DEFINE a0 == Accepted(outbox, d, 0)
      <3>1. outbox' = a0 BY <2>4
      <3>2. /\ a0 \in [Row -> OutboxRow] /\ a0[d].status = outbox[d].status /\ a0[d].wait = outbox[d].wait
            /\ a0[d].posts = outbox[d].posts + 1 /\ a0[d].lost = outbox[d].lost + 0
            /\ \A q \in Row \ {d} : a0[q] = outbox[q]
        BY <1>3, AcceptedRow
      <3>. HIDE DEF a0
      <3>. QED BY <2>4, <3>1, <3>2
    <2>. QED BY <2>1, <2>2, <2>3, <2>4
  <1>7. TypeOK' /\ Queueing' /\ Distinct' /\ Apart' /\ Leased' /\ Timed'
    BY <1>1, <1>4, <1>5, <1>6, StayKeeps
  <1>8. Counted' /\ RepeatsOnlyLosses'
    <2>1. ~Accepts(p, d) BY <1>1 DEF Accepts
    <2>2. \A q \in Process : sender'[q].claims = sender[q].claims /\ (q # p => sender'[q] = sender[q])
      BY <1>4 DEF StepOf
    <2>3. \A r \in Row : outbox'[r].posts \in Nat /\ outbox'[r].lost \in Nat BY <1>6 DEF OutboxRow
    <2>4. Unsent(d) =>
              \/ outbox'[d].posts <= outbox'[d].lost
              \/ /\ sender'[p].pc = "answered" /\ sender'[p].answer = "sent"
                 /\ outbox'[d].posts <= outbox'[d].lost + 1
      <3>1. outbox[d].posts \in Nat /\ outbox[d].lost \in Nat BY <1>3 DEF OutboxRow
      <3>. HIDE DEF d
      <3>. QED BY <1>4, <1>6, <3>1 DEF Unsent
    <2>. QED BY <1>1, <1>6, <2>1, <2>2, <2>3, <2>4, StayCounts
  <1>. QED BY <1>7, <1>8 DEF IInv

-----------------------------------------------------------------------------
LEMMA RecordWrites ==
    ASSUME IInv, NEW p \in Process, Record(p)
    PROVE  /\ Written(outbox', Doing(p))
           /\ Accepts(p, Doing(p)) => outbox'[Doing(p)].status # "pending"
  <1> DEFINE d == Doing(p)
             a == sender[p].answer
  <1>1. sender[p].pc = "answered" BY DEF Record
  <1>2. d \in Row /\ outbox[d].status # "none" /\ Claimed(p).attempts \in Nat
    BY <1>1, Busy, FirstRow DEF IInv, Claim1
  <1>3. \/ a = "sent" /\ outbox' = MarkSent(outbox, d)
        \/ a # "sent" /\ \/ outbox' = Retried(p)
                         \/ outbox' = Rescheduled(p, RetryDelay(Claimed(p).attempts, 0))
                         \/ outbox' = GivenBack(outbox, d)
                         \/ outbox' = Rescheduled(p, Recheck)
                         \/ outbox' = Removed(outbox, Aim(p))
                         \/ outbox' = DeadForTarget(outbox, Aim(p))
                         \/ outbox' = Dead(outbox, d)
    BY DEF Record
  <1>4. a # "sent" => ~Accepts(p, d) BY DEF Accepts
  <1>5. RetryDelay(Claimed(p).attempts, 0) \in Int /\ Recheck \in Int BY <1>2, DelayType, Constants
  <1>. HIDE DEF d, a
  <1>6. CASE outbox' = MarkSent(outbox, d)
    <2>1. Written(MarkSent(outbox, d), d) /\ MarkSent(outbox, d)[d].status # "pending"
      BY <1>2, MarkSentWrites DEF IInv
    <2>. QED BY <1>6, <2>1 DEF d
  <1>7. Written(Retried(p), d) BY <1>1, <1>2, RetriedWrites DEF IInv, d
  <1>8. Written(Rescheduled(p, RetryDelay(Claimed(p).attempts, 0)), d) /\ Written(Rescheduled(p, Recheck), d)
    BY <1>1, <1>2, <1>5, RescheduledWrites DEF IInv, d
  <1>9. Written(GivenBack(outbox, d), d) /\ Written(Dead(outbox, d), d)
    BY <1>2, GivenBackWrites, DeadWrites DEF IInv
  <1>10. Written(Removed(outbox, Aim(p)), d) /\ Written(DeadForTarget(outbox, Aim(p)), d)
    BY TargetWrites DEF IInv
  <1>. QED BY <1>3, <1>4, <1>6, <1>7, <1>8, <1>9, <1>10 DEF d

LEMMA RecordKeeps == ASSUME IInv, NEW p \in Process, Record(p) PROVE IInv'
  <1> DEFINE after == Behind(sender[p])
  <1>1. PICK paused, hostPaused :
            sender' = [sender EXCEPT ![p] = IF after = NoTick THEN NoTick
                           ELSE [after EXCEPT !.paused = paused, !.hostPaused = hostPaused]]
            /\ paused \in {after.paused, after.paused \cup {Aim(p)}} /\ hostPaused \in BOOLEAN
    <2> DEFINE pauses == sender[p].answer = "gone"
                         \/ (sender[p].answer = "limited" /\ ~(Aim(p) \in Push /\ Expires(p)))
               paused == IF pauses THEN after.paused \cup {Aim(p)} ELSE after.paused
               hostPaused == after.hostPaused \/ (Aim(p) \in Push /\ sender[p].answer \in {"limited", "timeout"})
    <2>1. sender' = [sender EXCEPT ![p] = IF after = NoTick THEN NoTick
                        ELSE [after EXCEPT !.paused = paused, !.hostPaused = hostPaused]]
      BY DEF Record
    <2>2. paused \in {after.paused, after.paused \cup {Aim(p)}} /\ hostPaused \in BOOLEAN OBVIOUS
    <2>. HIDE DEF paused, hostPaused, after
    <2>. QED BY <2>1, <2>2
  <1>2. sender[p].pc = "answered" /\ UNCHANGED <<writing, faults, saves>> BY DEF Record
  <1>3. /\ sender[p] \in TickType /\ sender[p].claims # <<>> /\ Aim(p) \in Target BY <1>2, Busy DEF IInv
  <1> DEFINE new == IF after = NoTick THEN NoTick ELSE [after EXCEPT !.paused = paused, !.hostPaused = hostPaused]
  <1>4. /\ after \in TickType /\ (after.pc = "idle" <=> after.claims = <<>>) /\ after.pc \in {"idle", "next"}
        /\ Len(sender[p].claims) = 1 => after = NoTick /\ after.claims = <<>>
        /\ Len(sender[p].claims) # 1 => after.claims = Tail(sender[p].claims) /\ after.elapsed = sender[p].elapsed
    <2>1. /\ after \in TickType /\ (after.pc = "idle" <=> after.claims = <<>>)
          /\ Len(sender[p].claims) = 1 => after = NoTick
          /\ Len(sender[p].claims) # 1 =>
                 after.pc = "next" /\ after.claims = Tail(sender[p].claims) /\ after.elapsed = sender[p].elapsed
      BY <1>3, BehindIs
    <2>2. NoTick.pc = "idle" /\ NoTick.claims = <<>> BY DEF NoTick
    <2>. HIDE DEF after
    <2>. QED BY <2>1, <2>2
  <1>5. TimeOf(after) BY <1>2, BehindTimes
  <1>6. /\ new \in TickType /\ (new.pc = "idle" <=> new.claims = <<>>) /\ new.pc \in {"idle", "next", "releasing"}
        /\ Len(sender[p].claims) = 1 => new.claims = <<>>
        /\ Len(sender[p].claims) # 1 => new.claims = Tail(sender[p].claims) /\ new.elapsed = sender[p].elapsed
        /\ TimeOf(new)
    <2>. HIDE DEF after
    <2>1. CASE after = NoTick BY <1>4, <1>5, <2>1
    <2>2. CASE after # NoTick
      <3>1. after.paused \in SUBSET Target BY <1>4 DEF TickType
      <3>2. paused \in SUBSET Target BY <1>1, <1>3, <3>1
      <3>3. new = [after EXCEPT !.paused = paused, !.hostPaused = hostPaused] BY <2>2
      <3>. HIDE DEF new
      <3>4. new \in TickType /\ new.pc = after.pc /\ new.claims = after.claims /\ new.elapsed = after.elapsed
            /\ new.spent = after.spent
        BY <1>1, <1>4, <3>2, <3>3 DEF TickType
      <3>5. TimeOf(new) BY <1>5, <3>4 DEF TimeOf
      <3>. QED BY <1>4, <3>4, <3>5
    <2>. QED BY <2>1, <2>2
  <1>7. enabled' \in [Target -> BOOLEAN] BY <1>3 DEF IInv, TypeOK, Record
  <1>8. sender' = [sender EXCEPT ![p] = new] BY <1>1
  <1>. HIDE DEF new, after
  <1>. QED BY <1>2, <1>6, <1>7, <1>8, RecordWrites, AdvanceKeeps

LEMMA SaveKeeps == ASSUME IInv, NEW t \in Target, Save(t) PROVE IInv'
  <1>1. TypeOK' /\ Queueing' BY DEF IInv, TypeOK, Queueing, Save
  <1>2. UNCHANGED <<outbox, sender>> BY DEF Save
  <1>. QED BY <1>1, <1>2, Untouched DEF IInv

LEMMA DisableKeeps == ASSUME IInv, NEW t \in Target, Disable(t) PROVE IInv'
  <1>1. UNCHANGED <<writing, sender, faults>> /\ outbox' = DeadForTarget(outbox, t) BY DEF Disable
  <1>2. Written(outbox', 0) BY <1>1, TargetWrites DEF IInv
  <1>3. TypeOK'
    <2>1. enabled' \in [Target -> BOOLEAN] /\ saves' \in Nat BY DEF IInv, TypeOK, Disable
    <2>. QED BY <1>1, <1>2, <2>1 DEF IInv, TypeOK, Written
  <1>4. Queueing' /\ Distinct' /\ Apart' /\ Timed'
    BY <1>1, <1>2 DEF IInv, TypeOK, Queueing, Distinct, Apart, Timed, Written
  <1>5. \A q \in Process : \A i \in 1 .. Len(sender[q].claims) : sender[q].claims[i].row \in Row
    BY RowsOfClaims DEF IInv
  <1>6. Leased'
    <2>1. ASSUME NEW q \in Process, NEW i \in 1 .. Len(sender[q].claims)
          PROVE  LET r == sender[q].claims[i].row
                 IN  /\ outbox'[r].status # "none"
                     /\ outbox'[r].status = "pending" => outbox'[r].wait >= Lease - sender[q].elapsed
      <3> DEFINE r == sender[q].claims[i].row
      <3>1. outbox[r].status # "none" /\ (outbox[r].status = "pending" => outbox[r].wait >= Lease - sender[q].elapsed)
        BY DEF IInv, Leased, Pending
      <3>2. r \in Row /\ r # 0 BY <1>5 DEF Row
      <3>. HIDE DEF r
      <3>3. outbox'[r].status # "none" /\ (outbox'[r].status = "pending" => outbox'[r].wait >= Lease - sender[q].elapsed)
        BY <1>2, <3>1, <3>2 DEF Written, Pending
      <3>. QED BY <3>3 DEF r
    <2>. QED BY <1>1, <2>1 DEF Leased, Pending
  <1>7. \A q, r : Accepts(q, r)' <=> Accepts(q, r) BY <1>1 DEF Accepts, Doing, Claimed
  <1>8. \A r \in Row : (Unsent(r)' <=> Unsent(r)) /\ (Pending(r)' => Pending(r))
    BY <1>2 DEF Written, Unsent, Pending
  <1>9. ASSUME NEW q \in Process, NEW i \in 1 .. Len(sender[q].claims), ~Accepts(q, sender[q].claims[i].row)'
        PROVE  Unsent(sender[q].claims[i].row)'
    <2>1. ~Accepts(q, sender[q].claims[i].row) BY <1>1, <1>7, <1>9
    <2>2. Unsent(sender[q].claims[i].row) BY <2>1 DEF IInv, Counted
    <2>. QED BY <1>1, <1>5, <1>8, <2>2
  <1>10. ASSUME NEW r \in Row, Pending(r)', \A q \in Process : ~Accepts(q, r)' PROVE Unsent(r)'
    BY <1>7, <1>8, <1>10 DEF IInv, Counted
  <1>11. Counted' BY <1>1, <1>9, <1>10 DEF Counted
  <1>12. RepeatsOnlyLosses' BY <1>2 DEF IInv, RepeatsOnlyLosses, Written
  <1>. QED BY <1>3, <1>4, <1>6, <1>11, <1>12 DEF IInv

-----------------------------------------------------------------------------
LEMMA AbandonKeeps == ASSUME IInv, NEW p \in Process, Abandon(p) PROVE IInv'
  <1> DEFINE d == Doing(p)
  <1>1. /\ sender[p].pc # "idle" /\ faults' = faults + 1 /\ sender' = [sender EXCEPT ![p] = NoTick]
        /\ UNCHANGED <<writing, enabled, saves>>
    BY DEF Abandon
  <1>2. d \in Row /\ outbox \in [Row -> OutboxRow] /\ outbox[d] \in OutboxRow BY <1>1, Busy DEF IInv, TypeOK
  <1>3. \/ outbox' = outbox /\ ~Accepts(p, d)
        \/ outbox' = Accepted(outbox, d, 1) /\ ~Accepts(p, d)
        \/ outbox' = [outbox EXCEPT ![d].lost = @ + 1]
    BY <1>1 DEF Abandon, Accepts
  <1>4. /\ outbox' \in [Row -> OutboxRow]
        /\ \A r \in Row : outbox'[r].status = outbox[r].status /\ outbox'[r].wait = outbox[r].wait
        /\ \A r \in Row : r # d => outbox'[r] = outbox[r]
        /\ \/ outbox'[d].posts = outbox[d].posts /\ outbox'[d].lost = outbox[d].lost /\ ~Accepts(p, d)
           \/ outbox'[d].posts = outbox[d].posts + 1 /\ outbox'[d].lost = outbox[d].lost + 1 /\ ~Accepts(p, d)
           \/ outbox'[d].posts = outbox[d].posts /\ outbox'[d].lost = outbox[d].lost + 1
    <2>. HIDE DEF d
    <2>1. CASE outbox' = outbox /\ ~Accepts(p, d) BY <1>2, <2>1
    <2>2. CASE outbox' = Accepted(outbox, d, 1) /\ ~Accepts(p, d)
      <3> DEFINE a1 == Accepted(outbox, d, 1)
      <3>1. outbox' = a1 BY <2>2
      <3>2. /\ a1 \in [Row -> OutboxRow] /\ a1[d].status = outbox[d].status /\ a1[d].wait = outbox[d].wait
            /\ a1[d].posts = outbox[d].posts + 1 /\ a1[d].lost = outbox[d].lost + 1
            /\ \A q \in Row \ {d} : a1[q] = outbox[q]
        BY <1>2, AcceptedRow
      <3>. HIDE DEF a1
      <3>. QED BY <2>2, <3>1, <3>2
    <2>3. CASE outbox' = [outbox EXCEPT ![d].lost = @ + 1]
      <3> DEFINE n == outbox[d].lost + 1
                 new == [outbox[d] EXCEPT !.lost = n]
      <3>1. outbox' = [outbox EXCEPT ![d] = new] /\ n \in Nat BY <1>2, <2>3 DEF OutboxRow
      <3>2. /\ new \in OutboxRow /\ new.status = outbox[d].status /\ new.wait = outbox[d].wait
            /\ new.posts = outbox[d].posts /\ new.lost = n
        <4>. HIDE DEF n
        <4>. QED BY <1>2, <3>1 DEF OutboxRow
      <3>. HIDE DEF new
      <3>. QED BY <1>2, <3>1, <3>2
    <2>. QED BY <1>3, <2>1, <2>2, <2>3
  <1>5. outbox'[d].posts <= outbox'[d].lost /\ outbox'[d].posts \in Nat /\ outbox'[d].lost \in Nat
    <2>1. outbox[d].posts \in Nat /\ outbox[d].lost \in Nat BY <1>2 DEF OutboxRow
    <2>2. outbox[d].posts <= outbox[d].lost + 1 BY <1>2 DEF IInv, RepeatsOnlyLosses
    <2>3. ~Accepts(p, d) => outbox[d].posts <= outbox[d].lost BY <1>1, FirstRow DEF Unsent
    <2>. HIDE DEF d
    <2>. QED BY <1>4, <2>1, <2>2, <2>3
  <1>6. sender'[p] = NoTick /\ \A q \in Process \ {p} : sender'[q] = sender[q] BY <1>1 DEF IInv, TypeOK
  <1>7. TypeOK'
    <2>1. NoTick \in TickType /\ NoTick.pc = "idle" /\ NoTick.claims = <<>> BY EmptySeq DEF NoTick, TickType
    <2>2. sender' \in [Process -> TickType] BY <1>1, <2>1 DEF IInv, TypeOK
    <2>3. \A q \in Process : sender'[q].pc = "idle" <=> sender'[q].claims = <<>> BY <1>6, <2>1 DEF IInv, TypeOK
    <2>. QED BY <1>1, <1>4, <2>2, <2>3 DEF IInv, TypeOK
  <1>8. Queueing' /\ Distinct' /\ Apart' /\ Leased'
    <2>1. Keeps(p, 0) BY <1>6, EmptySeq DEF Keeps, NoTick
    <2>. QED BY <1>1, <1>4, <1>7, <2>1, KeepsClaims DEF IInv, Pending
  <1>9. Timed'
    <2>1. TimeOf(NoTick) BY DEF TimeOf, NoTick
    <2>. QED BY <1>6, <2>1 DEF IInv, Timed
  <1>10. \A q \in Process \ {p} : \A r : Accepts(q, r)' <=> Accepts(q, r) BY <1>6 DEF Accepts, Doing, Claimed
  <1>11. ASSUME NEW r \in Row, Pending(r)', \A q \in Process : ~Accepts(q, r)' PROVE Unsent(r)'
    <2>1. CASE r = d BY <1>5, <2>1 DEF Unsent
    <2>2. CASE r # d
      <3>1. ~Accepts(p, r) BY <2>2 DEF Accepts
      <3>. QED BY <1>4, <1>10, <1>11, <2>2, <3>1 DEF IInv, Counted, Unsent, Pending
    <2>. QED BY <2>1, <2>2
  <1>12. ASSUME NEW q \in Process, NEW i \in 1 .. Len(sender'[q].claims), ~Accepts(q, sender[q].claims[i].row)'
         PROVE  Unsent(sender[q].claims[i].row)'
    <2>1. q # p BY <1>6, EmptySeq DEF NoTick
    <2>2. sender'[q] = sender[q] BY <1>6, <2>1
    <2>3. sender[q].claims[i].row \in Row /\ sender[q].claims[i].row # d
      BY <1>1, <2>1, <2>2, RowsOfClaims, OnlyThere DEF IInv
    <2>4. ~Accepts(q, sender[q].claims[i].row) BY <1>10, <1>12, <2>1, <2>2
    <2>. QED BY <1>4, <2>2, <2>3, <2>4 DEF IInv, Counted, Unsent
  <1>13. Counted' BY <1>11, <1>12 DEF Counted
  <1>14. RepeatsOnlyLosses' BY <1>4, <1>5 DEF IInv, RepeatsOnlyLosses
  <1>. QED BY <1>7, <1>8, <1>9, <1>13, <1>14 DEF IInv

-----------------------------------------------------------------------------
LEMMA FiniteRows == ASSUME NEW S \in SUBSET Row PROVE IsFiniteSet(S) /\ Cardinality(S) \in Nat
  <1>1. IsFiniteSet(Row) BY Constants, FS_Interval DEF Row
  <1>. QED BY <1>1, FS_Subset, FS_CardinalityType

\* What is claimed: some of the due rows, as many as a batch takes, each once.
LEMMA OrderOnce ==
    ASSUME NEW rows \in SUBSET Row, NEW order \in [1 .. Cardinality(rows) -> rows], InTurn(order)
    PROVE  \A i, j \in 1 .. Cardinality(rows) : i # j => order[i] # order[j]
  <1>1. Cardinality(rows) \in Nat BY FiniteRows
  <1>2. \A r \in Row : Turn(r) \in Nat
    <2>1. \A r \in Row : {q \in Row : Due(q) /\ SameServer(r, q) /\ Ahead(q, r)} \in SUBSET Row OBVIOUS
    <2>. QED BY <2>1, FiniteRows DEF Turn
  <1>3. ASSUME NEW i \in 1 .. Cardinality(rows), NEW j \in 1 .. Cardinality(rows), i < j
        PROVE order[i] # order[j]
    <2>1. order[i] \in Row /\ order[j] \in Row BY <1>3
    <2>2. \/ Turn(order[i]) < Turn(order[j])
          \/ Turn(order[i]) = Turn(order[j]) /\ order[i] < order[j]
      BY <1>1, <1>3 DEF InTurn
    <2>3. Turn(order[i]) \in Nat /\ Turn(order[j]) \in Nat /\ order[i] \in Int /\ order[j] \in Int
      BY <1>2, <2>1, Constants DEF Row
    <2>. QED BY <2>2, <2>3
  <1>. QED BY <1>1, <1>3

LEMMA ClaimKeeps == ASSUME InTime, IInv, NEW p \in Process, Claim(p) PROVE IInv'
  <1>1. sender[p].pc = "idle" /\ Dues # {} /\ UNCHANGED <<writing, enabled, faults, saves>> BY DEF Claim
  <1> DEFINE Takes(rows, order) ==
        /\ Picked(rows) /\ InTurn(order)
        /\ sender' = [sender EXCEPT ![p] = [NoTick EXCEPT
             !.pc = "next",
             !.claims = [i \in 1 .. Cardinality(rows) |->
                [row |-> order[i], attempts |-> outbox[order[i]].attempts + 1]]]]
        /\ outbox' = [r \in Row |-> IF r \in rows
             THEN [outbox[r] EXCEPT !.attempts = @ + 1, !.wait = Lease] ELSE outbox[r]]
  <1>takes. \E rows \in SUBSET Dues : \E order \in [1 .. Cardinality(rows) -> rows] : Takes(rows, order)
    BY DEF Claim
  <1>. HIDE DEF Takes
  <1>rows. PICK rows \in SUBSET Dues : \E order \in [1 .. Cardinality(rows) -> rows] : Takes(rows, order)
    BY <1>takes
  <1>order. PICK order \in [1 .. Cardinality(rows) -> rows] : Takes(rows, order) BY <1>rows
  <1>2. /\ Picked(rows) /\ InTurn(order)
        /\ sender' = [sender EXCEPT ![p] = [NoTick EXCEPT
             !.pc = "next",
             !.claims = [i \in 1 .. Cardinality(rows) |->
                [row |-> order[i], attempts |-> outbox[order[i]].attempts + 1]]]]
        /\ outbox' = [r \in Row |-> IF r \in rows
             THEN [outbox[r] EXCEPT !.attempts = @ + 1, !.wait = Lease] ELSE outbox[r]]
    BY <1>order DEF Takes
  <1> DEFINE n == Cardinality(rows)
             taken == [i \in 1 .. n |-> [row |-> order[i], attempts |-> outbox[order[i]].attempts + 1]]
             new == [NoTick EXCEPT !.pc = "next", !.claims = taken]
  <1>3. rows \in SUBSET Row /\ \A r \in rows : Due(r) BY DEF Dues
  <1>4. n \in Nat \ {0} /\ n <= Batch
    <2>1. IsFiniteSet(Dues) /\ Cardinality(Dues) \in Nat /\ Cardinality(Dues) # 0
      BY <1>1, FiniteRows, FS_EmptySet DEF Dues
    <2>2. n = Least(Batch, Cardinality(Dues)) BY <1>2 DEF Picked
    <2>. QED BY <2>1, <2>2, Constants DEF Least
  <1>5. \A r \in Row : /\ outbox[r] \in OutboxRow
                       /\ outbox[r].attempts + 1 \in Nat \ {0}
    BY DEF IInv, TypeOK, OutboxRow
  <1>6. /\ taken \in Seq(Claim1) /\ Len(taken) = n /\ taken # <<>>
        /\ \A i \in 1 .. n : taken[i].row = order[i]
    <2>1. \A i \in 1 .. n : order[i] \in Row BY <1>2, <1>3
    <2>2. \A i \in 1 .. n : taken[i] \in Claim1 BY <1>5, <2>1 DEF Claim1
    <2>3. taken \in [1 .. n -> Claim1] BY <2>2
    <2>4. taken \in Seq(Claim1) BY <1>4, <2>3, SeqDef
    <2>5. DOMAIN taken = 1 .. n OBVIOUS
    <2>6. \A i \in 1 .. n : taken[i].row = order[i] OBVIOUS
    <2>. HIDE DEF taken
    <2>7. Len(taken) = n BY <1>4, <2>4, <2>5, LenProperties
    <2>8. taken # <<>> BY <1>4, <2>7, EmptySeq
    <2>. QED BY <2>4, <2>6, <2>7, <2>8
  <1>7. new \in TickType /\ new.pc = "next" /\ new.claims = taken /\ new.elapsed = 0
    <2>. HIDE DEF taken
    <2>. QED BY <1>6 DEF NoTick, TickType, Claim1
  <1>8. sender' = [sender EXCEPT ![p] = new] BY <1>2
  <1>. HIDE DEF new, taken, n
  <1>9. sender'[p] = new /\ \A q \in Process \ {p} : sender'[q] = sender[q] BY <1>8 DEF IInv, TypeOK
  <1>10. \A r \in Row : /\ outbox'[r] \in OutboxRow
                        /\ outbox'[r].status = outbox[r].status /\ outbox'[r].posts = outbox[r].posts
                        /\ outbox'[r].lost = outbox[r].lost
                        /\ r \in rows => outbox'[r].wait = Lease
                        /\ r \notin rows => outbox'[r].wait = outbox[r].wait
    <2>. TAKE r \in Row
    <2>1. CASE r \in rows
      <3> DEFINE m == outbox[r].attempts + 1
                 row == [outbox[r] EXCEPT !.attempts = m, !.wait = Lease]
      <3>1. outbox'[r] = row BY <1>2, <2>1
      <3>typed. m \in Nat /\ Lease \in Int /\ outbox[r] \in OutboxRow BY <1>5, Constants
      <3>. HIDE DEF m
      <3>2. row \in OutboxRow /\ row.status = outbox[r].status /\ row.posts = outbox[r].posts
            /\ row.lost = outbox[r].lost /\ row.wait = Lease
        BY <3>typed DEF OutboxRow
      <3>. HIDE DEF row
      <3>. QED BY <2>1, <3>1, <3>2
    <2>2. CASE r \notin rows BY <1>2, <1>5, <2>2
    <2>. QED BY <2>1, <2>2
  <1>11. TypeOK'
    <2>1. outbox' \in [Row -> OutboxRow] BY <1>2, <1>10
    <2>2. sender' \in [Process -> TickType] BY <1>7, <1>8 DEF IInv, TypeOK
    <2>3. \A q \in Process : sender'[q].pc = "idle" <=> sender'[q].claims = <<>>
      BY <1>6, <1>7, <1>9 DEF IInv, TypeOK
    <2>. QED BY <1>1, <2>1, <2>2, <2>3 DEF IInv, TypeOK
  <1>12. Queueing' BY <1>1, <1>10 DEF IInv, Queueing, TypeOK
  <1>13. \A q \in Process : \A i \in 1 .. Len(sender[q].claims) :
             sender[q].claims[i].row \in Row /\ sender[q].claims[i].row \notin rows
    BY <1>3, RowsOfClaims, ClaimedIsNotDue DEF IInv
  <1>14. \A i \in 1 .. Len(sender'[p].claims) :
             sender'[p].claims[i].row = order[i] /\ order[i] \in rows /\ order[i] \in Row
    BY <1>3, <1>6, <1>7, <1>9 DEF n
  <1>15. Distinct'
    <2>1. \A i, j \in 1 .. n : i # j => order[i] # order[j] BY <1>2, <1>3, OrderOnce DEF n
    <2>2. \A i, j \in 1 .. Len(sender'[p].claims) : i # j => sender'[p].claims[i].row # sender'[p].claims[j].row
      BY <1>6, <1>7, <1>9, <1>14, <2>1
    <2>. QED BY <1>9, <2>2 DEF IInv, Distinct
  <1>16. Apart'
    <2>1. ASSUME NEW q \in Process, NEW u \in Process, q # u,
                 NEW i \in 1 .. Len(sender'[q].claims), NEW j \in 1 .. Len(sender'[u].claims)
          PROVE  sender'[q].claims[i].row # sender'[u].claims[j].row
      <3>1. CASE q = p
        <4>1. sender'[q].claims[i].row \in rows BY <1>14, <3>1
        <4>2. sender'[u].claims[j].row \notin rows BY <1>9, <1>13, <2>1, <3>1
        <4>. QED BY <4>1, <4>2
      <3>2. CASE u = p
        <4>1. sender'[u].claims[j].row \in rows BY <1>14, <3>2
        <4>2. sender'[q].claims[i].row \notin rows BY <1>9, <1>13, <2>1, <3>2
        <4>. QED BY <4>1, <4>2
      <3>3. CASE q # p /\ u # p
        <4>1. sender'[q] = sender[q] /\ sender'[u] = sender[u] BY <1>9, <3>3
        <4>2. Apart BY DEF IInv
        <4>. QED BY <2>1, <4>1, <4>2 DEF Apart
      <3>. QED BY <3>1, <3>2, <3>3
    <2>. QED BY <2>1 DEF Apart
  <1>17. Leased'
    <2>1. ASSUME NEW q \in Process, NEW i \in 1 .. Len(sender'[q].claims)
          PROVE  /\ outbox'[sender'[q].claims[i].row].status # "none"
                 /\ outbox'[sender'[q].claims[i].row].status = "pending" =>
                        outbox'[sender'[q].claims[i].row].wait >= Lease - sender'[q].elapsed
      <3>1. CASE q = p
        <4>1. Due(order[i]) BY <1>3, <1>14, <3>1
        <4>2. sender'[q].claims[i].row = order[i] /\ order[i] \in rows /\ order[i] \in Row BY <1>14, <3>1
        <4>3. outbox'[order[i]].status = outbox[order[i]].status /\ outbox'[order[i]].wait = Lease
          BY <1>10, <4>2
        <4>4. outbox[order[i]].status = "pending" BY <4>1 DEF Due, Pending
        <4>5. sender'[q].elapsed = 0 /\ Lease >= Lease - 0 BY <1>7, <1>9, <3>1, Constants
        <4>. QED BY <4>2, <4>3, <4>4, <4>5
      <3>2. CASE q # p BY <1>9, <1>10, <1>13, <3>2 DEF IInv, Leased, Pending
      <3>. QED BY <3>1, <3>2
    <2>. QED BY <2>1 DEF Leased, Pending
  <1>18. Timed'
    <2>1. TimeOf(new) BY <1>4, <1>6, <1>7, Constants DEF TimeOf
    <2>. QED BY <1>9, <2>1 DEF IInv, Timed
  <1>19. \A q \in Process : \A r : Accepts(q, r)' <=> Accepts(q, r)
    BY <1>1, <1>7, <1>9 DEF Accepts, Doing, Claimed
  <1>20. \A r \in Row : (Unsent(r)' <=> Unsent(r)) /\ (Pending(r)' <=> Pending(r)) BY <1>10 DEF Unsent, Pending
  <1>21. ASSUME NEW r \in Row, Pending(r)', \A q \in Process : ~Accepts(q, r)' PROVE Unsent(r)'
    BY <1>19, <1>20, <1>21 DEF IInv, Counted
  <1>22. ASSUME NEW q \in Process, NEW i \in 1 .. Len(sender'[q].claims), ~Accepts(q, sender[q].claims[i].row)'
         PROVE  Unsent(sender[q].claims[i].row)'
    <2>1. CASE q = p
      <3>1. order[i] \in Row /\ Pending(order[i]) /\ sender'[p].claims[i].row = order[i] /\ order[i] \in rows
        BY <1>3, <1>14, <2>1 DEF Due
      <3>2. \A u \in Process : ~Accepts(u, order[i])
        <4>1. \A u \in Process : sender[u].pc # "idle" => Doing(u) \notin rows BY <1>13, Busy DEF IInv
        <4>. QED BY <3>1, <4>1 DEF Accepts
      <3>3. Unsent(order[i]) BY <3>1, <3>2 DEF IInv, Counted
      <3>. QED BY <1>10, <2>1, <3>1, <3>3 DEF Unsent
    <2>2. CASE q # p
      <3>1. sender'[q] = sender[q] BY <1>9, <2>2
      <3>2. ~Accepts(q, sender[q].claims[i].row) BY <1>19, <1>22, <3>1
      <3>3. Unsent(sender[q].claims[i].row) BY <3>1, <3>2 DEF IInv, Counted
      <3>. QED BY <1>10, <1>13, <3>1, <3>3 DEF Unsent
    <2>. QED BY <2>1, <2>2
  <1>23. Counted' BY <1>21, <1>22 DEF Counted
  <1>24. RepeatsOnlyLosses' BY <1>10 DEF IInv, RepeatsOnlyLosses
  <1>. QED BY <1>11, <1>12, <1>15, <1>16, <1>17, <1>18, <1>23, <1>24 DEF IInv

-----------------------------------------------------------------------------
\* Time passes: what is due later stays within its lease.
LEMMA FiniteWaits ==
    ASSUME NEW o, NEW S \in SUBSET Row PROVE Cardinality({o[q].wait : q \in S}) \in Nat
  <1> DEFINE W == {o[q].wait : q \in S}
             f == [q \in S |-> o[q].wait]
  <1>1. IsFiniteSet(S) BY FiniteRows
  <1>2. f \in Surjection(S, W) BY Fun_IsSurj
  <1>3. IsFiniteSet(W) BY <1>1, <1>2, FS_Surjection
  <1>. QED BY <1>3, FS_CardinalityType

LEMMA SqueezedRow ==
    ASSUME NEW o \in [Row -> OutboxRow]
    PROVE  /\ Squeezed(o) \in [Row -> OutboxRow]
           /\ \A r \in Row : /\ Squeezed(o)[r].status = o[r].status /\ Squeezed(o)[r].posts = o[r].posts
                             /\ Squeezed(o)[r].lost = o[r].lost /\ (o[r].wait >= 0 => Squeezed(o)[r].wait = o[r].wait)
  <1>1. ASSUME NEW r \in Row
        PROVE  /\ Squeezed(o)[r] \in OutboxRow
               /\ Squeezed(o)[r].status = o[r].status /\ Squeezed(o)[r].posts = o[r].posts
               /\ Squeezed(o)[r].lost = o[r].lost /\ (o[r].wait >= 0 => Squeezed(o)[r].wait = o[r].wait)
    <2> DEFINE S == {x \in Row : o[r].wait <= o[x].wait /\ o[x].wait < 0}
               n == -Cardinality({o[q].wait : q \in S})
               new == [o[r] EXCEPT !.wait = n]
    <2>1. Squeezed(o)[r] = IF o[r].wait >= 0 THEN o[r] ELSE new BY DEF Squeezed
    <2>2. o[r] \in OutboxRow OBVIOUS
    <2>3. n \in Int
      <3>1. S \in SUBSET Row OBVIOUS
      <3>. HIDE DEF S
      <3>. QED BY <3>1, FiniteWaits
    <2>4. new \in OutboxRow /\ new.status = o[r].status /\ new.posts = o[r].posts /\ new.lost = o[r].lost
      <3>. HIDE DEF n
      <3>. QED BY <2>2, <2>3 DEF OutboxRow
    <2>. HIDE DEF new
    <2>. QED BY <2>1, <2>2, <2>4
  <1>2. Squeezed(o) \in [Row -> OutboxRow] BY <1>1 DEF Squeezed
  <1>. QED BY <1>1, <1>2

LEMMA AgedRow ==
    ASSUME NEW o \in [Row -> OutboxRow]
    PROVE  /\ Aged(o) \in [Row -> OutboxRow]
           /\ \A r \in Row : /\ Aged(o)[r].status = o[r].status /\ Aged(o)[r].posts = o[r].posts
                             /\ Aged(o)[r].lost = o[r].lost
                             /\ o[r].status = "pending" => Aged(o)[r].wait = o[r].wait - 1
  <1>1. ASSUME NEW r \in Row
        PROVE  /\ Aged(o)[r] \in OutboxRow
               /\ Aged(o)[r].status = o[r].status /\ Aged(o)[r].posts = o[r].posts /\ Aged(o)[r].lost = o[r].lost
               /\ o[r].status = "pending" => Aged(o)[r].wait = o[r].wait - 1
    <2>1. o[r] \in OutboxRow OBVIOUS
    <2>2. PICK wait \in Int, age \in Nat :
              Aged(o)[r] = [o[r] EXCEPT !.wait = wait, !.age = age]
              /\ (o[r].status = "pending" => wait = o[r].wait - 1)
      <3>1. CASE o[r].status = "pending"
        <4> DEFINE wait == o[r].wait - 1
                   age == Least(o[r].age + 1, DeadAfter + MaxCall)
        <4>1. wait \in Int /\ age \in Nat BY <2>1, Constants DEF OutboxRow, Least
        <4>2. Aged(o)[r] = [o[r] EXCEPT !.wait = wait, !.age = age] BY <3>1 DEF Aged
        <4>3. wait = o[r].wait - 1 OBVIOUS
        <4>. HIDE DEF wait, age
        <4>. QED BY <4>1, <4>2, <4>3
      <3>2. CASE o[r].status # "pending"
        <4> DEFINE zero == 0
        <4>1. Aged(o)[r] = [o[r] EXCEPT !.wait = zero, !.age = zero] BY <3>2 DEF Aged
        <4>2. zero \in Int /\ zero \in Nat OBVIOUS
        <4>. HIDE DEF zero
        <4>. QED BY <3>2, <4>1, <4>2
      <3>. QED BY <3>1, <3>2
    <2> DEFINE new == [o[r] EXCEPT !.wait = wait, !.age = age]
    <2>3. new \in OutboxRow /\ new.status = o[r].status /\ new.posts = o[r].posts /\ new.lost = o[r].lost
          /\ new.wait = wait
      BY <2>1 DEF OutboxRow
    <2>. HIDE DEF new
    <2>. QED BY <2>2, <2>3 DEF new
  <1>2. Aged(o) \in [Row -> OutboxRow] BY <1>1 DEF Aged
  <1>. QED BY <1>1, <1>2

LEMMA TickKeeps == ASSUME InTime, IInv, Tick PROVE IInv'
  <1>1. /\ \A p \in Process : MayWait(p)
        /\ outbox' = Squeezed(Aged(outbox)) /\ UNCHANGED <<writing, enabled, faults, saves>>
        /\ sender' = [p \in Process |-> IF sender[p].pc = "idle" THEN NoTick
                        ELSE [sender[p] EXCEPT !.elapsed = Least(@ + 1, Lease), !.spent = @ + 1]]
    BY DEF Tick
  <1>2. /\ outbox' \in [Row -> OutboxRow]
        /\ \A r \in Row : /\ outbox'[r].status = outbox[r].status /\ outbox'[r].posts = outbox[r].posts
                          /\ outbox'[r].lost = outbox[r].lost
                          /\ outbox[r].status = "pending" /\ outbox[r].wait >= 1 =>
                                 outbox'[r].wait = outbox[r].wait - 1
    <2>1. outbox \in [Row -> OutboxRow] BY DEF IInv, TypeOK
    <2> DEFINE a == Aged(outbox)
    <2>2. /\ a \in [Row -> OutboxRow]
          /\ \A r \in Row : /\ a[r].status = outbox[r].status /\ a[r].posts = outbox[r].posts
                            /\ a[r].lost = outbox[r].lost
                            /\ outbox[r].status = "pending" => a[r].wait = outbox[r].wait - 1
      BY <2>1, AgedRow
    <2>3. outbox' = Squeezed(a) BY <1>1
    <2>. HIDE DEF a
    <2>4. /\ Squeezed(a) \in [Row -> OutboxRow]
          /\ \A r \in Row : /\ Squeezed(a)[r].status = a[r].status /\ Squeezed(a)[r].posts = a[r].posts
                            /\ Squeezed(a)[r].lost = a[r].lost
                            /\ a[r].wait >= 0 => Squeezed(a)[r].wait = a[r].wait
      BY <2>2, SqueezedRow
    <2>5. \A r \in Row : outbox[r].wait \in Int BY <2>1 DEF OutboxRow
    <2>. QED BY <2>2, <2>3, <2>4, <2>5
  <1>3. ASSUME NEW p \in Process
        PROVE  /\ sender'[p] \in TickType /\ sender'[p].pc = sender[p].pc /\ sender'[p].claims = sender[p].claims
               /\ sender[p].pc = "idle" => sender'[p].elapsed = 0
               /\ sender[p].pc # "idle" => /\ sender'[p].elapsed = sender[p].elapsed + 1
                                           /\ sender'[p].spent = sender[p].spent + 1
                                           /\ sender'[p].answer = sender[p].answer
    <2>1. sender[p] \in TickType /\ (sender[p].pc = "idle" <=> sender[p].claims = <<>>) BY DEF IInv, TypeOK
    <2>2. CASE sender[p].pc = "idle"
      <3>1. sender'[p] = NoTick BY <1>1, <2>2
      <3>2. NoTick \in TickType /\ NoTick.pc = "idle" /\ NoTick.claims = <<>> /\ NoTick.elapsed = 0
        BY EmptySeq DEF NoTick, TickType
      <3>. QED BY <2>1, <2>2, <3>1, <3>2
    <2>3. CASE sender[p].pc # "idle"
      <3> DEFINE e == Least(sender[p].elapsed + 1, Lease)
                 n == sender[p].spent + 1
                 new == [sender[p] EXCEPT !.elapsed = e, !.spent = n]
      <3>1. sender'[p] = new BY <1>1, <2>3
      <3>2. sender[p].elapsed < Lease BY WithinLease DEF IInv
      <3>3. e \in Nat /\ e = sender[p].elapsed + 1 /\ n \in Nat
        <4>1. sender[p].elapsed \in Nat /\ sender[p].spent \in Nat /\ Lease \in Nat BY <2>1, Constants DEF TickType
        <4>2. \A x \in Nat : x < Lease => Least(x + 1, Lease) = x + 1 BY <4>1 DEF Least
        <4>3. e = sender[p].elapsed + 1 BY <3>2, <4>1, <4>2
        <4>4. sender[p].elapsed + 1 \in Nat /\ sender[p].spent + 1 \in Nat BY <4>1
        <4>. QED BY <4>3, <4>4
      <3>4. /\ new \in TickType /\ new.pc = sender[p].pc /\ new.claims = sender[p].claims
            /\ new.elapsed = e /\ new.spent = n /\ new.answer = sender[p].answer
        <4>. HIDE DEF e, n
        <4>. QED BY <2>1, <3>3 DEF TickType
      <3>. HIDE DEF new
      <3>. QED BY <2>3, <3>1, <3>3, <3>4
    <2>. QED BY <2>2, <2>3
  <1>4. TypeOK'
    <2>1. sender' \in [Process -> TickType] BY <1>1, <1>3
    <2>2. \A p \in Process : sender'[p].pc = "idle" <=> sender'[p].claims = <<>> BY <1>3 DEF IInv, TypeOK
    <2>. QED BY <1>1, <1>2, <2>1, <2>2 DEF IInv, TypeOK
  <1>5. Queueing' BY <1>1, <1>2 DEF IInv, Queueing, TypeOK
  <1>6. Distinct' /\ Apart'
    <2>1. \A p \in Process : sender'[p].claims = sender[p].claims BY <1>3
    <2>2. Distinct' BY <2>1 DEF IInv, Distinct
    <2>3. Apart'
      <3>. SUFFICES ASSUME NEW p \in Process, NEW q \in Process, p # q,
                           NEW i \in 1 .. Len(sender'[p].claims), NEW j \in 1 .. Len(sender'[q].claims)
                    PROVE  sender'[p].claims[i].row # sender'[q].claims[j].row
        BY DEF Apart
      <3>1. sender'[p].claims = sender[p].claims /\ sender'[q].claims = sender[q].claims BY <2>1
      <3>. QED BY <3>1 DEF IInv, Apart
    <2>. QED BY <2>2, <2>3
  <1>7. Leased'
    <2>1. ASSUME NEW p \in Process, NEW i \in 1 .. Len(sender'[p].claims)
          PROVE  /\ outbox'[sender'[p].claims[i].row].status # "none"
                 /\ outbox'[sender'[p].claims[i].row].status = "pending" =>
                        outbox'[sender'[p].claims[i].row].wait >= Lease - sender'[p].elapsed
      <3> DEFINE r == sender[p].claims[i].row
      <3>1. sender'[p].claims[i].row = r /\ i \in 1 .. Len(sender[p].claims) BY <1>3
      <3>2. r \in Row BY <3>1, RowsOfClaims DEF IInv
      <3>3. outbox[r].status # "none" /\ (Pending(r) => outbox[r].wait >= Lease - sender[p].elapsed)
        BY <3>1 DEF IInv, Leased
      <3>4. sender[p].elapsed < Lease /\ sender[p].elapsed \in Nat /\ outbox[r].wait \in Int
        BY <3>2, WithinLease DEF IInv, TypeOK, TickType, OutboxRow
      <3>5. sender[p].pc # "idle" BY <3>1, EmptySeq DEF IInv, TypeOK
      <3>6. sender'[p].elapsed = sender[p].elapsed + 1 BY <1>3, <3>5
      <3>. HIDE DEF r
      <3>7. CASE Pending(r)
        <4>1. outbox[r].wait >= 1 /\ outbox[r].wait >= Lease - sender[p].elapsed
          <5>1. \A w, e \in Int : w >= Lease - e /\ e < Lease => w >= 1 BY Constants
          <5>. QED BY <3>3, <3>4, <3>7, <5>1
        <4>2. outbox'[r].wait = outbox[r].wait - 1 BY <1>2, <3>2, <3>7, <4>1 DEF Pending
        <4>3. outbox'[r].wait >= Lease - sender'[p].elapsed 
          <5>1. \A w, e \in Int : w >= Lease - e => w - 1 >= Lease - (e + 1) BY Constants
          <5>. QED BY <3>4, <3>6, <4>1, <4>2, <5>1
        <4>. QED BY <1>2, <3>1, <3>2, <3>3, <4>3
      <3>8. CASE ~Pending(r) BY <1>2, <3>1, <3>2, <3>3, <3>8 DEF Pending
      <3>. QED BY <3>7, <3>8
    <2>. QED BY <2>1 DEF Leased, Pending
  <1>8. Timed'
    <2>1. ASSUME NEW p \in Process PROVE TimeOf(sender'[p])
      <3>1. /\ TimeOf(sender[p]) /\ sender[p].elapsed \in Nat /\ sender[p].spent \in Nat
            /\ sender[p].pc \in {"idle", "next", "sending", "answered", "releasing"} /\ MayWait(p)
        BY <1>1 DEF IInv, Timed, TypeOK, TickType
      <3>2. CASE sender[p].pc = "idle" BY <1>3, <3>2 DEF TimeOf
      <3>3. sender[p].pc # "next" BY <3>1 DEF MayWait
      <3>4. CASE sender[p].pc \in {"sending", "answered"}
        <4>1. sender[p].spent < MaxCall BY <3>1, <3>4 DEF MayWait
        <4>2. sender[p].elapsed <= Budget - 1 + sender[p].spent /\ Len(sender[p].claims) <= Batch
          BY <3>1, <3>4 DEF TimeOf
        <4>3. /\ sender'[p].pc \in {"sending", "answered"} /\ sender'[p].claims = sender[p].claims
              /\ sender'[p].elapsed = sender[p].elapsed + 1 /\ sender'[p].spent = sender[p].spent + 1
          BY <1>3, <3>4
        <4>4. sender'[p].elapsed <= Budget - 1 + sender'[p].spent /\ sender'[p].spent <= MaxCall
          <5>1. \A x, s \in Nat : x <= Budget - 1 + s /\ s < MaxCall => x + 1 <= Budget - 1 + (s + 1) /\ s + 1 <= MaxCall
            BY Constants
          <5>. QED BY <3>1, <4>1, <4>2, <4>3, <5>1
        <4>. QED BY <4>2, <4>3, <4>4 DEF TimeOf
      <3>5. CASE sender[p].pc = "releasing"
        <4> DEFINE n == Len(sender[p].claims)
        <4>1. sender[p].spent < MaxRelease BY <3>1, <3>5 DEF MayWait
        <4>2. sender[p].elapsed <= Budget - 1 + MaxCall + (Batch - 1 - n) * MaxRelease + sender[p].spent /\ n < Batch
          BY <3>1, <3>5 DEF TimeOf
        <4>3. (Batch - 1 - n) * MaxRelease \in Int
          <5>1. n \in Nat BY RowsOfClaims DEF IInv
          <5>. HIDE DEF n
          <5>. QED BY <5>1, Product
        <4>4. /\ sender'[p].pc = "releasing" /\ Len(sender'[p].claims) = n
              /\ sender'[p].elapsed = sender[p].elapsed + 1 /\ sender'[p].spent = sender[p].spent + 1
          BY <1>3, <3>5
        <4>. HIDE DEF n
        <4>5. sender[p].elapsed + 1 <=
                  Budget - 1 + MaxCall + (Batch - 1 - n) * MaxRelease + (sender[p].spent + 1)
          BY <3>1, <4>2, <4>3, Constants
        <4>6. sender[p].spent + 1 <= MaxRelease BY <3>1, <4>1, Constants
        <4>. QED BY <4>2, <4>4, <4>5, <4>6 DEF TimeOf
      <3>. QED BY <3>1, <3>2, <3>3, <3>4, <3>5
    <2>. QED BY <2>1 DEF Timed
  <1>9. \A q \in Process : \A r : Accepts(q, r)' <=> Accepts(q, r) BY <1>3 DEF Accepts, Doing, Claimed
  <1>10. \A r \in Row : (Unsent(r)' <=> Unsent(r)) /\ (Pending(r)' <=> Pending(r)) BY <1>2 DEF Unsent, Pending
  <1>11. ASSUME NEW r \in Row, Pending(r)', \A q \in Process : ~Accepts(q, r)' PROVE Unsent(r)'
    BY <1>9, <1>10, <1>11 DEF IInv, Counted
  <1>12. ASSUME NEW q \in Process, NEW i \in 1 .. Len(sender'[q].claims), ~Accepts(q, sender[q].claims[i].row)'
         PROVE  Unsent(sender[q].claims[i].row)'
    <2>1. sender'[q].claims = sender[q].claims BY <1>3
    <2>2. ~Accepts(q, sender[q].claims[i].row) BY <1>9, <1>12, <2>1
    <2>3. Unsent(sender[q].claims[i].row) /\ sender[q].claims[i].row \in Row
      BY <2>1, <2>2, RowsOfClaims DEF IInv, Counted
    <2>. QED BY <1>10, <2>1, <2>3
  <1>13. Counted' BY <1>11, <1>12 DEF Counted
  <1>14. RepeatsOnlyLosses' BY <1>2 DEF IInv, RepeatsOnlyLosses
  <1>. QED BY <1>4, <1>5, <1>6, <1>7, <1>8, <1>13, <1>14 DEF IInv

-----------------------------------------------------------------------------
LEMMA Initially == Init => IInv
  <1>. SUFFICES ASSUME Init PROVE IInv OBVIOUS
  <1>1. NoRow \in OutboxRow /\ NoRow.status = "none" /\ NoRow.posts = 0 /\ NoRow.lost = 0
    BY DEF NoRow, OutboxRow
  <1>2. /\ NoTick \in TickType /\ NoTick.pc = "idle" /\ NoTick.claims = <<>> /\ NoTick.elapsed = 0
        /\ Len(NoTick.claims) = 0
    BY EmptySeq DEF NoTick, TickType
  <1>3. /\ \A r \in Row : outbox[r] = NoRow
        /\ \A p \in Process : sender[p] = NoTick
    BY DEF Init
  <1>4. TypeOK BY <1>1, <1>2 DEF Init, TypeOK
  <1>5. Queueing BY DEF Init, Queueing
  <1>6. Distinct /\ Apart /\ Leased BY <1>2, <1>3 DEF Distinct, Apart, Leased
  <1>7. Timed BY <1>2, <1>3 DEF Timed, TimeOf
  <1>8. Counted /\ RepeatsOnlyLosses
    BY <1>1, <1>2, <1>3 DEF Counted, Unsent, Pending, RepeatsOnlyLosses
  <1>. QED BY <1>4, <1>5, <1>6, <1>7, <1>8 DEF IInv

LEMMA Inductive == ASSUME InTime PROVE IInv /\ [Next]_vars => IInv'
  <1>. SUFFICES ASSUME IInv, [Next]_vars PROVE IInv' OBVIOUS
  <1>1. ASSUME NEW r \in Row, Enqueue(r) PROVE IInv' BY <1>1, EnqueueKeeps
  <1>2. CASE Commit BY <1>2, CommitKeeps
  <1>3. ASSUME NEW p \in Process, Claim(p) PROVE IInv' BY <1>3, ClaimKeeps
  <1>4. ASSUME NEW p \in Process, SenderStep(p) PROVE IInv'
    BY <1>4, SkipPausedKeeps, DeliverKeeps, AnswerKeeps, LimitedKeeps, RecordKeeps, OutOfTimeKeeps,
       ReleaseKeeps DEF SenderStep
  <1>5. ASSUME NEW p \in Process, Abandon(p) PROVE IInv' BY <1>5, AbandonKeeps
  <1>6. ASSUME NEW t \in Discord, Save(t) \/ Disable(t) PROVE IInv' BY <1>6, SaveKeeps, DisableKeeps DEF Target
  <1>7. CASE Tick BY <1>7, TickKeeps
  <1>8. CASE UNCHANGED vars
    <2>1. TypeOK' /\ Queueing' BY <1>8 DEF IInv, TypeOK, Queueing
    <2>. QED BY <1>8, <2>1, Untouched DEF IInv
  <1>. QED BY <1>1, <1>2, <1>3, <1>4, <1>5, <1>6, <1>7, <1>8 DEF Next

LEMMA Invariant == ASSUME InTime PROVE Spec => []IInv
  <1>. QED BY Initially, Inductive, PTL DEF Spec

\* deliveryRepository.ts: rows and ticks keep the shapes the code gives them.
THEOREM TypeCorrect == ASSUME InTime PROVE Spec => []TypeOK
  <1>1. IInv => TypeOK BY DEF IInv
  <1>. QED BY <1>1, Invariant, PTL

\* alertDeliveryWorker.ts: "another process must never re-claim a row while this one may
\* still send it".  A row being delivered is claimed by one process, whose lease runs.
THEOREM OneAtATime == ASSUME InTime PROVE Spec => []OneSender
  <1>1. IInv => OneSender
    <2>. SUFFICES ASSUME IInv, NEW p \in Process, NEW q \in Process, NEW r \in Row,
                         Delivering(p, r), Delivering(q, r)
                  PROVE  p = q
      BY DEF OneSender
    <2>1. sender[p].pc # "idle" /\ sender[q].pc # "idle" /\ Doing(p) = r /\ Doing(q) = r BY DEF Delivering
    <2>2. Doing(q) = sender[q].claims[1].row /\ 1 \in 1 .. Len(sender[q].claims) BY <2>1, Busy DEF IInv
    <2>. QED BY <2>1, <2>2, OnlyThere DEF IInv
  <1>. QED BY <1>1, Invariant, PTL

\* alertDeliveryWorker.ts: "Delivery is at-least-once".  A message is accepted again only
\* when an answer, or the write after it, was lost: once more for each loss.
THEOREM LossesOnly == ASSUME InTime PROVE Spec => []RepeatsOnlyLosses
  <1>1. IInv => RepeatsOnlyLosses BY DEF IInv
  <1>. QED BY <1>1, Invariant, PTL

-----------------------------------------------------------------------------
(***************************************************************************)
(* The rules of a server (AlertEvaluator, AlertState).                     *)
(***************************************************************************)

\* The state machine of one alert: what every state that it reaches is like.
Proper(st) == (st.phase = "ok" => st.last = FALSE) /\ (st.phase = "pending" => st.last = TRUE)

LEMMA Ages == None \in Age /\ 0 \in Age /\ NoState \in State /\ Proper(NoState)
BY LongestAssumption DEF Age, None, NoState, State, Proper

LEMMA Olders ==
    ASSUME NEW a \in Age
    PROVE  /\ Older(a) \in Age /\ (Older(a) = None <=> a = None)
           /\ a # None => a <= Older(a) /\ Older(a) <= a + 1
BY LongestAssumption DEF Age, Older, None

LEMMA Laters ==
    ASSUME NEW st \in State
    PROVE  /\ Later(st) \in State /\ Later(st).phase = st.phase /\ Later(st).last = st.last
           /\ Later(st).since = Older(st.since) /\ Later(st).clearSince = Older(st.clearSince)
<1>1. {Older(st.since), Older(st.clearSince), Older(st.notified)} \subseteq Age
  BY Olders DEF State
<1> QED BY <1>1 DEF Later, State

LEMMA Resumes ==
    ASSUME NEW st \in State
    PROVE  /\ Resumed(st) \in State
           /\ Resumed(st) = IF st.phase = "ok" THEN st ELSE IF st.phase = "pending" THEN NoState
                            ELSE [st EXCEPT !.clearSince = None]
BY Ages DEF Resumed, State


Held(st, condition) == IF condition = "unknown" THEN st.last ELSE condition = "true"
Starts == [NoState EXCEPT !.phase = "pending", !.since = 0, !.last = TRUE]
Reminds(st) == st.notified = None \/ st.notified >= Repeat
ClearFrom(st) == IF st.clearSince = None THEN 0 ELSE st.clearSince

LEMMA StepIs ==
    ASSUME NEW st \in State, NEW condition
    PROVE  Step(st, condition, Timing) =
             IF st.phase = "ok" /\ Held(st, condition)
             THEN IF For = 0 THEN Fires(0) ELSE Result(Starts, "none")
             ELSE IF st.phase = "pending" /\ Held(st, condition)
             THEN IF Elapsed(st.since) >= For THEN Fires(st.since)
                  ELSE Result([st EXCEPT !.last = TRUE], "none")
             ELSE IF st.phase \in {"ok", "pending"} THEN Result(NoState, "none")
             ELSE IF Held(st, condition)
             THEN Result([st EXCEPT !.clearSince = None, !.last = TRUE,
                                    !.notified = IF Reminds(st) THEN 0 ELSE @],
                         IF Reminds(st) THEN "renotify" ELSE "none")
             ELSE IF ClearFrom(st) >= Clear THEN Result(NoState, "resolved")
             ELSE Result([st EXCEPT !.clearSince = ClearFrom(st), !.last = FALSE], "none")
<1>1. st.phase \in {"ok", "pending", "firing"}
  BY DEF State
<1>2. Timing.for = For /\ Timing.clear = Clear /\ Timing.repeat = Repeat
  BY DEF Timing
<1> HIDE DEF Timing
<1>3. CASE st.phase = "ok"
  BY <1>2, <1>3 DEF Step, Held, Starts
<1>4. CASE st.phase = "pending"
  BY <1>2, <1>4 DEF Step, Held
<1>5. CASE st.phase = "firing"
  BY <1>2, <1>5 DEF Step, Held, Reminds, ClearFrom
<1> QED BY <1>1, <1>3, <1>4, <1>5

LEMMA FiresIs == ASSUME NEW a \in Age
                 PROVE  /\ Fires(a).state \in State /\ Proper(Fires(a).state) /\ Fires(a).transition = "fired"
                        /\ Fires(a).state.phase = "firing" /\ Fires(a).state.last = TRUE
                        /\ Fires(a).state.clearSince = None /\ Fires(a).state.since = a
BY Ages DEF Fires, Result, State, Proper

LEMMA StartsIs == Starts \in State /\ Proper(Starts) /\ Starts.phase = "pending" /\ Starts.since = 0
BY Ages DEF Starts, NoState, State, Proper

LEMMA ResultIs == \A st, t : Result(st, t).state = st /\ Result(st, t).transition = t
BY DEF Result

\* A step keeps its shape, and says so when it begins or ends an alert.
LEMMA Steps ==
    ASSUME NEW st \in State, Proper(st), NEW condition
    PROVE  LET r == Step(st, condition, Timing)
           IN  /\ r.state \in State /\ Proper(r.state)
               /\ r.transition \in {"none", "fired", "renotify", "resolved"}
               /\ r.transition = "fired" => st.phase # "firing" /\ r.state.phase = "firing"
               /\ r.transition = "resolved" => st.phase = "firing" /\ r.state.phase # "firing"
               /\ r.transition \in {"none", "renotify"} => (st.phase = "firing" <=> r.state.phase = "firing")
<1> DEFINE r == Step(st, condition, Timing)
           Good == /\ r.state \in State /\ Proper(r.state)
                   /\ r.transition \in {"none", "fired", "renotify", "resolved"}
                   /\ r.transition = "fired" => st.phase # "firing" /\ r.state.phase = "firing"
                   /\ r.transition = "resolved" => st.phase = "firing" /\ r.state.phase # "firing"
                   /\ r.transition \in {"none", "renotify"} => (st.phase = "firing" <=> r.state.phase = "firing")
<1> SUFFICES Good
  OBVIOUS
<1>0. r = Step(st, condition, Timing)
  OBVIOUS
<1> HIDE DEF r
<1>1. CASE st.phase = "ok" /\ Held(st, condition)
  <2>1. r = IF For = 0 THEN Fires(0) ELSE Result(Starts, "none")
    BY <1>0, <1>1, StepIs
  <2>2. CASE For = 0
    <3>1. r = Fires(0)
      BY <2>1, <2>2
    <3> QED BY <1>1, <3>1, Ages, FiresIs
  <2>3. CASE For # 0
    <3>1. r = Result(Starts, "none")
      BY <2>1, <2>3
    <3>2. r.state = Starts /\ r.transition = "none"
      BY <3>1, ResultIs
    <3> QED BY <1>1, <3>2, StartsIs
  <2> QED BY <2>2, <2>3
<1>2. CASE st.phase = "pending" /\ Held(st, condition)
  <2>1. r = IF Elapsed(st.since) >= For THEN Fires(st.since) ELSE Result([st EXCEPT !.last = TRUE], "none")
    BY <1>0, <1>2, StepIs
  <2>2. /\ [st EXCEPT !.last = TRUE] \in State /\ Proper([st EXCEPT !.last = TRUE])
        /\ [st EXCEPT !.last = TRUE].phase = "pending"
    BY <1>2 DEF State, Proper
  <2>3. st.since \in Age
    BY DEF State
  <2>4. CASE Elapsed(st.since) >= For
    <3>1. r = Fires(st.since)
      BY <2>1, <2>4
    <3> QED BY <1>2, <2>3, <3>1, FiresIs
  <2>5. CASE ~(Elapsed(st.since) >= For)
    <3>1. r.state = [st EXCEPT !.last = TRUE] /\ r.transition = "none"
      BY <2>1, <2>5, ResultIs
    <3> QED BY <1>2, <2>2, <3>1
  <2> QED BY <2>4, <2>5
<1>3. CASE st.phase \in {"ok", "pending"} /\ ~Held(st, condition)
  <2>1. r = Result(NoState, "none")
    BY <1>0, <1>3, StepIs
  <2>2. NoState.phase = "ok"
    BY DEF NoState
  <2> QED BY <1>3, <2>1, <2>2, Ages, ResultIs
<1>4. CASE st.phase = "firing" /\ Held(st, condition)
  <2> DEFINE n == [st EXCEPT !.clearSince = None, !.last = TRUE, !.notified = IF Reminds(st) THEN 0 ELSE @]
  <2>1. r = Result(n, IF Reminds(st) THEN "renotify" ELSE "none")
    BY <1>0, <1>4, StepIs
  <2>2. n \in State /\ Proper(n) /\ n.phase = "firing"
    BY <1>4, Ages DEF State, Proper
  <2>3. r.state = n /\ r.transition \in {"none", "renotify"}
    BY <2>1, ResultIs
  <2> QED BY <1>4, <2>2, <2>3
<1>5. CASE st.phase = "firing" /\ ~Held(st, condition)
  <2> DEFINE n == [st EXCEPT !.clearSince = ClearFrom(st), !.last = FALSE]
  <2>1. r = IF ClearFrom(st) >= Clear THEN Result(NoState, "resolved") ELSE Result(n, "none")
    BY <1>0, <1>5, StepIs
  <2>2. n \in State /\ Proper(n) /\ n.phase = "firing"
    BY <1>5, Ages DEF State, Proper, ClearFrom
  <2>3. NoState.phase = "ok"
    BY DEF NoState
  <2>4. CASE ClearFrom(st) >= Clear
    <3>1. r.state = NoState /\ r.transition = "resolved"
      BY <2>1, <2>4, ResultIs
    <3> QED BY <1>5, <2>3, <3>1, Ages
  <2>5. CASE ~(ClearFrom(st) >= Clear)
    <3>1. r.state = n /\ r.transition = "none"
      BY <2>1, <2>5, ResultIs
    <3> QED BY <1>5, <2>2, <3>1
  <2> QED BY <2>4, <2>5
<1>6. st.phase \in {"ok", "pending", "firing"}
  BY DEF State
<1> QED BY <1>1, <1>2, <1>3, <1>4, <1>5, <1>6

-----------------------------------------------------------------------------
Seen == [of : BOOLEAN, ticks : 0 .. Longest + 1]
StatesProper == \A s \in Subject : Proper(states[s])

\* What is pending has been true, and what is clearing false, all the time since then; it starts
\* again after a gap.
Follows(st, o, gap) ==
    /\ st.phase = "pending" => o.of = TRUE /\ (gap \/ o.ticks > st.since)
    /\ st.phase = "firing" => o.of = st.last
    /\ st.phase = "firing" /\ st.clearSince # None => o.of = FALSE /\ (gap \/ o.ticks > st.clearSince)
Watched(s) == Follows(states[s], observed[s], wasSuppressed)

\* A subject that says more than ok has a row, so that its rule evaluates it.
RowsKept == \A s \in Subject : states[s].phase # "ok" => s \in stateRows

AlertsInv ==
    /\ AlertsTypeOK /\ StatesProper /\ LogIsKept /\ RowsKept
    /\ observed \in [Subject -> Seen] /\ troubles \in Nat
    /\ troubles = 0 => ruleOn = TRUE /\ \A s \in Plain : Watched(s)

LEMMA AlertsInitially == AlertsInit => AlertsInv
<1> SUFFICES ASSUME AlertsInit PROVE AlertsInv
  OBVIOUS
<1> USE DEF AlertsInit
<1>1. AlertsTypeOK
  BY Ages DEF AlertsTypeOK
<1>2. StatesProper
  BY Ages DEF StatesProper
<1>3. LogIsKept
  <2>1. Cardinality(paced) = 0
    BY FS_EmptySet
  <2>2. 0 <= MaxEvents
    BY NumbersAssumption
  <2>3. NoState.phase # "firing"
    BY DEF NoState
  <2> QED BY <2>1, <2>2, <2>3 DEF LogIsKept
<1>4. observed \in [Subject -> Seen] /\ troubles \in Nat /\ RowsKept
  BY LongestAssumption DEF Seen, RowsKept, NoState
<1>5. ASSUME NEW s \in Plain PROVE Watched(s)
  <2>1. states[s].phase = "ok"
    BY DEF NoState, Subject
  <2> QED BY <2>1 DEF Watched, Follows
<1> QED BY <1>1, <1>2, <1>3, <1>4, <1>5 DEF AlertsInv

-----------------------------------------------------------------------------
\* The lowest numbers of a set are no more than asked for.
LEMMA LowestFew ==
    ASSUME NEW S \in SUBSET Subject, NEW n \in Nat
    PROVE  /\ Lowest(S, n) \subseteq S /\ IsFiniteSet(Lowest(S, n))
           /\ Cardinality(Lowest(S, n)) \in Nat /\ Cardinality(Lowest(S, n)) <= n
<1> DEFINE below(s) == {q \in S : q < s}
           L == Lowest(S, n)
           f == [s \in L |-> Cardinality(below(s))]
<1>1. IsFiniteSet(S) /\ S \subseteq Nat
  BY SubjectsAssumption, FS_Subset
<1>2. L \subseteq S /\ \A s \in L : Cardinality(below(s)) < n
  BY DEF Lowest
<1>3. \A s \in S : IsFiniteSet(below(s)) /\ Cardinality(below(s)) \in Nat
  BY <1>1, FS_Subset, FS_CardinalityType
<1>n. ASSUME NEW s \in L PROVE s \in S /\ s \in Nat
  <2>1. s \in S
    BY <1>2
  <2> QED BY <1>1, <2>1
<1>4. f \in [L -> 0 .. n - 1]
  BY <1>2, <1>3
<1>5. ASSUME NEW s \in L, NEW t \in L, s < t PROVE f[s] < f[t]
  <2>1. below(s) \subseteq below(t) /\ s \in below(t) /\ s \notin below(s)
    <3>1. s \in S /\ s \in Nat /\ t \in Nat
      BY <1>n
    <3>2. ASSUME NEW q \in below(s) PROVE q \in below(t)
      <4>1. q \in S /\ q < s /\ q \in Nat
        BY <1>1
      <4>2. q < t
        BY <1>5, <3>1, <4>1
      <4> QED BY <4>1, <4>2
    <3>3. s \in below(t) /\ s \notin below(s)
      BY <1>5, <3>1
    <3> QED BY <3>2, <3>3
  <2>2. Cardinality(below(s)) <= Cardinality(below(t)) /\ Cardinality(below(s)) # Cardinality(below(t))
    BY <1>2, <1>3, <2>1, FS_Subset
  <2> QED BY <1>2, <1>3, <2>2
<1>6. ASSUME NEW s \in L, NEW t \in L, f[s] = f[t] PROVE s = t
  <2>1. s \in Nat /\ t \in Nat /\ f[s] \in Int
    <3>1. f[s] \in 0 .. n - 1
      BY <1>4
    <3>2. 0 .. n - 1 \subseteq Int
      OBVIOUS
    <3> HIDE DEF f
    <3> QED BY <1>n, <3>1, <3>2
  <2>2. ~(s < t) /\ ~(t < s)
    BY <1>5, <1>6, <2>1
  <2> QED BY <2>1, <2>2
<1>7. f \in Injection(L, 0 .. n - 1)
  <2> HIDE DEF f
  <2> QED BY <1>4, <1>6 DEF Injection, IsInjective
<1>8. IsFiniteSet(0 .. n - 1) /\ Cardinality(0 .. n - 1) = n
  BY FS_Interval
<1>9. IsFiniteSet(L) /\ Cardinality(L) <= n
  <2> HIDE DEF f, L
  <2> QED BY <1>7, <1>8, FS_Injection
<1> QED BY <1>2, <1>9, FS_CardinalityType

LEMMA LogFinite == ASSUME NEW S \in SUBSET ((0 .. Window) \X Subject)
                   PROVE  IsFiniteSet(S) /\ Cardinality(S) \in Nat
<1>1. IsFiniteSet(0 .. Window)
  BY NumbersAssumption, FS_Interval
<1>2. IsFiniteSet((0 .. Window) \X Subject)
  BY <1>1, SubjectsAssumption, FS_Product
<1> QED BY <1>2, FS_Subset, FS_CardinalityType

\* Time adds nothing to the log.
LEMMA ShiftedFew ==
    ASSUME NEW S \in SUBSET ((0 .. Window) \X Subject)
    PROVE  /\ Shifted(S) \subseteq (0 .. Window) \X Subject /\ Cardinality(Shifted(S)) <= Cardinality(S)
<1> DEFINE f == [e \in Shifted(S) |-> <<e[1] - 1, e[2]>>]
<1>1. ASSUME NEW e \in Shifted(S)
      PROVE  /\ <<e[1] - 1, e[2]>> \in S /\ e \in (0 .. Window) \X Subject
  <2>1. PICK d \in S : d[1] < Window /\ e = <<d[1] + 1, d[2]>>
    BY DEF Shifted
  <2>2. d[1] \in 0 .. Window /\ d[2] \in Subject /\ d = <<d[1], d[2]>>
    OBVIOUS
  <2>3. e[1] = d[1] + 1 /\ e[2] = d[2]
    BY <2>1
  <2>4. e[1] - 1 = d[1] /\ e[1] \in 0 .. Window
    BY <2>1, <2>2, <2>3, NumbersAssumption
  <2> QED BY <2>1, <2>2, <2>3, <2>4
<1>2. f \in [Shifted(S) -> S]
  BY <1>1
<1>3. ASSUME NEW d \in Shifted(S), NEW e \in Shifted(S), f[d] = f[e] PROVE d = e
  <2>1. d[1] - 1 = e[1] - 1 /\ d[2] = e[2]
    BY <1>3
  <2>2. d[1] \in Int /\ e[1] \in Int /\ d = <<d[1], d[2]>> /\ e = <<e[1], e[2]>>
    <3>1. d \in (0 .. Window) \X Subject /\ e \in (0 .. Window) \X Subject
      BY <1>1
    <3> HIDE DEF f
    <3> QED BY <3>1
  <2> QED BY <2>1, <2>2
<1>4. f \in Injection(Shifted(S), S)
  <2> HIDE DEF f
  <2> QED BY <1>2, <1>3 DEF Injection, IsInjective
<1>5. Cardinality(Shifted(S)) <= Cardinality(S)
  <2> HIDE DEF f
  <2> QED BY <1>4, LogFinite, FS_Injection
<1> QED BY <1>1, <1>5

LEMMA NowFew ==
    ASSUME NEW S \in SUBSET Subject
    PROVE  /\ Now(S) \subseteq (0 .. Window) \X Subject
           /\ Cardinality(Now(S)) <= Cardinality(S)
<1> DEFINE f == [e \in Now(S) |-> e[2]]
<1>1. IsFiniteSet(S)
  BY SubjectsAssumption, FS_Subset
<1>2. \A e \in Now(S) : e[2] \in S /\ e = <<0, e[2]>>
  BY DEF Now
<1>3. f \in Injection(Now(S), S)
  <2>1. f \in [Now(S) -> S]
    BY <1>2
  <2>2. \A d, e \in Now(S) : f[d] = f[e] => d = e
    BY <1>2
  <2> HIDE DEF f
  <2> QED BY <2>1, <2>2 DEF Injection, IsInjective
<1>4. Cardinality(Now(S)) <= Cardinality(S)
  <2> HIDE DEF f
  <2> QED BY <1>1, <1>3, FS_Injection
<1>5. 0 \in 0 .. Window
  BY NumbersAssumption
<1> QED BY <1>2, <1>4, <1>5

-----------------------------------------------------------------------------
LEMMA Effectives ==
    ASSUME states \in [Subject -> State], StatesProper, NEW in, NEW s \in Subject
    PROVE  /\ Effective(in)[s] \in State /\ Proper(Effective(in)[s])
           /\ Effective(in)[s].phase = "firing" <=> states[s].phase = "firing"
<1> DEFINE st == Later(states[s])
<1>1. states[s] \in State /\ Proper(states[s])
  BY DEF StatesProper
<1>2. st \in State /\ st.phase = states[s].phase /\ Proper(st)
  BY <1>1, Laters DEF Proper
<1>3. Effective(in)[s] \in {st, Resumed(st)}
  BY DEF Effective
<1>4. Resumed(st) \in State /\ Proper(Resumed(st)) /\ (Resumed(st).phase = "firing" <=> st.phase = "firing")
  <2> HIDE DEF st
  <2>1. NoState.phase = "ok"
    BY DEF NoState
  <2>2. CASE st.phase = "ok"
    BY <1>2, <2>2, Resumes
  <2>3. CASE st.phase = "pending"
    BY <1>2, <2>1, <2>3, Resumes, Ages
  <2>4. CASE st.phase = "firing"
    BY <1>2, <2>4, Resumes DEF Proper, State
  <2> QED BY <1>2, <2>2, <2>3, <2>4 DEF State
<1> HIDE DEF st
<1>5. CASE Effective(in)[s] = st
  BY <1>2, <1>5
<1>6. CASE Effective(in)[s] = Resumed(st)
  BY <1>2, <1>4, <1>6
<1> QED BY <1>3, <1>5, <1>6

\* What an evaluation makes of each state.
Tells(res) ==
    \A s \in Subject :
        LET r == res[s]
        IN  /\ r.state \in State /\ Proper(r.state)
            /\ r.transition \in {"none", "fired", "renotify", "resolved"}
            /\ r.transition = "fired" => states[s].phase # "firing" /\ r.state.phase = "firing"
            /\ r.transition = "resolved" => states[s].phase = "firing" /\ r.state.phase # "firing"
            /\ r.transition \in {"none", "renotify"} =>
                   (states[s].phase = "firing" <=> r.state.phase = "firing")

LEMMA SteppedTells ==
    ASSUME states \in [Subject -> State], StatesProper, NEW in
    PROVE  Tells(Stepped(in))
<1> SUFFICES ASSUME NEW s \in Subject
    PROVE LET r == Stepped(in)[s]
          IN  /\ r.state \in State /\ Proper(r.state)
              /\ r.transition \in {"none", "fired", "renotify", "resolved"}
              /\ r.transition = "fired" => states[s].phase # "firing" /\ r.state.phase = "firing"
              /\ r.transition = "resolved" => states[s].phase = "firing" /\ r.state.phase # "firing"
              /\ r.transition \in {"none", "renotify"} =>
                   (states[s].phase = "firing" <=> r.state.phase = "firing")
  BY DEF Tells
<1> DEFINE e == Effective(in)[s]
<1>1. e \in State /\ Proper(e) /\ (e.phase = "firing" <=> states[s].phase = "firing")
  BY Effectives
<1>2. Stepped(in)[s] \in {Step(e, Condition(in, s), Timing), Result(e, "none")}
  BY DEF Stepped
<1> HIDE DEF e
<1>3. CASE Stepped(in)[s] = Step(e, Condition(in, s), Timing)
  BY <1>1, <1>3, Steps
<1>4. CASE Stepped(in)[s] = Result(e, "none")
  <2>1. Stepped(in)[s].state = e /\ Stepped(in)[s].transition = "none"
    BY <1>4, ResultIs
  <2> QED BY <1>1, <2>1
<1> QED BY <1>2, <1>3, <1>4

\* The states as they are stored, and what the log says then.
LEMMA StoredIs ==
    ASSUME NEW res, Tells(res), NEW s \in Subject
    PROVE  /\ Stored(res, s) \in State /\ Proper(Stored(res, s))
           /\ res[s].transition = "fired" /\ s \notin Kept(res) =>
                Stored(res, s).phase = "pending" /\ Stored(res, s).since = res[s].state.since
           /\ ~(res[s].transition = "fired" /\ s \notin Kept(res)) => Stored(res, s) = res[s].state
<1> DEFINE back == [NoState EXCEPT !.phase = "pending", !.since = res[s].state.since, !.last = TRUE]
<1>1. res[s].state \in State /\ Proper(res[s].state)
  BY DEF Tells
<1>2. back \in State /\ Proper(back) /\ back.phase = "pending" /\ back.since = res[s].state.since
  BY <1>1, Ages DEF NoState, State, Proper
<1>3. Stored(res, s) = IF res[s].transition = "fired" /\ s \notin Kept(res) THEN back ELSE res[s].state
  BY DEF Stored
<1> HIDE DEF back
<1> QED BY <1>1, <1>2, <1>3

\* Beside what always goes, no more is kept than there is room for.
LEMMA KeptFits ==
    ASSUME NEW res, NEW S \in SUBSET Subject, IsFiniteSet(Shifted(events)),
           S \subseteq {s \in Kept(res) \ Link : res[s].transition # "resolved"}
    PROVE  Room \in Nat /\ Cardinality(S) <= Room /\ Cardinality(S) \in Nat
<1> DEFINE fired == Lowest(Of(res, "fired") \ Link, Room)
           renotified == Lowest(Of(res, "renotify") \ Link, Room - Cardinality(fired))
<1>1. Room \in Nat
  <2>1. Cardinality(Shifted(events)) \in Nat /\ MaxEvents \in Nat
    BY NumbersAssumption, FS_CardinalityType
  <2> QED BY <2>1 DEF Room
<1>2. (Of(res, "fired") \ Link) \subseteq Subject /\ (Of(res, "renotify") \ Link) \subseteq Subject
  BY DEF Of
<1>3. IsFiniteSet(fired) /\ Cardinality(fired) \in Nat /\ Cardinality(fired) <= Room
  BY <1>1, <1>2, LowestFew
<1>4. Room - Cardinality(fired) \in Nat
  <2> HIDE DEF fired
  <2> QED BY <1>1, <1>3
<1>5. /\ IsFiniteSet(renotified) /\ Cardinality(renotified) \in Nat
      /\ Cardinality(renotified) <= Room - Cardinality(fired)
  <2> HIDE DEF fired
  <2> QED BY <1>2, <1>4, LowestFew
<1>6. Kept(res) = Always(res) \cup fired \cup renotified
  BY DEF Kept
<1> HIDE DEF fired, renotified
<1>7. S \subseteq fired \cup renotified
  BY <1>6 DEF Always
<1>8. /\ IsFiniteSet(fired \cup renotified) /\ IsFiniteSet(fired \cap renotified)
      /\ Cardinality(fired \cap renotified) \in Nat /\ Cardinality(fired \cup renotified) \in Nat
      /\ Cardinality(fired \cup renotified) =
           Cardinality(fired) + Cardinality(renotified) - Cardinality(fired \cap renotified)
  BY <1>3, <1>5, FS_Union, FS_Intersection, FS_CardinalityType
<1>9. IsFiniteSet(S) /\ Cardinality(S) <= Cardinality(fired \cup renotified)
  BY <1>7, <1>8, FS_Subset
<1>10. Cardinality(S) \in Nat
  BY <1>9, FS_CardinalityType
<1> QED BY <1>1, <1>3, <1>5, <1>8, <1>9, <1>10

\* An hour passes, and as much comes to the log as there is room for.
LEMMA LogFits ==
    ASSUME NEW K \in SUBSET Subject, AlertsTypeOK, Cardinality(paced) <= MaxEvents,
           Cardinality(K) <= Room, Cardinality(K) \in Nat
    PROVE  Cardinality(Shifted(paced) \cup Now(K)) <= MaxEvents
<1>1. /\ paced \subseteq events /\ events \subseteq (0 .. Window) \X Subject
      /\ paced \subseteq (0 .. Window) \X Subject
  BY DEF AlertsTypeOK
<1>2. /\ Shifted(paced) \subseteq Shifted(events)
      /\ Shifted(events) \subseteq (0 .. Window) \X Subject /\ Shifted(paced) \subseteq (0 .. Window) \X Subject
      /\ Cardinality(Shifted(paced)) <= Cardinality(paced)
  BY <1>1, ShiftedFew DEF Shifted
<1>3. /\ IsFiniteSet(Shifted(events)) /\ Cardinality(Shifted(events)) \in Nat /\ Cardinality(paced) \in Nat
      /\ IsFiniteSet(Shifted(paced)) /\ Cardinality(Shifted(paced)) \in Nat
      /\ IsFiniteSet(Now(K)) /\ Cardinality(Now(K)) \in Nat
  BY <1>1, <1>2, LogFinite, NowFew
<1>4. Cardinality(Shifted(paced)) <= Cardinality(Shifted(events)) /\ Cardinality(Now(K)) <= Cardinality(K)
  BY <1>2, <1>3, FS_Subset, NowFew
<1>5. /\ IsFiniteSet(Shifted(paced) \cap Now(K)) /\ Cardinality(Shifted(paced) \cap Now(K)) \in Nat
      /\ Cardinality(Shifted(paced) \cup Now(K)) =
           Cardinality(Shifted(paced)) + Cardinality(Now(K)) - Cardinality(Shifted(paced) \cap Now(K))
  BY <1>3, FS_Union, FS_Intersection, FS_CardinalityType
<1>6. MaxEvents \in Nat
  BY NumbersAssumption
<1>7. Cardinality(Shifted(paced)) + Cardinality(K) <= MaxEvents
  <2>1. Room = IF Cardinality(Shifted(events)) >= MaxEvents THEN 0 ELSE MaxEvents - Cardinality(Shifted(events))
    BY DEF Room
  <2> QED BY <1>2, <1>3, <1>4, <1>6, <2>1
<1>8. \A a, b, i \in Nat : \A k, m, u \in Int : b <= k /\ a + k <= m /\ u = a + b - i => u <= m
  OBVIOUS
<1> DEFINE old == Cardinality(Shifted(paced))
           new == Cardinality(Now(K))
           twice == Cardinality(Shifted(paced) \cap Now(K))
           all == Cardinality(Shifted(paced) \cup Now(K))
           most == Cardinality(K)
<1>9. {old, new, twice} \subseteq Nat /\ most \in Int /\ all = old + new - twice /\ new <= most /\ old + most <= MaxEvents
  BY <1>3, <1>4, <1>5, <1>7
<1> HIDE DEF old, new, twice, all, most
<1>10. all <= MaxEvents
  <2>1. all \in Int
    BY <1>9
  <2> QED BY <1>6, <1>8, <1>9, <2>1
<1> QED BY <1>10 DEF all

-----------------------------------------------------------------------------
LogPart == AlertsTypeOK /\ StatesProper /\ LogIsKept /\ RowsKept

LEMMA WritesKeeps ==
    ASSUME LogPart, NEW in, Writes(in), {ruleOn', wasSuppressed'} \subseteq BOOLEAN
    PROVE  LogPart'
<1> DEFINE res == Stepped(in)
           kept == Kept(res)
           counted == {s \in kept \ Link : res[s].transition # "resolved"}
<1>1. Tells(res)
  BY SteppedTells DEF LogPart, AlertsTypeOK
<1>2. /\ states' = [s \in Subject |-> Stored(res, s)]
      /\ events' = Shifted(events) \cup Now(kept) /\ paced' = Shifted(paced) \cup Now(counted)
      /\ told' = [s \in Subject |-> CASE s \in kept /\ res[s].transition = "fired" -> TRUE
                                      [] s \in kept /\ res[s].transition = "resolved" -> FALSE
                                      [] OTHER -> told[s]]
      /\ stateRows' = (stateRows \cup {s \in Subject : Stored(res, s) # NoState}) \ Forgotten(in, res)
  BY DEF Writes, Write
<1>3. kept \subseteq Subject /\ counted \subseteq Subject
  <2>1. kept \subseteq Always(res) \cup Of(res, "fired") \cup Of(res, "renotify")
    BY DEF Kept, Lowest
  <2> QED BY <2>1 DEF Always, Of
<1>4. AlertsTypeOK /\ StatesProper /\ LogIsKept /\ RowsKept
  BY DEF LogPart
<1> HIDE DEF res
<1>5. states' \in [Subject -> State] /\ StatesProper'
  <2>1. \A s \in Subject : Stored(res, s) \in State /\ Proper(Stored(res, s))
    BY <1>1, StoredIs
  <2> QED BY <1>2, <2>1 DEF StatesProper
<1>6. /\ Shifted(events) \subseteq (0 .. Window) \X Subject /\ Shifted(paced) \subseteq Shifted(events)
      /\ IsFiniteSet(Shifted(events))
  <2>1. events \subseteq (0 .. Window) \X Subject /\ paced \subseteq events
    BY <1>4 DEF AlertsTypeOK
  <2> QED BY <2>1, ShiftedFew, LogFinite DEF Shifted
<1>7. events' \subseteq (0 .. Window) \X Subject /\ paced' \subseteq events'
  <2>1. Now(kept) \subseteq (0 .. Window) \X Subject
    BY <1>3, NowFew
  <2>2. Now(counted) \subseteq Now(kept)
    BY DEF Now
  <2> QED BY <1>2, <1>6, <2>1, <2>2
<1>8. told' \in [Subject -> BOOLEAN]
  BY <1>2, <1>4 DEF AlertsTypeOK
<1>9. AlertsTypeOK'
  <2>1. stateRows' \subseteq Subject
    BY <1>2, <1>4 DEF AlertsTypeOK
  <2> QED BY <1>5, <1>7, <1>8, <2>1 DEF AlertsTypeOK
<1>r. RowsKept'
  <2> SUFFICES ASSUME NEW s \in Subject, states'[s].phase # "ok" PROVE s \in stateRows'
    BY DEF RowsKept
  <2>1. states'[s] = Stored(res, s) /\ Stored(res, s).phase # "ok"
    BY <1>2
  <2>2. res[s].state.phase # "ok"
    <3>1. CASE res[s].transition = "fired"
      BY <1>1, <3>1 DEF Tells
    <3>2. CASE res[s].transition # "fired"
      BY <1>1, <2>1, <3>2, StoredIs
    <3> QED BY <3>1, <3>2
  <2>3. s \notin Forgotten(in, res)
    BY <2>2 DEF Forgotten
  <2>4. Stored(res, s) # NoState
    BY <2>1 DEF NoState
  <2> QED BY <1>2, <2>3, <2>4
<1>10. ASSUME NEW s \in Subject PROVE told'[s] <=> states'[s].phase = "firing"
  <2>1. /\ states'[s] = Stored(res, s) /\ told[s] \in BOOLEAN /\ (told[s] <=> states[s].phase = "firing")
        /\ told'[s] = CASE s \in kept /\ res[s].transition = "fired" -> TRUE
                        [] s \in kept /\ res[s].transition = "resolved" -> FALSE
                        [] OTHER -> told[s]
    BY <1>2, <1>4 DEF LogIsKept, AlertsTypeOK
  <2>2. res[s].transition \in {"none", "fired", "renotify", "resolved"}
    BY <1>1 DEF Tells
  <2>3. CASE res[s].transition = "fired"
    <3>1. CASE s \in kept
      BY <1>1, <2>1, <2>3, <3>1, StoredIs DEF Tells
    <3>2. CASE s \notin kept
      BY <1>1, <2>1, <2>3, <3>2, StoredIs DEF Tells
    <3> QED BY <3>1, <3>2
  <2>4. CASE res[s].transition = "resolved"
    <3>1. s \in kept
      BY <2>4 DEF Kept, Always
    <3> QED BY <1>1, <2>1, <2>4, <3>1, StoredIs DEF Tells
  <2>5. CASE res[s].transition \in {"none", "renotify"}
    <3>1. told'[s] = told[s] /\ Stored(res, s) = res[s].state
      BY <1>1, <2>1, <2>5, StoredIs
    <3> QED BY <1>1, <2>1, <2>5, <3>1 DEF Tells
  <2> QED BY <2>2, <2>3, <2>4, <2>5
<1>11. Cardinality(paced') <= MaxEvents
  <2>1. Cardinality(counted) <= Room /\ Cardinality(counted) \in Nat
    BY <1>3, <1>6, KeptFits
  <2>2. Cardinality(paced) <= MaxEvents
    BY <1>4 DEF LogIsKept
  <2> HIDE DEF counted
  <2> QED BY <1>2, <1>3, <1>4, <2>1, <2>2, LogFits
<1> QED BY <1>5, <1>9, <1>r, <1>10, <1>11 DEF LogPart, LogIsKept

LEMMA NothingKeeps ==
    ASSUME LogPart, NothingWritten, {ruleOn', wasSuppressed'} \subseteq BOOLEAN
    PROVE  LogPart'
<1>1. AlertsTypeOK /\ StatesProper /\ LogIsKept /\ RowsKept
  BY DEF LogPart
<1>2. /\ states' = [s \in Subject |-> Later(states[s])] /\ stateRows' = stateRows
      /\ events' = Shifted(events) /\ paced' = Shifted(paced) /\ told' = told
  BY DEF NothingWritten
<1>3. ASSUME NEW s \in Subject
      PROVE  Later(states[s]) \in State /\ Proper(Later(states[s])) /\ Later(states[s]).phase = states[s].phase
  <2>1. states[s] \in State /\ Proper(states[s])
    BY <1>1 DEF AlertsTypeOK, StatesProper
  <2> QED BY <2>1, Laters DEF Proper
<1>4. states' \in [Subject -> State] /\ StatesProper'
  BY <1>2, <1>3 DEF StatesProper
<1>5. /\ paced \subseteq events /\ events \subseteq (0 .. Window) \X Subject
      /\ paced \subseteq (0 .. Window) \X Subject
  BY <1>1 DEF AlertsTypeOK
<1>6. /\ Shifted(events) \subseteq (0 .. Window) \X Subject /\ Shifted(paced) \subseteq Shifted(events)
      /\ Cardinality(Shifted(paced)) <= Cardinality(paced) /\ Cardinality(paced) \in Nat
      /\ Cardinality(Shifted(paced)) \in Nat
  BY <1>5, ShiftedFew, LogFinite DEF Shifted
<1>7. AlertsTypeOK'
  BY <1>1, <1>2, <1>4, <1>6 DEF AlertsTypeOK
<1>8. (\A s \in Subject : told'[s] <=> states'[s].phase = "firing") /\ RowsKept'
  BY <1>1, <1>2, <1>3 DEF LogIsKept, RowsKept
<1>9. Cardinality(paced') <= MaxEvents
  BY <1>1, <1>2, <1>6, NumbersAssumption DEF LogIsKept
<1> QED BY <1>4, <1>7, <1>8, <1>9 DEF LogPart, LogIsKept

-----------------------------------------------------------------------------
\* What has been observed after one more reading.
Observed(o, says) ==
    LET held == IF says = "unknown" THEN o.of ELSE says = "true"
    IN  IF held = o.of THEN [o EXCEPT !.ticks = IF @ > Longest THEN @ ELSE @ + 1]
        ELSE [of |-> held, ticks |-> 1]

LEMMA ObservedIs ==
    ASSUME NEW o \in Seen, NEW says
    PROVE  LET held == IF says = "unknown" THEN o.of ELSE says = "true"
           IN  /\ Observed(o, says) \in Seen /\ Observed(o, says).of = held
               /\ Observed(o, says).ticks > 0
               /\ held = o.of => \A a \in Age : a <= o.ticks => Observed(o, says).ticks > a
<1> DEFINE held == IF says = "unknown" THEN o.of ELSE says = "true"
<1>1. o.of \in BOOLEAN /\ held \in BOOLEAN /\ o.ticks \in 0 .. Longest + 1 /\ Longest \in Nat
  BY LongestAssumption DEF Seen
<1>2. CASE held = o.of
  <2> DEFINE t == IF o.ticks > Longest THEN o.ticks ELSE o.ticks + 1
  <2>1. t \in 0 .. Longest + 1 /\ t > 0 /\ \A a \in Age : a <= o.ticks => t > a
    BY <1>1 DEF Age, None
  <2>2. Observed(o, says) = [o EXCEPT !.ticks = t]
    BY <1>2 DEF Observed
  <2> HIDE DEF t
  <2>3. [o EXCEPT !.ticks = t] \in Seen /\ [o EXCEPT !.ticks = t].of = o.of /\ [o EXCEPT !.ticks = t].ticks = t
    BY <2>1 DEF Seen
  <2> HIDE DEF held
  <2>4. Observed(o, says).of = held /\ Observed(o, says).ticks = t /\ Observed(o, says) \in Seen
    BY <1>2, <2>2, <2>3
  <2> QED BY <2>1, <2>4 DEF held
<1>3. CASE held # o.of
  <2>1. Observed(o, says) = [of |-> held, ticks |-> 1]
    BY <1>3 DEF Observed
  <2>2. [of |-> held, ticks |-> 1] \in Seen
    BY <1>1 DEF Seen
  <2> HIDE DEF held
  <2>3. Observed(o, says).of = held /\ Observed(o, says).ticks = 1 /\ Observed(o, says) \in Seen
    BY <2>1, <2>2
  <2> QED BY <1>3, <2>3 DEF held
<1> QED BY <1>2, <1>3

LEMMA Observes ==
    ASSUME observed \in [Subject -> Seen], NEW in, NEW ok, Observe(in, ok)
    PROVE  /\ observed' \in [Subject -> Seen]
           /\ \A s \in Plain :
                IF Suppressed(in) \/ ~ruleOn THEN observed'[s] = [of |-> observed[s].of, ticks |-> 0]
                ELSE ok = TRUE => observed'[s] = Observed(observed[s], Condition(in, s))
<1> DEFINE says(s) == IF s \notin Plain \/ ~ok THEN "unknown" ELSE Condition(in, s)
           gone(s) == s \in Plain /\ (Suppressed(in) \/ ~ruleOn)
<1>1. observed' = [s \in Subject |-> IF gone(s) THEN [of |-> observed[s].of, ticks |-> 0]
                                     ELSE Observed(observed[s], says(s))]
  BY DEF Observe, Observed
<1>2. ASSUME NEW s \in Subject
      PROVE  [of |-> observed[s].of, ticks |-> 0] \in Seen /\ Observed(observed[s], says(s)) \in Seen
  <2>1. observed[s] \in Seen
    OBVIOUS
  <2>2. [of |-> observed[s].of, ticks |-> 0] \in Seen
    BY <2>1, LongestAssumption DEF Seen
  <2> HIDE DEF says
  <2> QED BY <2>1, <2>2, ObservedIs
<1>3. observed' \in [Subject -> Seen]
  <2> HIDE DEF says, gone
  <2> QED BY <1>1, <1>2
<1>4. ASSUME NEW s \in Plain
      PROVE  IF Suppressed(in) \/ ~ruleOn THEN observed'[s] = [of |-> observed[s].of, ticks |-> 0]
             ELSE ok = TRUE => observed'[s] = Observed(observed[s], Condition(in, s))
  <2>1. s \in Subject
    BY DEF Subject
  <2>2. CASE Suppressed(in) \/ ~ruleOn
    BY <1>1, <2>1, <2>2
  <2>3. CASE ~(Suppressed(in) \/ ~ruleOn)
    <3>1. ok = TRUE => says(s) = Condition(in, s)
      OBVIOUS
    <3>2. observed'[s] = Observed(observed[s], says(s))
      BY <1>1, <2>1, <2>3
    <3> QED BY <2>3, <3>1, <3>2
  <2> QED BY <2>2, <2>3
<1> QED BY <1>3, <1>4

-----------------------------------------------------------------------------
\* What one step can rely on: nothing was observed for less than the states say.
Ready(e, o) ==
    /\ e.phase = "pending" => o.of = TRUE /\ e.since <= o.ticks
    /\ e.phase = "firing" => o.of = e.last
    /\ e.phase = "firing" /\ e.clearSince # None => o.of = FALSE /\ e.clearSince <= o.ticks

LEMMA StepFollows ==
    ASSUME NEW e \in State, Proper(e), NEW o \in Seen, NEW condition, Ready(e, o)
    PROVE  LET r == Step(e, condition, Timing)
               n == Observed(o, condition)
           IN  /\ Follows(r.state, n, FALSE)
               /\ r.transition = "fired" => n.of = TRUE /\ n.ticks > For /\ n.ticks > r.state.since
               /\ r.transition = "resolved" => n.ticks > Clear
<1> DEFINE r == Step(e, condition, Timing)
           n == Observed(o, condition)
           held == IF condition = "unknown" THEN o.of ELSE condition = "true"
           Good == /\ Follows(r.state, n, FALSE)
                   /\ r.transition = "fired" => n.of = TRUE /\ n.ticks > For /\ n.ticks > r.state.since
                   /\ r.transition = "resolved" => n.ticks > Clear
<1> SUFFICES Good
  OBVIOUS
<1>0. r = Step(e, condition, Timing)
  OBVIOUS
<1>1. /\ n.of = held /\ n.ticks > 0 /\ n.ticks \in Int /\ o.ticks \in Int
      /\ held = o.of => \A a \in Age : a <= o.ticks => n.ticks > a
  BY ObservedIs DEF Seen
<1>2. /\ e.phase \in {"ok", "pending", "firing"} /\ {e.since, e.clearSince, e.notified} \subseteq Age
      /\ e.last \in BOOLEAN /\ o.of \in BOOLEAN /\ held \in BOOLEAN
  BY DEF State, Seen
<1>3. For \in 0 .. Longest /\ Clear \in 0 .. Longest /\ For \in Age /\ Longest \in Nat /\ None = -1
  BY NumbersAssumption, LongestAssumption DEF Age, None
<1>4. e.phase = "ok" /\ Held(e, condition) => held = TRUE
  BY <1>2 DEF Held, Proper
<1>5. e.phase = "pending" => o.of = TRUE /\ (Held(e, condition) <=> held)
  BY <1>2 DEF Held, Proper, Ready
<1>6. e.phase = "firing" => (Held(e, condition) <=> held)
  BY <1>2 DEF Held, Ready
<1>7. NoState.phase = "ok" /\ Follows(NoState, n, FALSE)
  BY DEF NoState, Follows
<1> HIDE DEF r, n, held
<1>8. CASE e.phase = "ok" /\ Held(e, condition)
  <2>1. r = IF For = 0 THEN Fires(0) ELSE Result(Starts, "none")
    BY <1>0, <1>8, StepIs
  <2>2. n.of = TRUE
    BY <1>1, <1>4, <1>8
  <2>3. CASE For = 0
    <3>1. r = Fires(0)
      BY <2>1, <2>3
    <3>2. /\ r.transition = "fired" /\ r.state.phase = "firing" /\ r.state.last = TRUE
          /\ r.state.clearSince = None /\ r.state.since = 0
      BY <3>1, FiresIs, Ages
    <3> QED BY <1>1, <2>2, <2>3, <3>2 DEF Follows
  <2>4. CASE For # 0
    <3>1. r.state = Starts /\ r.transition = "none"
      BY <2>1, <2>4, ResultIs
    <3> QED BY <1>1, <2>2, <3>1, StartsIs DEF Follows
  <2> QED BY <2>3, <2>4
<1>9. CASE e.phase = "pending" /\ Held(e, condition)
  <2>1. r = IF Elapsed(e.since) >= For THEN Fires(e.since) ELSE Result([e EXCEPT !.last = TRUE], "none")
    BY <1>0, <1>9, StepIs
  <2>2. n.of = TRUE /\ n.ticks > e.since
    BY <1>1, <1>2, <1>5, <1>9 DEF Ready
  <2>3. CASE Elapsed(e.since) >= For
    <3>1. r = Fires(e.since)
      BY <2>1, <2>3
    <3>2. /\ r.transition = "fired" /\ r.state.phase = "firing" /\ r.state.last = TRUE
          /\ r.state.clearSince = None /\ r.state.since = e.since
      BY <1>2, <3>1, FiresIs
    <3>3. e.since \in Int /\ For \in Int
      BY <1>2, <1>3 DEF Age
    <3>4. n.ticks > For
      BY <1>1, <2>2, <2>3, <3>3 DEF Elapsed
    <3> QED BY <2>2, <3>2, <3>4 DEF Follows
  <2>4. CASE ~(Elapsed(e.since) >= For)
    <3>1. r.state = [e EXCEPT !.last = TRUE] /\ r.transition = "none"
      BY <2>1, <2>4, ResultIs
    <3>2. r.state.phase = "pending" /\ r.state.since = e.since
      BY <1>9, <3>1 DEF State
    <3> QED BY <2>2, <3>1, <3>2 DEF Follows
  <2> QED BY <2>3, <2>4
<1>10. CASE e.phase \in {"ok", "pending"} /\ ~Held(e, condition)
  <2>1. r = Result(NoState, "none")
    BY <1>0, <1>10, StepIs
  <2>2. r.state = NoState /\ r.transition = "none"
    BY <2>1, ResultIs
  <2> QED BY <1>7, <2>2
<1>11. CASE e.phase = "firing" /\ Held(e, condition)
  <2> DEFINE m == [e EXCEPT !.clearSince = None, !.last = TRUE, !.notified = IF Reminds(e) THEN 0 ELSE @]
  <2>1. r = Result(m, IF Reminds(e) THEN "renotify" ELSE "none")
    BY <1>0, <1>11, StepIs
  <2>2. m.phase = "firing" /\ m.last = TRUE /\ m.clearSince = None
    BY <1>11 DEF State
  <2>3. r.state = m /\ r.transition \in {"none", "renotify"}
    BY <2>1, ResultIs
  <2>4. n.of = TRUE
    BY <1>1, <1>2, <1>6, <1>11
  <2> HIDE DEF m
  <2> QED BY <2>2, <2>3, <2>4 DEF Follows
<1>12. CASE e.phase = "firing" /\ ~Held(e, condition)
  <2> DEFINE m == [e EXCEPT !.clearSince = ClearFrom(e), !.last = FALSE]
  <2>1. r = IF ClearFrom(e) >= Clear THEN Result(NoState, "resolved") ELSE Result(m, "none")
    BY <1>0, <1>12, StepIs
  <2>2. m.phase = "firing" /\ m.last = FALSE /\ m.clearSince = ClearFrom(e)
    BY <1>12 DEF State
  <2>3. n.of = FALSE
    BY <1>1, <1>2, <1>6, <1>12
  <2>4. n.ticks > ClearFrom(e) /\ ClearFrom(e) \in Int
    <3>1. CASE e.clearSince = None
      BY <1>1, <3>1 DEF ClearFrom
    <3>2. CASE e.clearSince # None
      <4>1. o.of = FALSE /\ e.clearSince <= o.ticks
        BY <1>12, <3>2 DEF Ready
      <4>2. held = o.of
        BY <1>1, <2>3, <4>1
      <4>3. ClearFrom(e) = e.clearSince /\ e.clearSince \in Age
        BY <1>2, <3>2 DEF ClearFrom
      <4> QED BY <1>1, <4>1, <4>2, <4>3 DEF Age
    <3> QED BY <3>1, <3>2
  <2> HIDE DEF m
  <2>5. CASE ClearFrom(e) >= Clear
    <3>1. r.state = NoState /\ r.transition = "resolved"
      BY <2>1, <2>5, ResultIs
    <3>2. n.ticks > Clear
      BY <1>1, <1>3, <2>4, <2>5
    <3> QED BY <1>7, <3>1, <3>2
  <2>6. CASE ~(ClearFrom(e) >= Clear)
    <3>1. r.state = m /\ r.transition = "none"
      BY <2>1, <2>6, ResultIs
    <3> QED BY <2>2, <2>3, <2>4, <3>1 DEF Follows
  <2> QED BY <2>5, <2>6
<1> QED BY <1>2, <1>8, <1>9, <1>10, <1>11, <1>12

LEMMA GetsReady ==
    ASSUME states \in [Subject -> State], StatesProper, NEW s \in Plain, observed[s] \in Seen,
           ruleOn, Watched(s), NEW in, ~Suppressed(in)
    PROVE  Ready(Effective(in)[s], observed[s])
<1> DEFINE st == states[s]
           o == observed[s]
           e == Effective(in)[s]
<1> SUFFICES Ready(e, o)
  OBVIOUS
<1>1. s \in Subject /\ st \in State /\ Follows(st, o, wasSuppressed)
  BY DEF Subject, Watched
<1>2. /\ Later(st) \in State /\ Later(st).phase = st.phase /\ Later(st).last = st.last
      /\ Later(st).since = Older(st.since) /\ Later(st).clearSince = Older(st.clearSince)
  BY <1>1, Laters
<1>3. e = IF wasSuppressed THEN Resumed(Later(st)) ELSE Later(st)
  BY <1>1 DEF Effective
<1>4. /\ {st.since, st.clearSince} \subseteq Age /\ o.ticks \in 0 .. Longest + 1
      /\ Longest \in Nat /\ None = -1 /\ st.phase \in {"ok", "pending", "firing"}
  BY <1>1, LongestAssumption DEF State, Seen, None
<1> HIDE DEF st, o, e
<1>5. CASE wasSuppressed
  <2>1. /\ e.phase # "pending" /\ (e.phase = "firing" => st.phase = "firing")
        /\ e.phase = "firing" => e.clearSince = None /\ e.last = st.last
    <3>1. CASE st.phase = "ok"
      BY <1>2, <1>3, <1>5, <3>1, Resumes
    <3>2. CASE st.phase = "pending"
      BY <1>2, <1>3, <1>5, <3>2, Resumes DEF NoState
    <3>3. CASE st.phase = "firing"
      <4>1. e = [Later(st) EXCEPT !.clearSince = None]
        BY <1>2, <1>3, <1>5, <3>3, Resumes
      <4> QED BY <1>2, <3>3, <4>1 DEF State
    <3> QED BY <1>4, <3>1, <3>2, <3>3
  <2> QED BY <1>1, <2>1 DEF Ready, Follows
<1>6. CASE ~wasSuppressed
  <2>1. \A a \in Age : o.ticks > a => Older(a) <= o.ticks
    <3>1. \A a \in Int : \A b, t \in Int : b <= a + 1 /\ t > a => b <= t
      OBVIOUS
    <3>2. ASSUME NEW a \in Age, o.ticks > a PROVE Older(a) <= o.ticks
      <4>1. a \in Int /\ Older(a) \in Int /\ o.ticks \in Int
        BY <1>4, Olders DEF Age
      <4>2. CASE a = None
        <5>1. Older(a) = None
          BY <4>2 DEF Older
        <5> QED BY <1>4, <5>1
      <4>3. CASE a # None
        <5>1. Older(a) <= a + 1
          BY <4>3, Olders
        <5> QED BY <3>1, <3>2, <4>1, <5>1
      <4> QED BY <4>2, <4>3
    <3> QED BY <3>2
  <2>2. e.phase = st.phase /\ e.last = st.last /\ e.since = Older(st.since) /\ e.clearSince = Older(st.clearSince)
    BY <1>2, <1>3, <1>6
  <2>3. e.clearSince # None => st.clearSince # None
    BY <1>4, <2>2, Olders
  <2> QED BY <1>1, <1>4, <1>6, <2>1, <2>2, <2>3 DEF Ready, Follows
<1> QED BY <1>5, <1>6

LEMMA WatchGoesOn ==
    ASSUME AlertsInv, troubles = 0, NEW in, Writes(in), Observe(in, TRUE), NEW s \in Plain
    PROVE  /\ wasSuppressed' = Suppressed(in) => Watched(s)'
           /\ told[s] # told'[s] => observed'[s].ticks > (IF told'[s] THEN For ELSE Clear)
<1> DEFINE res == Stepped(in)
           kept == Kept(res)
           st == states[s]
           o == observed[s]
           n == observed'[s]
           e == Effective(in)[s]
           r == res[s]
<1>1. /\ states \in [Subject -> State] /\ StatesProper /\ s \in Subject /\ s \notin Link
      /\ o \in Seen /\ ruleOn /\ Watched(s) /\ st \in State
  BY SubjectsAssumption DEF AlertsInv, AlertsTypeOK, Subject
<1>2. Tells(res)
  BY <1>1, SteppedTells
<1>3. /\ states'[s] = Stored(res, s)
      /\ told'[s] = CASE s \in kept /\ r.transition = "fired" -> TRUE
                      [] s \in kept /\ r.transition = "resolved" -> FALSE
                      [] OTHER -> told[s]
  BY <1>1 DEF Writes, Write
<1>4. IF Suppressed(in) THEN n = [of |-> o.of, ticks |-> 0] ELSE n = Observed(o, Condition(in, s))
  BY <1>1, Observes DEF AlertsInv
<1>5. r = IF s \in Evaluated(in) THEN Step(e, Condition(in, s), Timing) ELSE Result(e, "none")
  BY <1>1 DEF Stepped
<1>6. e \in State /\ Proper(e)
  BY <1>1, Effectives
<1> HIDE DEF res
<1>7. /\ r.transition = "fired" /\ s \notin kept =>
           states'[s].phase = "pending" /\ states'[s].since = r.state.since
      /\ ~(r.transition = "fired" /\ s \notin kept) => states'[s] = r.state
  BY <1>1, <1>2, <1>3, StoredIs
<1> HIDE DEF r, n, e, o, st, kept
<1>8. CASE Suppressed(in)
  <2>1. s \notin Evaluated(in)
    BY <1>1, <1>8 DEF Evaluated
  <2>2. r.state = e /\ r.transition = "none"
    BY <1>5, <2>1, ResultIs
  <2>3. e = Later(st)
    BY <1>1, <1>8 DEF Effective, e, st
  <2>4. states'[s] = Later(st) /\ told'[s] = told[s]
    BY <1>3, <1>7, <2>2, <2>3
  <2>5. /\ Later(st).phase = st.phase /\ Later(st).last = st.last
        /\ Later(st).clearSince # None => st.clearSince # None
    <3>1. st.clearSince \in Age
      BY <1>1 DEF State
    <3> QED BY <1>1, <3>1, Laters, Olders
  <2>6. Follows(st, o, wasSuppressed)
    BY <1>1 DEF Watched, st, o
  <2>7. n.of = o.of
    BY <1>4, <1>8
  <2>8. ASSUME wasSuppressed' PROVE Follows(Later(st), n, wasSuppressed')
    BY <2>5, <2>6, <2>7, <2>8 DEF Follows
  <2>9. wasSuppressed' = Suppressed(in) => Watched(s)'
    BY <1>8, <2>4, <2>8 DEF Watched, n
  <2> QED BY <2>4, <2>9
<1>9. CASE ~Suppressed(in)
  <2> DEFINE c == Condition(in, s)
  <2>1. n = Observed(o, c)
    BY <1>4, <1>9
  <2>2. Ready(e, o)
    BY <1>1, <1>9, GetsReady DEF e, o
  <2>3. /\ Follows(r.state, n, FALSE)
        /\ r.transition = "fired" => n.of = TRUE /\ n.ticks > For /\ n.ticks > r.state.since
        /\ r.transition = "resolved" => n.ticks > Clear
    <3>1. CASE s \in Evaluated(in)
      <4>1. r = Step(e, c, Timing)
        BY <1>5, <3>1
      <4> HIDE DEF c
      <4> QED BY <1>1, <1>6, <2>1, <2>2, <4>1, StepFollows
    <3>2. CASE s \notin Evaluated(in)
      <4>1. s \notin stateRows
        BY <1>1, <1>9, <3>2 DEF Evaluated, Circuits, HasRow
      <4>2. st.phase = "ok"
        BY <1>1, <4>1 DEF AlertsInv, RowsKept, st
      <4>3. e.phase = "ok"
        <5>1. Later(st) \in State /\ Later(st).phase = "ok"
          BY <1>1, <4>2, Laters
        <5>2. Resumed(Later(st)) = Later(st)
          BY <5>1, Resumes
        <5>3. e \in {Later(st), Resumed(Later(st))}
          BY <1>1 DEF Effective, e, st
        <5> QED BY <5>1, <5>2, <5>3
      <4>4. r.state = e /\ r.transition = "none"
        BY <1>5, <3>2, ResultIs
      <4> QED BY <4>3, <4>4 DEF Follows
    <3> QED BY <3>1, <3>2
  <2>4. Follows(states'[s], n, FALSE)
    BY <1>7, <2>3 DEF Follows
  <2>5. ASSUME ~wasSuppressed' PROVE Follows(states'[s], n, wasSuppressed')
    BY <2>4 DEF Follows
  <2>6. wasSuppressed' = Suppressed(in) => Watched(s)'
    BY <1>9, <2>5 DEF Watched, n
  <2>7. told[s] # told'[s] => n.ticks > (IF told'[s] THEN For ELSE Clear)
    BY <1>3, <2>3
  <2> QED BY <2>6, <2>7 DEF n
<1> QED BY <1>8, <1>9

-----------------------------------------------------------------------------
LEMMA AlertsInductive == AlertsInv /\ [AlertsNext]_alertVars => AlertsInv'
<1> SUFFICES ASSUME AlertsInv, [AlertsNext]_alertVars PROVE AlertsInv'
  OBVIOUS
<1>1. /\ LogPart /\ observed \in [Subject -> Seen] /\ troubles \in Nat
      /\ {ruleOn, wasSuppressed} \subseteq BOOLEAN
      /\ troubles = 0 => ruleOn = TRUE /\ \A s \in Plain : Watched(s)
  BY DEF AlertsInv, LogPart, AlertsTypeOK
<1>2. CASE Evaluate
  <2>1. PICK in \in Readings : Writes(in) /\ Advance(in) /\ Observe(in, TRUE)
    BY <1>2 DEF Evaluate
  <2>2. ruleOn' = ruleOn /\ troubles' = troubles /\ wasSuppressed' = Suppressed(in)
    BY <1>2, <2>1 DEF Evaluate, Advance
  <2>3. {ruleOn', wasSuppressed'} \subseteq BOOLEAN
    BY <1>1, <2>2 DEF Suppressed
  <2>4. LogPart'
    BY <1>1, <2>1, <2>3, WritesKeeps
  <2>5. observed' \in [Subject -> Seen]
    BY <1>1, <2>1, Observes
  <2>6. ASSUME troubles = 0, NEW s \in Plain PROVE Watched(s)'
    BY <2>1, <2>2, <2>6, WatchGoesOn
  <2> QED BY <1>1, <2>2, <2>4, <2>5, <2>6 DEF AlertsInv, LogPart
<1>3. CASE EvaluateFails
  <2>1. PICK in \in Readings : Observe(in, FALSE)
    BY <1>3 DEF EvaluateFails
  <2>2. ruleOn' = ruleOn /\ troubles' = troubles + 1 /\ wasSuppressed' = wasSuppressed /\ NothingWritten
    BY <1>3 DEF EvaluateFails, Trouble
  <2>3. LogPart' /\ observed' \in [Subject -> Seen]
    BY <1>1, <2>1, <2>2, NothingKeeps, Observes
  <2> QED BY <1>1, <2>2, <2>3 DEF AlertsInv, LogPart
<1>4. CASE EvaluateUnsure
  <2>1. PICK in \in Readings : Writes(in) /\ Observe(in, TRUE)
    BY <1>4 DEF EvaluateUnsure
  <2>2. ruleOn' = ruleOn /\ troubles' = troubles + 1 /\ wasSuppressed' = wasSuppressed
    BY <1>4 DEF EvaluateUnsure, Trouble
  <2>3. LogPart' /\ observed' \in [Subject -> Seen]
    BY <1>1, <2>1, <2>2, WritesKeeps, Observes
  <2> QED BY <1>1, <2>2, <2>3 DEF AlertsInv, LogPart
<1>5. CASE Restart
  <2>1. PICK in \in Readings : Observe(in, FALSE)
    BY <1>5 DEF Restart
  <2>2. ruleOn' = ruleOn /\ troubles' = troubles + 1 /\ wasSuppressed' = FALSE /\ NothingWritten
    BY <1>5 DEF Restart, Trouble
  <2>3. LogPart' /\ observed' \in [Subject -> Seen]
    BY <1>1, <2>1, <2>2, NothingKeeps, Observes
  <2> QED BY <1>1, <2>2, <2>3 DEF AlertsInv, LogPart
<1>6. CASE SetRule
  <2>1. /\ ruleOn' = ~ruleOn /\ troubles' = troubles + 1
        /\ UNCHANGED <<states, stateRows, events, wasSuppressed, told, paced, observed>>
    BY <1>6 DEF SetRule, Trouble, historyVars
  <2>2. LogPart'
    BY <1>1, <2>1 DEF LogPart, AlertsTypeOK, StatesProper, LogIsKept, RowsKept
  <2> QED BY <1>1, <2>1, <2>2 DEF AlertsInv, LogPart
<1>7. CASE Settle \/ UNCHANGED alertVars
  <2>1. UNCHANGED <<states, stateRows, events, ruleOn, wasSuppressed, troubles, told, paced, observed>>
    BY <1>7 DEF Settle, historyVars, alertVars
  <2> QED BY <1>1, <2>1 DEF AlertsInv, LogPart, AlertsTypeOK, StatesProper, LogIsKept, RowsKept, Watched
<1> QED BY <1>2, <1>3, <1>4, <1>5, <1>6, <1>7 DEF AlertsNext

\* Whatever is observed, written or lost, states and log keep their shapes.
THEOREM AlertsTyped == AlertsSpec => []AlertsTypeOK
<1>1. AlertsInv => AlertsTypeOK
  BY DEF AlertsInv
<1> QED BY <1>1, AlertsInitially, AlertsInductive, PTL DEF AlertsSpec

\* With any number of subjects and troubles, the log's last word on a subject is its state, and
\* the events that the quota paces never exceed it in any window.
THEOREM LogAgrees == AlertsSpec => []LogIsKept
<1>1. AlertsInv => LogIsKept
  BY DEF AlertsInv
<1> QED BY <1>1, AlertsInitially, AlertsInductive, PTL DEF AlertsSpec

\* As long as nothing has failed, an alert begins or ends only after what was observed, without
\* a gap, for more than For or Clear.
THEOREM GapsDoNotCount == AlertsSpec => GapNeverCounts
<1> DEFINE Fair == troubles = 0 => \A s \in Plain : told[s] # told'[s] =>
                     observed'[s].ticks > (IF told'[s] THEN For ELSE Clear)
<1>1. AlertsInv /\ [AlertsNext]_alertVars => [Fair]_alertVars
  <2> SUFFICES ASSUME AlertsInv, AlertsNext, troubles = 0, NEW s \in Plain, told[s] # told'[s]
      PROVE observed'[s].ticks > (IF told'[s] THEN For ELSE Clear)
    OBVIOUS
  <2>1. CASE Evaluate \/ EvaluateUnsure
    <3>1. PICK in \in Readings : Writes(in) /\ Observe(in, TRUE)
      BY <2>1 DEF Evaluate, EvaluateUnsure
    <3> QED BY <3>1, WatchGoesOn
  <2>2. CASE EvaluateFails \/ Restart \/ SetRule \/ Settle
    <3>1. told' = told
      BY <2>2 DEF EvaluateFails, Restart, SetRule, Settle, NothingWritten, historyVars
    <3> QED BY <3>1
  <2> QED BY <2>1, <2>2 DEF AlertsNext
<1>2. AlertsSpec => [][Fair]_alertVars
  <2> HIDE DEF Fair
  <2> QED BY <1>1, AlertsInitially, AlertsInductive, PTL DEF AlertsSpec
<1> QED BY <1>2 DEF GapNeverCounts
=============================================================================
