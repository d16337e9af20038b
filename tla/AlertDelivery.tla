---------------------------- MODULE AlertDelivery ----------------------------
(***************************************************************************)
(* The alert outbox and its senders (alertDeliveryWorker.ts,               *)
(* pushDelivery.ts, deliveryRepository.ts, retryPolicy.ts).  A row is one  *)
(* alert event for one target: a server's Discord webhook or a member's    *)
(* push subscription.  A tick claims due rows under a lease, tries each,   *)
(* and writes what came of it.  Only the leader sends, but an old leader's *)
(* tick may still run when the next one starts.                            *)
(*                                                                         *)
(* Times are kept as distances from now: until a row is due, since it was  *)
(* created, since a tick began.  Rows are numbered in the order of their   *)
(* events.                                                                 *)
(***************************************************************************)
EXTENDS Integers, FiniteSets, Sequences

CONSTANTS
    Process,
    Discord, Push,       \* targets: destinations and push subscriptions
    MaxRow,              \* bound: rows ever queued
    TargetOf,            \* the target of each row
    ServerOf,            \* the server a target's events come from
    Lease, Budget, Batch,\* leaseSeconds, tickBudgetMs, batchSize
    MaxCall, MaxRelease, \* the longest that one delivery, and one release, takes
    Base, MaxDelay,      \* BASE_DELAY_MS, MAX_DELAY_MS
    Recheck, DeadAfter,  \* GONE_RECHECK_MS, DEAD_AFTER_MS
    Asked,               \* the retry_after values services give
    Answers,             \* what sends may end in
    MaxFaults, MaxSaves  \* bounds: abandoned ticks, changes of settings

Row == 1 .. MaxRow
\* What a delivery may end in: SendOutcome, and the ends of `deliver` without a send.
Answered == {"sent", "timeout", "limited", "error", "gone", "rejected",
             "unreadable", "dropped", "untried", "expired"}
Target == Discord \cup Push

ASSUME TimesAssumption ==
    /\ {Lease, Budget, Batch, MaxCall, Base, MaxDelay, Recheck, DeadAfter} \subseteq Nat \ {0}
    /\ MaxRow \in Nat /\ MaxRelease \in Nat /\ MaxFaults \in Nat /\ MaxSaves \in Nat
    /\ Asked \subseteq Nat /\ Answers \subseteq Answered
ASSUME TargetsAssumption == TargetOf \in [Row -> Target] /\ Discord \cap Push = {}

VARIABLES
    outbox,    \* [row -> its record]
    writing,   \* the row the evaluator's open transaction queues, or 0
    enabled,   \* [target -> it may be sent to]
    sender,    \* [process -> its tick]
    faults, saves
vars == <<outbox, writing, enabled, sender, faults, saves>>
boundVars == <<faults, saves>>

\* wait: until it is due.  History: posts, the times it was accepted; lost, the accepted
\* posts whose answer or write was lost.
NoRow == [status |-> "none", attempts |-> 0, wait |-> 0, age |-> 0, posts |-> 0, lost |-> 0]
NoTick == [pc |-> "idle", claims |-> <<>>, elapsed |-> 0, spent |-> 0, answer |-> "none",
           after |-> 0, paused |-> {}, hostPaused |-> FALSE]

Init ==
    /\ outbox = [r \in Row |-> NoRow] /\ writing = 0
    /\ enabled = [t \in Target |-> TRUE]
    /\ sender = [p \in Process |-> NoTick]
    /\ faults = 0 /\ saves = 0

Least(a, b) == IF a < b THEN a ELSE b
Most(a, b) == IF a > b THEN a ELSE b
Pending(r) == outbox[r].status = "pending"
Claimed(p) == sender[p].claims[1]
Doing(p) == Claimed(p).row
Aim(p) == TargetOf[Doing(p)]
Delivering(p, r) == sender[p].pc \in {"sending", "answered"} /\ Doing(p) = r

-----------------------------------------------------------------------------
\* The evaluator's transaction (writeEvaluation): the rows of enabled targets.
Enqueue(r) ==
    /\ writing = 0 /\ outbox[r].status = "none" /\ \A q \in 1 .. r - 1 : outbox[q].status # "none"
    /\ enabled[TargetOf[r]]
    /\ writing' = r
    /\ UNCHANGED <<outbox, enabled, sender, boundVars>>

Commit ==
    /\ writing # 0
    /\ outbox' = [outbox EXCEPT ![writing] = [NoRow EXCEPT !.status = "pending"]]
    /\ writing' = 0
    /\ UNCHANGED <<enabled, sender, boundVars>>

-----------------------------------------------------------------------------
\* CLAIM_DUE.  r comes before q among its server's due rows.
DueOnce(r) == Pending(r) /\ outbox[r].wait <= 0 /\ enabled[TargetOf[r]] /\ outbox[r].attempts = 0 \* mutant
Due(r) == Pending(r) /\ outbox[r].wait <= 0 /\ enabled[TargetOf[r]]
Ahead(r, q) ==
    LET Key(x) == <<IF TargetOf[x] \in Push THEN 1 ELSE 0, outbox[x].wait, x>>
        a == Key(r)  b == Key(q)
    IN  \/ a[1] < b[1]
        \/ a[1] = b[1] /\ a[2] < b[2]
        \/ a[1] = b[1] /\ a[2] = b[2] /\ a[3] < b[3]
SameServer(r, q) == ServerOf[TargetOf[r]] = ServerOf[TargetOf[q]]
Turn(r) == Cardinality({q \in Row : Due(q) /\ SameServer(r, q) /\ Ahead(q, r)})
Sooner(r, q) ==
    \/ Turn(r) < Turn(q)
    \/ Turn(r) = Turn(q) /\ outbox[r].wait < outbox[q].wait
    \/ Turn(r) = Turn(q) /\ outbox[r].wait = outbox[q].wait /\ r < q
Dues == {r \in Row : Due(r)}
Picked(rows) ==
    /\ Cardinality(rows) = Least(Batch, Cardinality(Dues))
    /\ \A r \in rows, q \in Dues \ rows : Sooner(r, q)
InTurn(order) ==
    \A i, j \in DOMAIN order : i < j =>
        \/ Turn(order[i]) < Turn(order[j])
        \/ Turn(order[i]) = Turn(order[j]) /\ order[i] < order[j]

\* claimDueDeliveries: the rows in turn order.
Claim(p) ==
    /\ sender[p].pc = "idle" /\ Dues # {}
    /\ \E rows \in SUBSET Dues : \E order \in [1 .. Cardinality(rows) -> rows] :
         /\ Picked(rows) /\ InTurn(order)
         /\ sender' = [sender EXCEPT ![p] = [NoTick EXCEPT
              !.pc = "next",
              !.claims = [i \in 1 .. Cardinality(rows) |->
                 [row |-> order[i], attempts |-> outbox[order[i]].attempts + 1]]]]
         /\ outbox' = [r \in Row |-> IF r \in rows
              THEN [outbox[r] EXCEPT !.attempts = @ + 1, !.wait = Lease] ELSE outbox[r]]
    /\ UNCHANGED <<writing, enabled, boundVars>>

\* The tick goes on after its first claimed row, or ends.
Behind(s) == IF Len(s.claims) = 1 THEN NoTick
             ELSE [s EXCEPT !.pc = "next", !.claims = Tail(@), !.spent = 0, !.answer = "none", !.after = 0]

\* A target that was rate limited or gone this tick: the row keeps its lease.
SkipPaused(p) ==
    /\ sender[p].pc = "next" /\ sender[p].elapsed < Budget /\ Aim(p) \in sender[p].paused
    /\ sender' = [sender EXCEPT ![p] = Behind(@)]
    /\ UNCHANGED <<outbox, writing, enabled, boundVars>>

\* deliver, up to the send: an expired row, a secret that cannot be opened, a member
\* who no longer wants it or a paused push host end it without one.
MayTry(p) == sender[p].pc = "next" /\ sender[p].elapsed < Budget /\ Aim(p) \notin sender[p].paused

Deliver(p) ==
    LET t == Aim(p)
        end == IF outbox[Doing(p)].age >= DeadAfter THEN {"expired"}
               ELSE ({"unreadable"} \cap Answers)
                    \cup IF t \in Discord THEN {"none"}
                         ELSE ({"dropped"} \cap Answers)
                              \cup {IF sender[p].hostPaused THEN "untried" ELSE "none"}
    IN  /\ MayTry(p)
        /\ \E e \in end :
             sender' = [sender EXCEPT ![p].pc = IF e = "none" THEN "sending" ELSE "answered",
                                      ![p].answer = e, ![p].spent = 0]
        /\ UNCHANGED <<outbox, writing, enabled, boundVars>>

\* The service answers.  A timeout may hide that it took the message.
Accepted(o, r, byLoss) == [o EXCEPT ![r].posts = @ + 1, ![r].lost = @ + byLoss]
Answer(p) ==
    /\ sender[p].pc = "sending"
    /\ \E a \in Answers \ {"unreadable", "dropped"} :
         /\ sender' = [sender EXCEPT ![p].pc = "answered", ![p].answer = a]
         /\ outbox' \in CASE a = "sent" -> {Accepted(outbox, Doing(p), 0)}
                          [] a = "timeout" -> {outbox, Accepted(outbox, Doing(p), 1)}
                          [] OTHER -> {outbox}
    /\ UNCHANGED <<writing, enabled, boundVars>>

\* The 429 names a time; the code counts it from the start of the delivery.
Limited(p) ==
    /\ sender[p].pc = "sending" /\ "limited" \in Answers
    /\ \E a \in Asked :
         /\ sender' = [sender EXCEPT ![p].pc = "answered", ![p].answer = "limited", ![p].after = a]
    /\ UNCHANGED <<outbox, writing, enabled, boundVars>>

-----------------------------------------------------------------------------
\* What a delivery writes.  Every statement of one row asks that it is pending.
Update(o, r, new) == IF o[r].status = "pending" THEN [o EXCEPT ![r] = new] ELSE o
Dead(o, r) == Update(o, r, [o[r] EXCEPT !.status = "dead"])
DeadForTarget(o, t) == [r \in Row |-> IF TargetOf[r] = t /\ o[r].status = "pending"
                                      THEN [o[r] EXCEPT !.status = "dead"] ELSE o[r]]
Removed(o, t) == [r \in Row |-> IF TargetOf[r] = t /\ o[r].status # "none"
                                THEN [o[r] EXCEPT !.status = "removed"] ELSE o[r]]
Backoff(n) == Least(MaxDelay, Base * 2 ^ (Most(n, 1) - 1))
RetryDelay(n, asked) == Most(Backoff(n), asked)
GivenBack(o, r) == Update(o, r, [o[r] EXCEPT !.wait = 0, !.attempts = Most(@ - 1, 0)])
MarkSentLate(o, r) == Update(o, r, [o[r] EXCEPT !.wait = 0]) \* mutant
MarkSent(o, r) == Update(o, r, [o[r] EXCEPT !.status = "sent"])

\* `now` was read when the delivery began, `spent` ago.
Rescheduled(p, delay) ==
    LET r == Doing(p) IN Update(outbox, r, [outbox[r] EXCEPT !.wait = Most(delay - sender[p].spent, 0)])
NextDelay(p) == RetryDelay(Claimed(p).attempts, sender[p].after)
Expires(p) == outbox[Doing(p)].age - sender[p].spent + NextDelay(p) >= DeadAfter
Retried(p) == IF Expires(p) THEN Dead(outbox, Doing(p)) ELSE Rescheduled(p, NextDelay(p))

GoneConfirmed(p) == Claimed(p).attempts >= 2

Record(p) ==
    LET t == Aim(p)  a == sender[p].answer
        off == a = "gone" /\ (t \in Push \/ GoneConfirmed(p))
        after == Behind(sender[p])
        pauses == a = "gone" \/ (a = "limited" /\ ~(t \in Push /\ Expires(p)))
    IN  /\ sender[p].pc = "answered"
        /\ outbox' =
             CASE a = "sent" -> MarkSent(outbox, Doing(p))
               [] a \in {"limited", "error", "timeout"} -> Retried(p)
               [] a = "unreadable" ->
                    IF t \in Push THEN Retried(p) ELSE Rescheduled(p, RetryDelay(Claimed(p).attempts, 0))
               [] a = "untried" -> GivenBack(outbox, Doing(p))
               [] a = "gone" -> IF ~off THEN Rescheduled(p, Recheck)
                                ELSE IF t \in Push THEN Removed(outbox, t) ELSE DeadForTarget(outbox, t)
               [] OTHER -> Dead(outbox, Doing(p))
        /\ enabled' = IF off THEN [enabled EXCEPT ![t] = FALSE] ELSE enabled
        /\ sender' = [sender EXCEPT ![p] = IF after = NoTick THEN NoTick ELSE
             [after EXCEPT !.paused = IF pauses THEN @ \cup {t} ELSE @,
                           !.hostPaused = @ \/ (t \in Push /\ a \in {"limited", "timeout"})]]
        /\ UNCHANGED <<writing, boundVars>>

\* Out of time: the rest is handed back, one statement a row.
OutOfTime(p) ==
    /\ sender[p].pc = "next" /\ sender[p].elapsed >= Budget
    /\ sender' = [sender EXCEPT ![p].pc = "releasing", ![p].spent = 0]
    /\ UNCHANGED <<outbox, writing, enabled, boundVars>>

Release(p) ==
    LET s == sender[p] IN
    /\ s.pc = "releasing"
    /\ outbox' = GivenBack(outbox, Doing(p))
    /\ sender' = [sender EXCEPT ![p] = IF Len(s.claims) = 1 THEN NoTick
                    ELSE [s EXCEPT !.claims = Tail(@), !.spent = 0]]
    /\ UNCHANGED <<writing, enabled, boundVars>>

\* The tick ends early: the process stops or dies, or a statement fails.  The rest
\* keeps its lease; a post that was taken is not written.
Abandon(p) ==
    LET r == Doing(p)  s == sender[p] IN
    /\ s.pc # "idle" /\ faults < MaxFaults
    /\ faults' = faults + 1
    /\ sender' = [sender EXCEPT ![p] = NoTick]
    /\ outbox' \in CASE s.pc = "sending" -> {outbox, Accepted(outbox, r, 1)}
                     [] s.pc = "answered" /\ s.answer = "sent" -> {[outbox EXCEPT ![r].lost = @ + 1]}
                     [] OTHER -> {outbox}
    /\ UNCHANGED <<writing, enabled, saves>>

-----------------------------------------------------------------------------
\* The API of a server's destination.
Save(t) ==
    /\ saves < MaxSaves /\ saves' = saves + 1
    /\ enabled' = [enabled EXCEPT ![t] = TRUE]
    /\ UNCHANGED <<outbox, writing, sender, faults>>

Disable(t) ==
    /\ saves < MaxSaves /\ saves' = saves + 1 /\ enabled[t]
    /\ enabled' = [enabled EXCEPT ![t] = FALSE] /\ outbox' = DeadForTarget(outbox, t)
    /\ UNCHANGED <<writing, sender, faults>>

-----------------------------------------------------------------------------
\* Overdue rows keep only their order.
Squeezed(o) == [r \in Row |-> IF o[r].wait >= 0 THEN o[r] ELSE
    [o[r] EXCEPT !.wait = -Cardinality({o[q].wait : q \in {x \in Row : o[r].wait <= o[x].wait /\ o[x].wait < 0}})]]
Aged(o) == [r \in Row |-> IF o[r].status # "pending" THEN [o[r] EXCEPT !.wait = 0, !.age = 0]
    ELSE [o[r] EXCEPT !.wait = @ - 1, !.age = Least(@ + 1, DeadAfter + MaxCall)]]

\* A call takes only so long; between calls the tick does not wait.
MayWait(p) == CASE sender[p].pc = "idle" -> TRUE
                [] sender[p].pc = "next" -> FALSE
                [] sender[p].pc = "releasing" -> sender[p].spent < MaxRelease
                [] OTHER -> sender[p].spent < MaxCall
Tick ==
    /\ \A p \in Process : MayWait(p)
    /\ outbox' = Squeezed(Aged(outbox))
    /\ sender' = [p \in Process |-> IF sender[p].pc = "idle" THEN NoTick
         ELSE [sender[p] EXCEPT !.elapsed = Least(@ + 1, Lease), !.spent = @ + 1]]
    /\ UNCHANGED <<writing, enabled, boundVars>>

SenderStep(p) == SkipPaused(p) \/ Deliver(p) \/ Answer(p) \/ Limited(p) \/ Record(p)
                 \/ OutOfTime(p) \/ Release(p)

Next ==
    \/ \E r \in Row : Enqueue(r)
    \/ Commit
    \/ \E p \in Process : Claim(p) \/ SenderStep(p) \/ Abandon(p)
    \/ \E t \in Discord : Save(t) \/ Disable(t)
    \/ Tick

Spec == Init /\ [][Next]_vars

\* Timers fire, calls return, time goes on.
FairSpec ==
    /\ Spec /\ WF_vars(Tick) /\ WF_vars(Commit)
    /\ \A p \in Process : WF_vars(Claim(p)) /\ WF_vars(SenderStep(p))
-----------------------------------------------------------------------------
OutboxRow == [status : {"none", "pending", "sent", "dead", "removed"}, attempts : Nat,
              wait : Int, age : Nat, posts : Nat, lost : Nat]
TickType == [pc : {"idle", "next", "sending", "answered", "releasing"},
             claims : Seq([row : Row, attempts : Nat \ {0}]), elapsed : Nat, spent : Nat,
             answer : Answered \cup {"none"}, after : Nat, paused : SUBSET Target, hostPaused : BOOLEAN]
TypeOK ==
    /\ outbox \in [Row -> OutboxRow] /\ writing \in Row \cup {0} /\ enabled \in [Target -> BOOLEAN]
    /\ sender \in [Process -> TickType]
    /\ \A p \in Process : sender[p].pc = "idle" <=> sender[p].claims = <<>>
    /\ faults \in Nat /\ saves \in Nat

\* "another process must never re-claim a row while this one may still send it"
\* (alertDeliveryWorker.ts, the time budget): no two deliver it at once.
OneSender ==
    \A p, q \in Process, r \in Row : Delivering(p, r) /\ Delivering(q, r) => p = q

\* "Delivery is at-least-once" (alertDeliveryWorker.ts), and more than once only when
\* an answer or the write after it was lost.
RepeatsOnlyLosses == \A r \in Row : outbox[r].posts <= outbox[r].lost + 1

\* Every queued row is sent, given up or removed (retryPolicy.ts: "A row is dead once it
\* is older than 24 hours") while some sender ticks, unless its target is switched off.
RowsSettle == \A r \in Row : Pending(r) ~> ~Pending(r) \/ ~enabled[TargetOf[r]]
=============================================================================
