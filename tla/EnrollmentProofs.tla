---------------------------- MODULE EnrollmentProofs ----------------------------
(***************************************************************************)
(* Theorems about Enrollment, for any number of transactions, codes and    *)
(* pairings: what the row locks and the order in which they are taken give.*)
(***************************************************************************)
EXTENDS Enrollment, FiniteSetTheorems, TLAPS

USE EnrollmentAssumption
USE DEF vars, rowVars, historyVars, Code, ServerLock, Nobody, Kinds

\* No pairing is a number or a place in a transaction.
LEMMA Distinct ==
    /\ \A p \in Pairing : p \notin Code \cup {0, "server", "idle", "peek", "rollback", "retry", "commit"}
    /\ 0 \notin Code /\ Nobody \notin Tx
  BY DEF Code

\* What each kind of transaction is about.
Kept ==
    \A t \in Tx :
        /\ tx[t].kind \in {"approve", "approveNew", "poll"} => tx[t].on \in Pairing
        /\ tx[t].kind = "enroll" => tx[t].on \in Code
        /\ tx[t].pc \in {"peek", "retry"} => tx[t].kind = "poll"
        /\ tx[t].pc = ServerLock => tx[t].kind \notin {"none", "approveNew"} /\ (tx[t].kind = "poll" => tx[t].peek)
        /\ tx[t].pc \in Pairing => tx[t].pc = tx[t].on /\ tx[t].kind \in {"approve", "approveNew", "poll"}

\* Whoever waits for the server's row holds nothing; whoever waits for a pairing holds no pairing.
\* Who has the server's row found the server there.
OnServer(t) ==
    \/ tx[t].kind \in {"code", "enroll", "approve", "revoke", "release", "remove"}
    \/ tx[t].kind = "poll" /\ tx[t].peek
Locking ==
    \A t \in Tx :
        /\ tx[t].pc \in {"idle", "peek", ServerLock} => \A r \in Resource : locked[r] # t
        /\ tx[t].pc \in Pairing => \A p \in Pairing : locked[p] # t
        /\ tx[t].pc \in Pairing \cup {"commit"} /\ OnServer(t) => locked[ServerLock] = t /\ Live

\* What a transaction found under the lock of its pairing is so until it commits.
Found ==
    \A t \in Tx :
        tx[t].pc = "commit" =>
            /\ tx[t].kind \in {"poll", "approve", "approveNew"} => locked[tx[t].on] = t
            /\ tx[t].kind = "poll" => tx[t].peek /\ pairing[tx[t].on] = "approved"
            /\ tx[t].kind \in {"approve", "approveNew"} => pairing[tx[t].on] = "open"

\* What has given a credential gives none again, and an open code is of this era.
Once ==
    /\ \A c \in Code : mints[c] = 0 \/ (mints[c] = 1 /\ codes[c] \in {"spent", "gone"})
    /\ \A p \in Pairing : mints[p] = 0 \/ (mints[p] = 1 /\ pairing[p] \in {"spent", "gone"})
    /\ \A c \in Code : codes[c] = "open" => madeIn[c] = era
OneOpen == \A c, d \in Code : codes[c] = "open" /\ codes[d] = "open" => c = d

\* After a retry the pairing has its server, and the peek tells.
Retried ==
    \A t \in Tx :
        /\ tx[t].kind = "poll" /\ tx[t].attempt >= 2 =>
               pairing[tx[t].on] # "open" /\ (tx[t].pc = "peek" \/ tx[t].peek)
        /\ tx[t].pc = "retry" => ~tx[t].peek /\ pairing[tx[t].on] # "open"

IInv ==
    /\ TypeOK /\ Kept /\ Locking /\ Found /\ Once /\ OneOpen /\ Retried
    /\ RemovedKeepsNothing /\ OldCodesAreDead /\ RetriesSuffice

LEMMA IdleTyped == Idle \in Transaction
  BY DEF Idle, Transaction

LEMMA StartsOnServerKeeps == ASSUME IInv, NEW t \in Tx, NEW kind \in Kinds, StartsOnServer(t, kind) PROVE IInv'
  <1>1. TypeOK' BY DEF IInv, StartsOnServer, Starts, Begin, TypeOK, Transaction, Resource
  <1>2. Kept' BY DEF IInv, StartsOnServer, Starts, Begin, Kept
  <1>3. Locking' BY DEF IInv, StartsOnServer, Starts, Begin, Idle, Locking, OnServer, Live
  <1>4. Found' BY DEF IInv, StartsOnServer, Starts, Begin, Found
  <1>5. Once' BY DEF IInv, StartsOnServer, Starts, Once
  <1>6. OneOpen' BY DEF IInv, StartsOnServer, Starts, OneOpen
  <1>7. Retried' BY DEF IInv, StartsOnServer, Starts, Begin, Retried
  <1>8. RemovedKeepsNothing' BY DEF IInv, StartsOnServer, Starts, RemovedKeepsNothing
  <1>9. OldCodesAreDead' BY DEF IInv, StartsOnServer, Starts, OldCodesAreDead
  <1>10. RetriesSuffice' BY DEF IInv, StartsOnServer, Starts, RetriesSuffice
  <1>. QED BY <1>1, <1>2, <1>3, <1>4, <1>5, <1>6, <1>7, <1>8, <1>9, <1>10 DEF IInv

LEMMA StartsEnrollKeeps == ASSUME IInv, NEW t \in Tx, NEW c \in Code, StartsEnroll(t, c) PROVE IInv'
  <1>1. TypeOK' BY DEF IInv, StartsEnroll, Starts, Begin, TypeOK, Transaction, Resource
  <1>2. Kept' BY DEF IInv, StartsEnroll, Starts, Begin, Kept
  <1>3. Locking' BY DEF IInv, StartsEnroll, Starts, Begin, Idle, Locking, OnServer, Live
  <1>4. Found' BY DEF IInv, StartsEnroll, Starts, Begin, Found
  <1>5. Once' BY DEF IInv, StartsEnroll, Starts, Once
  <1>6. OneOpen' BY DEF IInv, StartsEnroll, Starts, OneOpen
  <1>7. Retried' BY DEF IInv, StartsEnroll, Starts, Begin, Retried
  <1>8. RemovedKeepsNothing' BY DEF IInv, StartsEnroll, Starts, RemovedKeepsNothing
  <1>9. OldCodesAreDead' BY DEF IInv, StartsEnroll, Starts, OldCodesAreDead
  <1>10. RetriesSuffice' BY DEF IInv, StartsEnroll, Starts, RetriesSuffice
  <1>. QED BY <1>1, <1>2, <1>3, <1>4, <1>5, <1>6, <1>7, <1>8, <1>9, <1>10 DEF IInv

LEMMA StartsApproveKeeps == ASSUME IInv, NEW t \in Tx, NEW p \in Pairing, StartsApprove(t, p) PROVE IInv'
  <1>1. TypeOK' BY DEF IInv, StartsApprove, Starts, Begin, TypeOK, Transaction, Resource, Kept
  <1>2. Kept' BY DEF IInv, StartsApprove, Starts, Begin, Kept
  <1>3. Locking' BY DEF IInv, StartsApprove, Starts, Begin, Idle, Locking, OnServer, Live
  <1>4. Found' BY DEF IInv, StartsApprove, Starts, Begin, Found
  <1>5. Once' BY DEF IInv, StartsApprove, Starts, Once
  <1>6. OneOpen' BY DEF IInv, StartsApprove, Starts, OneOpen
  <1>7. Retried' BY DEF IInv, StartsApprove, Starts, Begin, Retried
  <1>8. RemovedKeepsNothing' BY DEF IInv, StartsApprove, Starts, RemovedKeepsNothing
  <1>9. OldCodesAreDead' BY DEF IInv, StartsApprove, Starts, OldCodesAreDead
  <1>10. RetriesSuffice' BY DEF IInv, StartsApprove, Starts, RetriesSuffice
  <1>. QED BY <1>1, <1>2, <1>3, <1>4, <1>5, <1>6, <1>7, <1>8, <1>9, <1>10 DEF IInv

LEMMA StartsApproveNewKeeps == ASSUME IInv, NEW t \in Tx, NEW p \in Pairing, StartsApproveNew(t, p) PROVE IInv'
  <1>1. TypeOK' BY DEF IInv, StartsApproveNew, Starts, Begin, TypeOK, Transaction, Resource
  <1>2. Kept' BY DEF IInv, StartsApproveNew, Starts, Begin, Kept
  <1>3. Locking' BY DEF IInv, StartsApproveNew, Starts, Begin, Idle, Resource, Locking, OnServer, Live
  <1>4. Found' BY DEF IInv, StartsApproveNew, Starts, Begin, Found
  <1>5. Once' BY DEF IInv, StartsApproveNew, Starts, Once
  <1>6. OneOpen' BY DEF IInv, StartsApproveNew, Starts, OneOpen
  <1>7. Retried' BY DEF IInv, StartsApproveNew, Starts, Begin, Retried
  <1>8. RemovedKeepsNothing' BY DEF IInv, StartsApproveNew, Starts, RemovedKeepsNothing
  <1>9. OldCodesAreDead' BY DEF IInv, StartsApproveNew, Starts, OldCodesAreDead
  <1>10. RetriesSuffice' BY DEF IInv, StartsApproveNew, Starts, RetriesSuffice
  <1>. QED BY <1>1, <1>2, <1>3, <1>4, <1>5, <1>6, <1>7, <1>8, <1>9, <1>10 DEF IInv

LEMMA StartsPollKeeps == ASSUME IInv, NEW t \in Tx, NEW p \in Pairing, StartsPoll(t, p) PROVE IInv'
  <1>1. TypeOK' BY DEF IInv, StartsPoll, Begin, TypeOK, Transaction
  <1>2. Kept' BY DEF IInv, StartsPoll, Begin, Kept
  <1>3. Locking' BY DEF IInv, StartsPoll, Begin, Idle, Locking, OnServer, Live
  <1>4. Found' BY DEF IInv, StartsPoll, Begin, Found
  <1>5. Once' BY DEF IInv, StartsPoll, Once
  <1>6. OneOpen' BY DEF IInv, StartsPoll, OneOpen
  <1>7. Retried' BY DEF IInv, StartsPoll, Begin, Retried
  <1>8. RemovedKeepsNothing' BY DEF IInv, StartsPoll, RemovedKeepsNothing
  <1>9. OldCodesAreDead' BY DEF IInv, StartsPoll, OldCodesAreDead
  <1>10. RetriesSuffice' BY DEF IInv, StartsPoll, RetriesSuffice
  <1>. QED BY <1>1, <1>2, <1>3, <1>4, <1>5, <1>6, <1>7, <1>8, <1>9, <1>10 DEF IInv

LEMMA PeekKeeps == ASSUME IInv, NEW t \in Tx, Peek(t) PROVE IInv'
  <1>a. tx[t] \in Transaction /\ tx[t].on \in Pairing /\ tx[t].kind = "poll" /\ tx[t].pc = "peek"
        /\ pairing[tx[t].on] \in {"open", "approved", "spent", "gone"}
    BY DEF IInv, TypeOK, Kept, Peek
  <1>b. /\ tx' \in [Tx -> Transaction] /\ \A u \in Tx \ {t} : tx'[u] = tx[u]
        /\ tx'[t] = Idle \/ (/\ tx'[t].kind = "poll" /\ tx'[t].on = tx[t].on /\ tx'[t].attempt = tx[t].attempt
                            /\ (tx'[t].peek <=> HasServer(tx[t].on)) /\ pairing[tx[t].on] # "gone"
                            /\ tx'[t].pc = IF HasServer(tx[t].on) THEN ServerLock ELSE tx[t].on)
    <2>1. tx \in [Tx -> Transaction] BY DEF IInv, TypeOK
    <2>2. CASE pairing[tx[t].on] = "gone"
      <3>1. tx' = [tx EXCEPT ![t] = Idle] BY <2>2 DEF Peek, Ended
      <3>. QED BY <2>1, <3>1, IdleTyped
    <2>3. CASE pairing[tx[t].on] # "gone"
      <3>1. tx' = [tx EXCEPT ![t].pc = IF HasServer(tx[t].on) THEN ServerLock ELSE tx[t].on,
                             ![t].peek = HasServer(tx[t].on)]
        BY <2>3 DEF Peek, Peeked
      <3>2. HasServer(tx[t].on) \in BOOLEAN BY DEF HasServer
      <3>. QED BY <1>a, <2>1, <2>3, <3>1, <3>2 DEF Transaction, Resource
    <2>. QED BY <2>2, <2>3
  <1>c. UNCHANGED <<rowVars, locked, historyVars, gaveUp, begun, slowed>> BY DEF Peek
  <1>1. TypeOK' BY <1>b, <1>c DEF IInv, TypeOK
  <1>2. Kept' BY Distinct, <1>a, <1>b, <1>c DEF IInv, Kept, Idle
  <1>3. Locking' BY Distinct, <1>a, <1>b, <1>c DEF IInv, Kept, Locking, OnServer, Live, Idle, Resource
  <1>4. Found' BY Distinct, <1>a, <1>b, <1>c DEF IInv, Found, Idle
  <1>5. Once' BY DEF IInv, Peek, Once
  <1>6. OneOpen' BY DEF IInv, Peek, OneOpen
  <1>7. Retried' BY Distinct, <1>a, <1>b, <1>c DEF IInv, Retried, HasServer, Idle
  <1>8. RemovedKeepsNothing' BY DEF IInv, Peek, RemovedKeepsNothing
  <1>9. OldCodesAreDead' BY DEF IInv, Peek, OldCodesAreDead
  <1>10. RetriesSuffice' BY DEF IInv, Peek, RetriesSuffice
  <1>. QED BY <1>1, <1>2, <1>3, <1>4, <1>5, <1>6, <1>7, <1>8, <1>9, <1>10 DEF IInv

LEMMA LocksServerKeeps == ASSUME IInv, NEW t \in Tx, LocksServer(t) PROVE IInv'
  <1>a. /\ tx \in [Tx -> Transaction] /\ tx[t] \in Transaction /\ tx[t].pc = ServerLock /\ locked[ServerLock] = Nobody
        /\ locked \in [Resource -> Tx \cup {Nobody}]
    BY DEF IInv, TypeOK, LocksServer
  <1>b. /\ tx[t].kind \in {"approve", "poll"} => tx[t].on \in Pairing /\ ~Holds(t, tx[t].on)
        /\ \A r \in Resource : locked[r] # t
        /\ tx[t].kind \notin {"none", "approveNew"} /\ (tx[t].kind = "poll" => tx[t].peek)
    BY <1>a DEF IInv, Kept, Locking, Resource, Holds
  <1>c. /\ locked' = [locked EXCEPT ![ServerLock] = t]
        /\ UNCHANGED <<rowVars, historyVars, gaveUp, begun, slowed>>
    BY DEF LocksServer
  <1>d. \/ tx' = [tx EXCEPT ![t].pc = "rollback"]
        \/ tx' = [tx EXCEPT ![t].pc = tx[t].on] /\ tx[t].kind \in {"approve", "poll"} /\ Live
        \/ tx' = [tx EXCEPT ![t].pc = "commit"] /\ tx[t].kind \notin {"approve", "poll"} /\ Live
    BY <1>b DEF LocksServer, LiveUnderLock, Goes
  <1>e. /\ tx' \in [Tx -> Transaction] /\ \A u \in Tx \ {t} : tx'[u] = tx[u]
        /\ tx'[t].kind = tx[t].kind /\ tx'[t].on = tx[t].on
        /\ tx'[t].peek = tx[t].peek /\ tx'[t].attempt = tx[t].attempt
        /\ \/ tx'[t].pc = "rollback"
           \/ tx'[t].pc = tx[t].on /\ tx[t].kind \in {"approve", "poll"} /\ Live
           \/ tx'[t].pc = "commit" /\ tx[t].kind \notin {"approve", "poll"} /\ Live
    <2>1. CASE tx' = [tx EXCEPT ![t].pc = "rollback"] BY <1>a, <2>1 DEF Transaction
    <2>2. CASE tx' = [tx EXCEPT ![t].pc = tx[t].on] /\ tx[t].kind \in {"approve", "poll"} /\ Live
      BY <1>a, <1>b, <2>2 DEF Transaction, Resource
    <2>3. CASE tx' = [tx EXCEPT ![t].pc = "commit"] /\ tx[t].kind \notin {"approve", "poll"} /\ Live
      BY <1>a, <2>3 DEF Transaction
    <2>. QED BY <1>d, <2>1, <2>2, <2>3
  <1>1. TypeOK' BY <1>a, <1>c, <1>e DEF IInv, TypeOK
  <1>2. Kept' BY Distinct, <1>a, <1>b, <1>e DEF IInv, Kept
  <1>3. Locking' BY Distinct, <1>a, <1>b, <1>c, <1>e DEF IInv, Locking, OnServer, Live, Resource
  <1>4. Found' BY Distinct, <1>a, <1>b, <1>c, <1>e DEF IInv, Kept, Found, Resource
  <1>5. Once' BY DEF IInv, LocksServer, Once
  <1>6. OneOpen' BY DEF IInv, LocksServer, OneOpen
  <1>7. Retried' BY Distinct, <1>a, <1>b, <1>c, <1>e DEF IInv, Retried
  <1>8. RemovedKeepsNothing' BY DEF IInv, LocksServer, RemovedKeepsNothing
  <1>9. OldCodesAreDead' BY DEF IInv, LocksServer, OldCodesAreDead
  <1>10. RetriesSuffice' BY DEF IInv, LocksServer, RetriesSuffice
  <1>. QED BY <1>1, <1>2, <1>3, <1>4, <1>5, <1>6, <1>7, <1>8, <1>9, <1>10 DEF IInv

LEMMA LocksPairingKeeps == ASSUME IInv, NEW t \in Tx, NEW p \in Pairing, LocksPairing(t, p) PROVE IInv'
  <1>a. /\ tx \in [Tx -> Transaction] /\ tx[t] \in Transaction /\ tx[t].pc = p /\ tx[t].on = p /\ locked[p] = Nobody
        /\ locked \in [Resource -> Tx \cup {Nobody}] /\ tx[t].kind \in {"approve", "approveNew", "poll"}
    BY DEF IInv, TypeOK, Kept, LocksPairing
  <1>b. /\ locked' = [locked EXCEPT ![p] = t]
        /\ UNCHANGED <<rowVars, historyVars, gaveUp, begun, slowed>>
    BY DEF LocksPairing
  <1>1. TypeOK' 
    <2>1. tx' = Goes(t, tx'[t].pc) /\ tx'[t].pc \in {"rollback", "retry", "commit", ServerLock}
      BY <1>a DEF LocksPairing, Goes, PollFinds, ApproveFinds
    <2>2. tx' \in [Tx -> Transaction] BY <1>a, <2>1 DEF Goes, Transaction, Resource
    <2>. QED BY <1>a, <1>b, <2>2 DEF IInv, TypeOK
  <1>2. Kept' BY DEF IInv, LocksPairing, Goes, Holds, PollFinds, ApproveFinds, TypeOK, Resource, Kept
  <1>3. Locking'
    BY DEF IInv, LocksPairing, Goes, Holds, PollFinds, ApproveFinds, TypeOK, Resource, Locking, OnServer, Live
  <1>4. Found' BY DEF IInv, LocksPairing, Goes, PollFinds, ApproveFinds, TypeOK, Resource, Kept, Found
  <1>5. Once' BY DEF IInv, LocksPairing, Once
  <1>6. OneOpen' BY DEF IInv, LocksPairing, OneOpen
  <1>7. Retried' BY DEF IInv, LocksPairing, Goes, PollFinds, ApproveFinds, Retried
  <1>8. RemovedKeepsNothing' BY DEF IInv, LocksPairing, RemovedKeepsNothing
  <1>9. OldCodesAreDead' BY DEF IInv, LocksPairing, OldCodesAreDead
  <1>10. RetriesSuffice' BY DEF IInv, LocksPairing, RetriesSuffice
  <1>. QED BY <1>1, <1>2, <1>3, <1>4, <1>5, <1>6, <1>7, <1>8, <1>9, <1>10 DEF IInv

LEMMA RollsBackKeeps == ASSUME IInv, NEW t \in Tx, RollsBack(t) PROVE IInv'
  <1>1. TypeOK' BY DEF IInv, RollsBack, Ended, Without, TypeOK, Transaction, Idle
  <1>2. Kept' BY DEF IInv, RollsBack, Ended, Idle, Kept
  <1>3. Locking' BY DEF IInv, RollsBack, Ended, Without, Idle, Resource, Locking, OnServer, Live
  <1>4. Found' BY DEF IInv, RollsBack, Ended, Without, Idle, Resource, Kept, Found
  <1>5. Once' BY DEF IInv, RollsBack, Once
  <1>6. OneOpen' BY DEF IInv, RollsBack, OneOpen
  <1>7. Retried' BY DEF IInv, RollsBack, Ended, Idle, Retried
  <1>8. RemovedKeepsNothing' BY DEF IInv, RollsBack, RemovedKeepsNothing
  <1>9. OldCodesAreDead' BY DEF IInv, RollsBack, OldCodesAreDead
  <1>10. RetriesSuffice' BY DEF IInv, RollsBack, RetriesSuffice
  <1>. QED BY <1>1, <1>2, <1>3, <1>4, <1>5, <1>6, <1>7, <1>8, <1>9, <1>10 DEF IInv

LEMMA SlowsDownKeeps == ASSUME IInv, NEW t \in Tx, SlowsDown(t) PROVE IInv'
  <1>1. TypeOK' BY DEF IInv, SlowsDown, Ended, Without, TypeOK, Transaction, Idle
  <1>2. Kept' BY DEF IInv, SlowsDown, Ended, Idle, Kept
  <1>3. Locking' BY DEF IInv, SlowsDown, Ended, Without, TypeOK, Idle, Resource, Locking, OnServer, Live
  <1>4. Found' BY DEF IInv, SlowsDown, Ended, Without, TypeOK, Idle, Resource, Kept, Found
  <1>5. Once' BY DEF IInv, SlowsDown, Once
  <1>6. OneOpen' BY DEF IInv, SlowsDown, OneOpen
  <1>7. Retried' BY DEF IInv, SlowsDown, Ended, Idle, Retried
  <1>8. RemovedKeepsNothing' BY DEF IInv, SlowsDown, RemovedKeepsNothing
  <1>9. OldCodesAreDead' BY DEF IInv, SlowsDown, OldCodesAreDead
  <1>10. RetriesSuffice' BY DEF IInv, SlowsDown, RetriesSuffice
  <1>. QED BY <1>1, <1>2, <1>3, <1>4, <1>5, <1>6, <1>7, <1>8, <1>9, <1>10 DEF IInv

LEMMA RetriesKeeps == ASSUME IInv, NEW t \in Tx, Retries(t) PROVE IInv'
  <1>a. /\ tx \in [Tx -> Transaction] /\ tx[t] \in Transaction /\ tx[t].pc = "retry" /\ tx[t].attempt \in Nat
        /\ tx[t].kind = "poll" /\ tx[t].on \in Pairing /\ ~tx[t].peek /\ pairing[tx[t].on] # "open"
    BY DEF IInv, TypeOK, Kept, Retried, Retries, Transaction
  <1>b. tx[t].attempt < 2 BY <1>a DEF IInv, Retried
  <1>c. /\ locked' = Without(t) /\ gaveUp' = gaveUp
        /\ tx' = [tx EXCEPT ![t].pc = "peek", ![t].attempt = @ + 1]
        /\ UNCHANGED <<rowVars, historyVars, begun, slowed>>
    BY <1>a, <1>b DEF Retries, Attempts
  <1>d. /\ tx' \in [Tx -> Transaction] /\ \A u \in Tx \ {t} : tx'[u] = tx[u]
        /\ tx'[t].kind = "poll" /\ tx'[t].on = tx[t].on /\ tx'[t].pc = "peek"
    BY <1>a, <1>c DEF Transaction
  <1>e. /\ locked' \in [Resource -> Tx \cup {Nobody}]
        /\ \A r \in Resource : locked'[r] = IF locked[r] = t THEN Nobody ELSE locked[r]
    BY <1>c DEF Without, IInv, TypeOK
  <1>1. TypeOK' BY <1>c, <1>d, <1>e DEF IInv, TypeOK
  <1>2. Kept' BY Distinct, <1>a, <1>d DEF IInv, Kept
  <1>3. Locking' BY Distinct, <1>a, <1>c, <1>d, <1>e DEF IInv, Kept, Locking, OnServer, Live, Resource
  <1>4. Found' BY Distinct, <1>a, <1>c, <1>d, <1>e DEF IInv, Kept, Found, Resource
  <1>5. Once' BY DEF IInv, Retries, Once
  <1>6. OneOpen' BY DEF IInv, Retries, OneOpen
  <1>7. Retried' BY Distinct, <1>a, <1>c, <1>d DEF IInv, Retried
  <1>8. RemovedKeepsNothing' BY DEF IInv, Retries, RemovedKeepsNothing
  <1>9. OldCodesAreDead' BY DEF IInv, Retries, OldCodesAreDead
  <1>10. RetriesSuffice' BY DEF IInv, Retries, Attempts, Without, TypeOK, Transaction, Kept, Retried, RetriesSuffice
  <1>. QED BY <1>1, <1>2, <1>3, <1>4, <1>5, <1>6, <1>7, <1>8, <1>9, <1>10 DEF IInv

LEMMA CommitsCodeKeeps == ASSUME IInv, NEW t \in Tx, NEW c \in Code, CommitsCode(t, c) PROVE IInv'
  <1>1. TypeOK' BY DEF IInv, CommitsCode, Commits, Ended, Without, CodesDropped, TypeOK, Transaction, Idle
  <1>2. Kept' BY DEF IInv, CommitsCode, Commits, Ended, Idle, Kept
  <1>3. Locking' BY DEF IInv, CommitsCode, Commits, Ended, Without, TypeOK, Idle, Resource, Locking, OnServer
  <1>4. Found' BY DEF IInv, CommitsCode, Commits, Ended, Without, Idle, Resource, Kept, Found
  <1>5. Once' BY DEF IInv, CommitsCode, CodesDropped, Unmade, TypeOK, Once
  <1>6. OneOpen' BY DEF IInv, CommitsCode, CodesDropped, OneOpen
  <1>7. Retried' BY DEF IInv, CommitsCode, Commits, Ended, Idle, Retried
  <1>8. RemovedKeepsNothing' BY DEF IInv, CommitsCode, Commits, Locking, OnServer, Live, RemovedKeepsNothing
  <1>9. OldCodesAreDead' BY DEF IInv, CommitsCode, OldCodesAreDead
  <1>10. RetriesSuffice' BY DEF IInv, CommitsCode, Commits, RetriesSuffice
  <1>. QED BY <1>1, <1>2, <1>3, <1>4, <1>5, <1>6, <1>7, <1>8, <1>9, <1>10 DEF IInv

LEMMA CommitsEnrollKeeps == ASSUME IInv, NEW t \in Tx, CommitsEnroll(t) PROVE IInv'
  <1>a. /\ tx' = [tx EXCEPT ![t] = Idle] /\ tx' \in [Tx -> Transaction]
        /\ locked' = Without(t) /\ locked' \in [Resource -> Tx \cup {Nobody}]
    <2>1. tx' = [tx EXCEPT ![t] = Idle] /\ locked' = Without(t) BY DEF CommitsEnroll, Commits, Ended
    <2>. QED BY <2>1, IdleTyped DEF IInv, TypeOK, Without
  <1>b. /\ tx[t] \in Transaction /\ tx[t].pc = "commit" /\ UNCHANGED <<gaveUp, begun, slowed>>
        /\ \A r \in Resource : locked'[r] = IF locked[r] = t THEN Nobody ELSE locked[r]
    BY <1>a DEF IInv, TypeOK, Without, CommitsEnroll, Commits
  <1>c. tx[t].on \in Code /\ locked[ServerLock] = t /\ Live
    BY DEF IInv, Kept, Locking, OnServer, CommitsEnroll, Commits
  <1>d. /\ server' \in {"local", "agent", "own"} /\ UNCHANGED <<pairing, era, madeIn>>
        /\ \/ UNCHANGED <<credential, codes, mints, stale>>
           \/ /\ credential' = "active" /\ codes[tx[t].on] = "open" /\ codes' = [codes EXCEPT ![tx[t].on] = "spent"]
              /\ mints' = [mints EXCEPT ![tx[t].on] = @ + 1] /\ stale' = stale
    <2>1. codes[tx[t].on] = "open" => ~(madeIn[tx[t].on] < era) BY <1>c DEF IInv, TypeOK, Once
    <2>2. CASE codes[tx[t].on] = "open" BY <1>c, <2>1, <2>2 DEF CommitsEnroll, Consumes, Installs
    <2>3. CASE codes[tx[t].on] # "open" BY <1>c, <2>3 DEF CommitsEnroll, Consumes, Live
    <2>. QED BY <2>2, <2>3
  <1>e. /\ codes' \in [Code -> {"none", "open", "spent", "gone"}] /\ mints' \in [Code \cup Pairing -> Nat]
        /\ \A q \in Pairing : mints'[q] = mints[q]
        /\ \A c \in Code \ {tx[t].on} : mints'[c] = mints[c] /\ codes'[c] = codes[c]
        /\ \/ mints'[tx[t].on] = mints[tx[t].on] /\ codes'[tx[t].on] = codes[tx[t].on]
           \/ /\ mints'[tx[t].on] = mints[tx[t].on] + 1 /\ codes'[tx[t].on] = "spent"
              /\ codes[tx[t].on] = "open"
    <2>1. mints \in [Code \cup Pairing -> Nat] /\ codes \in [Code -> {"none", "open", "spent", "gone"}]
      BY DEF IInv, TypeOK
    <2>2. CASE UNCHANGED <<codes, mints>> BY <1>c, <2>1, <2>2
    <2>3. CASE /\ codes' = [codes EXCEPT ![tx[t].on] = "spent"] /\ codes[tx[t].on] = "open"
               /\ mints' = [mints EXCEPT ![tx[t].on] = @ + 1]
      BY Distinct, <1>c, <2>1, <2>3
    <2>. QED BY <1>d, <2>2, <2>3
  <1>f. stale' = stale /\ credential' \in {"none", "active", "revoked"} /\ UNCHANGED <<pairing, era, madeIn>>
    BY <1>d DEF IInv, TypeOK
  <1>1. TypeOK' BY <1>a, <1>b, <1>d, <1>e, <1>f DEF IInv, TypeOK
  <1>2. Kept' BY DEF IInv, CommitsEnroll, Commits, Ended, Idle, Kept
  <1>3. Locking' BY DEF IInv, CommitsEnroll, Commits, Ended, Without, TypeOK, Idle, Resource, Locking, OnServer
  <1>4. Found' BY DEF IInv, CommitsEnroll, Commits, Ended, Without, Idle, Resource, Kept, Found
  <1>5. Once' BY <1>c, <1>e, <1>f DEF IInv, Once
  <1>6. OneOpen' BY DEF IInv, CommitsEnroll, TypeOK, OneOpen
  <1>7. Retried' BY DEF IInv, CommitsEnroll, Commits, Ended, Idle, Retried
  <1>8. RemovedKeepsNothing' BY <1>d DEF RemovedKeepsNothing
  <1>9. OldCodesAreDead' BY <1>f DEF IInv, OldCodesAreDead
  <1>10. RetriesSuffice' BY DEF IInv, CommitsEnroll, Commits, RetriesSuffice
  <1>. QED BY <1>1, <1>2, <1>3, <1>4, <1>5, <1>6, <1>7, <1>8, <1>9, <1>10 DEF IInv

LEMMA CommitsApproveKeeps == ASSUME IInv, NEW t \in Tx, CommitsApprove(t) PROVE IInv'
  <1>a. /\ tx' = [tx EXCEPT ![t] = Idle] /\ tx' \in [Tx -> Transaction]
        /\ locked' = Without(t) /\ locked' \in [Resource -> Tx \cup {Nobody}]
    <2>1. tx' = [tx EXCEPT ![t] = Idle] /\ locked' = Without(t) BY DEF CommitsApprove, Commits, Ended
    <2>. QED BY <2>1, IdleTyped DEF IInv, TypeOK, Without
  <1>b. /\ tx[t] \in Transaction /\ tx[t].pc = "commit" /\ UNCHANGED <<gaveUp, begun, slowed>>
        /\ \A r \in Resource : locked'[r] = IF locked[r] = t THEN Nobody ELSE locked[r]
    BY <1>a DEF IInv, TypeOK, Without, CommitsApprove, Commits
  <1>c. tx[t].on \in Pairing /\ locked[tx[t].on] = t /\ pairing[tx[t].on] = "open"
    BY <1>b DEF IInv, Kept, Found, CommitsApprove, Commits
  <1>d. /\ pairing' = [pairing EXCEPT ![tx[t].on] = "approved"]
        /\ madeIn' = [madeIn EXCEPT ![tx[t].on] = era]
        /\ UNCHANGED <<credential, codes, era, mints, stale>>
    BY DEF CommitsApprove
  <1>f. (server' = server /\ Live /\ locked[ServerLock] = t) \/ (server = "unborn" /\ server' = "own")
    <2>1. CASE tx[t].kind = "approve"
      <3>1. server' = server BY <2>1 DEF CommitsApprove, Commits
      <3>2. OnServer(t) BY <2>1 DEF OnServer
      <3>3. Live /\ locked[ServerLock] = t BY <1>b, <3>2 DEF IInv, Locking
      <3>. QED BY <3>1, <3>3
    <2>2. CASE tx[t].kind = "approveNew" BY <2>2 DEF CommitsApprove, Commits
    <2>. QED BY <2>1, <2>2 DEF CommitsApprove, Commits
  <1>e. Live => Live' BY <1>f DEF Live
  <1>1. TypeOK' BY <1>a, <1>b, <1>c, <1>d, <1>f DEF IInv, TypeOK
  <1>2. Kept' BY Distinct, <1>a DEF IInv, TypeOK, Kept, Idle
  <1>3. Locking' 
    <2>1. \A u \in Tx \ {t} : tx'[u] = tx[u] /\ \A r \in Resource : locked'[r] = u <=> locked[r] = u
      BY Distinct, <1>a, <1>b DEF IInv, TypeOK
    <2>2. tx'[t] = Idle /\ \A r \in Resource : locked'[r] # t BY Distinct, <1>a, <1>b DEF IInv, TypeOK
    <2>3. \A u \in Tx \ {t} : OnServer(u)' <=> OnServer(u) BY <2>1 DEF OnServer
    <2>. QED BY Distinct, <1>e, <2>1, <2>2, <2>3 DEF IInv, Locking, Idle, Resource
  <1>4. Found' BY Distinct, <1>a, <1>b, <1>c, <1>d, <1>f DEF IInv, TypeOK, Kept, Found, Idle, Resource
  <1>5. Once' BY DEF IInv, CommitsApprove, Commits, Found, Once
  <1>6. OneOpen' BY DEF IInv, CommitsApprove, OneOpen
  <1>7. Retried' BY Distinct, <1>a, <1>c, <1>d, <1>f DEF IInv, TypeOK, Kept, Retried, Idle
  <1>8. RemovedKeepsNothing' BY DEF IInv, CommitsApprove, Commits, Locking, OnServer, Live, RemovedKeepsNothing
  <1>9. OldCodesAreDead' BY DEF IInv, CommitsApprove, OldCodesAreDead
  <1>10. RetriesSuffice' BY DEF IInv, CommitsApprove, Commits, RetriesSuffice
  <1>. QED BY <1>1, <1>2, <1>3, <1>4, <1>5, <1>6, <1>7, <1>8, <1>9, <1>10 DEF IInv

LEMMA CommitsPollKeeps == ASSUME IInv, NEW t \in Tx, CommitsPoll(t) PROVE IInv'
  <1>a. /\ tx' = [tx EXCEPT ![t] = Idle] /\ tx' \in [Tx -> Transaction]
        /\ locked' = Without(t) /\ locked' \in [Resource -> Tx \cup {Nobody}]
    <2>1. tx' = [tx EXCEPT ![t] = Idle] /\ locked' = Without(t) BY DEF CommitsPoll, Commits, Ended
    <2>. QED BY <2>1, IdleTyped DEF IInv, TypeOK, Without
  <1>b. /\ tx[t] \in Transaction /\ tx[t].pc = "commit" /\ UNCHANGED <<gaveUp, begun, slowed>>
        /\ \A r \in Resource : locked'[r] = IF locked[r] = t THEN Nobody ELSE locked[r]
    BY <1>a DEF IInv, TypeOK, Without, CommitsPoll, Commits
  <1>c. tx[t].on \in Pairing BY DEF IInv, Kept, CommitsPoll, Commits
  <1>d. /\ server' \in {"agent", "own"} /\ UNCHANGED <<codes, era, madeIn>> /\ credential' = "active"
        /\ pairing' = [pairing EXCEPT ![tx[t].on] = "spent"]
        /\ mints' = [mints EXCEPT ![tx[t].on] = @ + 1] /\ stale' \in {stale, stale \cup {tx[t].on}}
    BY DEF CommitsPoll, Installs
  <1>1. TypeOK' BY <1>a, <1>b, <1>c, <1>d DEF IInv, TypeOK
  <1>2. Kept' BY DEF IInv, CommitsPoll, Commits, Ended, Idle, Kept
  <1>3. Locking'
    BY DEF IInv, CommitsPoll, Commits, Ended, Without, Installs, TypeOK, Idle, Resource, Locking, OnServer, Live
  <1>4. Found' BY DEF IInv, CommitsPoll, Commits, Ended, Without, TypeOK, Idle, Resource, Kept, Found
  <1>5. Once' BY DEF IInv, CommitsPoll, Commits, Installs, TypeOK, Transaction, Resource, Kept, Found, Once
  <1>6. OneOpen' BY DEF IInv, CommitsPoll, OneOpen
  <1>7. Retried' BY DEF IInv, CommitsPoll, Commits, Ended, Idle, Retried
  <1>8. RemovedKeepsNothing' BY DEF IInv, CommitsPoll, Installs, RemovedKeepsNothing
  <1>9. OldCodesAreDead' BY DEF IInv, CommitsPoll, Commits, Ended, Without, Installs, Kept, OldCodesAreDead
  <1>10. RetriesSuffice' BY DEF IInv, CommitsPoll, Commits, RetriesSuffice
  <1>. QED BY <1>1, <1>2, <1>3, <1>4, <1>5, <1>6, <1>7, <1>8, <1>9, <1>10 DEF IInv

LEMMA CommitsRevokeKeeps == ASSUME IInv, NEW t \in Tx, CommitsRevoke(t) PROVE IInv'
  <1>1. TypeOK'
    BY DEF IInv, CommitsRevoke, Commits, Ended, Without, LetGo, CodesLetGo, CodesDropped, Revoked, TypeOK,
       Transaction, Idle
  <1>2. Kept' BY DEF IInv, CommitsRevoke, Commits, Ended, Idle, Kept
  <1>3. Locking' BY DEF IInv, CommitsRevoke, Commits, Ended, Without, TypeOK, Idle, Resource, Locking, OnServer
  <1>4. Found' BY DEF IInv, CommitsRevoke, Commits, Ended, Without, Idle, Resource, Kept, Found
  <1>5. Once' BY DEF IInv, CommitsRevoke, LetGo, CodesLetGo, CodesDropped, Once
  <1>6. OneOpen' BY DEF IInv, CommitsRevoke, CodesLetGo, CodesDropped, OneOpen
  <1>7. Retried' BY DEF IInv, CommitsRevoke, Commits, Ended, Idle, Retried
  <1>8. RemovedKeepsNothing' BY DEF IInv, CommitsRevoke, CodesLetGo, CodesDropped, Revoked, RemovedKeepsNothing
  <1>9. OldCodesAreDead' BY DEF IInv, CommitsRevoke, LetGo, OldCodesAreDead
  <1>10. RetriesSuffice' BY DEF IInv, CommitsRevoke, Commits, RetriesSuffice
  <1>. QED BY <1>1, <1>2, <1>3, <1>4, <1>5, <1>6, <1>7, <1>8, <1>9, <1>10 DEF IInv

LEMMA CommitsReleaseKeeps == ASSUME IInv, NEW t \in Tx, CommitsRelease(t) PROVE IInv'
  <1>1. TypeOK'
    BY DEF IInv, CommitsRelease, Commits, Ended, Without, LetGo, CodesLetGo, CodesDropped, Revoked, TypeOK,
       Transaction, Idle
  <1>2. Kept' BY DEF IInv, CommitsRelease, Commits, Ended, Idle, Kept
  <1>3. Locking'
    BY DEF IInv, CommitsRelease, Commits, Ended, Without, Revoked, TypeOK, Idle, Resource, Locking, OnServer
  <1>4. Found' BY DEF IInv, CommitsRelease, Commits, Ended, Without, Idle, Resource, Kept, Found
  <1>5. Once' BY DEF IInv, CommitsRelease, LetGo, CodesLetGo, CodesDropped, Once
  <1>6. OneOpen' BY DEF IInv, CommitsRelease, CodesLetGo, CodesDropped, OneOpen
  <1>7. Retried' BY DEF IInv, CommitsRelease, Commits, Ended, Idle, Retried
  <1>8. RemovedKeepsNothing' BY DEF IInv, CommitsRelease, RemovedKeepsNothing
  <1>9. OldCodesAreDead' BY DEF IInv, CommitsRelease, LetGo, OldCodesAreDead
  <1>10. RetriesSuffice' BY DEF IInv, CommitsRelease, Commits, RetriesSuffice
  <1>. QED BY <1>1, <1>2, <1>3, <1>4, <1>5, <1>6, <1>7, <1>8, <1>9, <1>10 DEF IInv

LEMMA CommitsRemoveKeeps == ASSUME IInv, NEW t \in Tx, CommitsRemove(t) PROVE IInv'
  <1>1. TypeOK' BY DEF IInv, CommitsRemove, Commits, Ended, Without, LetGo, TypeOK, Transaction, Idle
  <1>2. Kept' BY DEF IInv, CommitsRemove, Commits, Ended, Idle, Kept
  <1>3. Locking' BY DEF IInv, CommitsRemove, Commits, Ended, Without, TypeOK, Idle, Resource, Locking, OnServer
  <1>4. Found'
    BY DEF IInv, CommitsRemove, Commits, Ended, Without, TypeOK, Transaction, Idle, Resource, Kept, Locking,
       OnServer, Found
  <1>5. Once' BY DEF IInv, CommitsRemove, LetGo, Once
  <1>6. OneOpen' BY DEF IInv, CommitsRemove, OneOpen
  <1>7. Retried' BY DEF IInv, CommitsRemove, Commits, Ended, Idle, Kept, Retried
  <1>8. RemovedKeepsNothing' BY DEF IInv, CommitsRemove, RemovedKeepsNothing
  <1>9. OldCodesAreDead' BY DEF IInv, CommitsRemove, LetGo, OldCodesAreDead
  <1>10. RetriesSuffice' BY DEF IInv, CommitsRemove, Commits, RetriesSuffice
  <1>. QED BY <1>1, <1>2, <1>3, <1>4, <1>5, <1>6, <1>7, <1>8, <1>9, <1>10 DEF IInv

LEMMA CodeExpiresKeeps == ASSUME IInv, NEW c \in Code, CodeExpires(c) PROVE IInv'
  <1>1. TypeOK' BY DEF IInv, CodeExpires, TypeOK
  <1>2. Kept' BY DEF IInv, CodeExpires, Kept
  <1>3. Locking' BY DEF IInv, CodeExpires, Locking, OnServer, Live
  <1>4. Found' BY DEF IInv, CodeExpires, Found
  <1>5. Once' BY DEF IInv, CodeExpires, Once
  <1>6. OneOpen' BY DEF IInv, CodeExpires, OneOpen
  <1>7. Retried' BY DEF IInv, CodeExpires, Retried
  <1>8. RemovedKeepsNothing' BY DEF IInv, CodeExpires, RemovedKeepsNothing
  <1>9. OldCodesAreDead' BY DEF IInv, CodeExpires, OldCodesAreDead
  <1>10. RetriesSuffice' BY DEF IInv, CodeExpires, RetriesSuffice
  <1>. QED BY <1>1, <1>2, <1>3, <1>4, <1>5, <1>6, <1>7, <1>8, <1>9, <1>10 DEF IInv

LEMMA PairingExpiresKeeps == ASSUME IInv, NEW p \in Pairing, PairingExpires(p) PROVE IInv'
  <1>1. TypeOK' BY DEF IInv, PairingExpires, TypeOK
  <1>2. Kept' BY DEF IInv, PairingExpires, Kept
  <1>3. Locking' BY DEF IInv, PairingExpires, Locking, OnServer, Live
  <1>4. Found' BY DEF IInv, PairingExpires, Found
  <1>5. Once' BY DEF IInv, PairingExpires, Once
  <1>6. OneOpen' BY DEF IInv, PairingExpires, OneOpen
  <1>7. Retried' BY DEF IInv, PairingExpires, Retried
  <1>8. RemovedKeepsNothing' BY DEF IInv, PairingExpires, RemovedKeepsNothing
  <1>9. OldCodesAreDead' BY DEF IInv, PairingExpires, OldCodesAreDead
  <1>10. RetriesSuffice' BY DEF IInv, PairingExpires, RetriesSuffice
  <1>. QED BY <1>1, <1>2, <1>3, <1>4, <1>5, <1>6, <1>7, <1>8, <1>9, <1>10 DEF IInv

LEMMA Initially == Init => IInv
  <1>. SUFFICES ASSUME Init PROVE IInv
    OBVIOUS
  <1>1. TypeOK BY IdleTyped DEF Init, TypeOK
  <1>2. Kept /\ Locking /\ Found /\ Retried BY Distinct DEF Init, Kept, Locking, Found, Retried, Idle
  <1>3. Once /\ OneOpen BY DEF Init, Once, OneOpen
  <1>4. RemovedKeepsNothing /\ OldCodesAreDead /\ RetriesSuffice
    BY DEF Init, RemovedKeepsNothing, OldCodesAreDead, RetriesSuffice
  <1>. QED BY <1>1, <1>2, <1>3, <1>4 DEF IInv

LEMMA TxKeeps == ASSUME IInv, NEW t \in Tx, TxStep(t) PROVE IInv'
  <1>1. CASE Peek(t) \/ LocksServer(t) \/ RollsBack(t) \/ Retries(t)
    BY <1>1, PeekKeeps, LocksServerKeeps, RollsBackKeeps, RetriesKeeps
  <1>2. CASE CommitsEnroll(t) \/ CommitsApprove(t) \/ CommitsPoll(t)
    BY <1>2, CommitsEnrollKeeps, CommitsApproveKeeps, CommitsPollKeeps
  <1>3. CASE CommitsRevoke(t) \/ CommitsRelease(t) \/ CommitsRemove(t)
    BY <1>3, CommitsRevokeKeeps, CommitsReleaseKeeps, CommitsRemoveKeeps
  <1>4. ASSUME NEW p \in Pairing, LocksPairing(t, p) PROVE IInv' BY <1>4, LocksPairingKeeps
  <1>5. ASSUME NEW c \in Code, CommitsCode(t, c) PROVE IInv' BY <1>5, CommitsCodeKeeps
  <1>. QED BY <1>1, <1>2, <1>3, <1>4, <1>5 DEF TxStep

LEMMA Inductive == IInv /\ [Next]_vars => IInv'
  <1>. SUFFICES ASSUME IInv, [Next]_vars PROVE IInv'
    OBVIOUS
  <1>1. ASSUME NEW t \in Tx, TxStep(t) PROVE IInv' BY <1>1, TxKeeps
  <1>2. ASSUME NEW t \in Tx, SlowsDown(t) PROVE IInv' BY <1>2, SlowsDownKeeps
  <1>3. ASSUME NEW t \in Tx, NEW kind \in Kinds, StartsOnServer(t, kind) PROVE IInv' BY <1>3, StartsOnServerKeeps
  <1>4. ASSUME NEW t \in Tx, NEW c \in Code, StartsEnroll(t, c) PROVE IInv' BY <1>4, StartsEnrollKeeps
  <1>5. ASSUME NEW t \in Tx, NEW p \in Pairing, StartsApprove(t, p) \/ StartsApproveNew(t, p) \/ StartsPoll(t, p)
        PROVE IInv'
    BY <1>5, StartsApproveKeeps, StartsApproveNewKeeps, StartsPollKeeps
  <1>6. ASSUME NEW c \in Code, CodeExpires(c) PROVE IInv' BY <1>6, CodeExpiresKeeps
  <1>7. ASSUME NEW p \in Pairing, PairingExpires(p) PROVE IInv' BY <1>7, PairingExpiresKeeps
  <1>8. CASE UNCHANGED vars
    <2>1. TypeOK' BY <1>8 DEF IInv, TypeOK
    <2>2. Kept' /\ Found' /\ Once' /\ OneOpen' /\ Retried' BY <1>8 DEF IInv, Kept, Found, Once, OneOpen, Retried
    <2>3. Locking' BY <1>8 DEF IInv, Locking, OnServer, Live
    <2>4. RemovedKeepsNothing' /\ OldCodesAreDead' /\ RetriesSuffice'
      BY <1>8 DEF IInv, RemovedKeepsNothing, OldCodesAreDead, RetriesSuffice
    <2>. QED BY <2>1, <2>2, <2>3, <2>4 DEF IInv
  <1>. QED BY <1>1, <1>2, <1>3, <1>4, <1>5, <1>6, <1>7, <1>8 DEF Next

LEMMA Invariant == Spec => []IInv
  BY Initially, Inductive, PTL DEF Spec

\* Type correctness, over every transaction and expiry.
THEOREM TypeCorrect == Spec => []TypeOK
  <1>1. IInv => TypeOK BY DEF IInv
  <1>. QED BY Invariant, <1>1, PTL

\* However many transactions present it, a code or a pairing gives one credential (agentRepository.ts).
THEOREM GivesOnce == Spec => []SingleUse
  <1>1. IInv => SingleUse BY DEF IInv, Once, SingleUse
  <1>. QED BY Invariant, <1>1, PTL

\* A server has at most one live code, whoever makes one at the same time (enrollmentService.ts).
THEOREM OneCode == Spec => []OneLiveCode
  <1>1. ASSUME IInv PROVE OneLiveCode
    <2>. DEFINE Open == {c \in Code : codes[c] = "open"}
    <2>1. Open = {} \/ \E c \in Code : Open = {c} BY <1>1 DEF IInv, OneOpen
    <2>2. Cardinality({}) = 0 /\ \A c \in Code : Cardinality({c}) = 1 BY FS_EmptySet, FS_Singleton
    <2>. QED BY <2>1, <2>2 DEF OneLiveCode
  <1>. QED BY Invariant, <1>1, PTL

\* A removed server keeps no credential, open code or approved pairing (serverRepository.ts).
THEOREM RemovedIsEmpty == Spec => []RemovedKeepsNothing
  <1>1. IInv => RemovedKeepsNothing BY DEF IInv
  <1>. QED BY Invariant, <1>1, PTL

\* The order of the locks, the server's row before the pairing's, leaves no two transactions waiting for each other.
THEOREM LocksAreOrdered == Spec => []NoDeadlock
  <1>1. ASSUME IInv PROVE NoDeadlock
    <2>1. SUFFICES ASSUME NEW t \in Tx, NEW u \in Tx, NEW r \in Resource, NEW s \in Resource,
                          tx[t].pc = r, locked[r] = u, tx[u].pc = s, locked[s] = t
                   PROVE FALSE
      BY DEF NoDeadlock, Waits
    <2>2. r # ServerLock /\ s # ServerLock BY <1>1, <2>1 DEF IInv, Locking
    <2>3. r \in Pairing /\ s \in Pairing BY <2>2 DEF Resource
    <2>. QED BY <1>1, <2>1, <2>3 DEF IInv, Locking
  <1>. QED BY Invariant, <1>1, PTL

\* An approval happens once, so a poll's three attempts never run out (pairingService.ts).
THEOREM RetriesEnd == Spec => []RetriesSuffice
  <1>1. IInv => RetriesSuffice BY DEF IInv
  <1>. QED BY Invariant, <1>1, PTL

\* A code made before the agent was let go never brings it back (enrollmentService.ts, releaseAgent.ts).
THEOREM CodesDie == Spec => []OldCodesAreDead
  <1>1. IInv => OldCodesAreDead BY DEF IInv
  <1>. QED BY Invariant, <1>1, PTL
=============================================================================
