------------------------------ MODULE Enrollment ------------------------------
(***************************************************************************)
(* How an agent gets its credential for a server: by an enrolment code, or *)
(* by a pairing that its owner approves and the agent polls for; and how   *)
(* the server takes it back (revoke, switch to local, remove).  Each is a  *)
(* transaction: it reads, waits for the lock of the server's row, then for *)
(* the pairing's, and its writes are seen when it commits.                 *)
(***************************************************************************)
EXTENDS Integers, FiniteSets

CONSTANTS
    Tx,       \* the transactions that may be open at once
    Pairing,
    MaxCodes, MaxBegun, \* bounds: codes made, transactions begun
    MaxSlow   \* bound on polls that are told to slow down

ASSUME EnrollmentAssumption ==
    /\ IsFiniteSet(Tx) /\ IsFiniteSet(Pairing)
    /\ MaxCodes \in Nat /\ MaxBegun \in Nat /\ MaxSlow \in Nat
    /\ "nobody" \notin Tx
    /\ Pairing \cap (0..MaxCodes) = {}
    /\ Pairing \cap {"server", "idle", "peek", "rollback", "retry", "commit"} = {}

VARIABLES
    server,    \* its row; "unborn" until a pairing makes it, then its owner's "own" agent server
    credential,\* "none", "active" or "revoked"
    codes,     \* per number: not made, open, spent, or gone (dropped, expired)
    pairing,   \* per pairing: open, approved, spent, or gone
    tx,        \* what each transaction is doing
    locked,    \* who holds the lock of the server's row, and of each pairing's
    era,       \* history: how often the agent was let go
    madeIn,    \* history: the era in which each code was made, each pairing approved
    mints,     \* history: how often each code and each pairing gave a credential
    stale,     \* history: what gave a credential in a later era than its own
    gaveUp,    \* history: a poll answered "pending" because its retries ran out
    begun, slowed
rowVars == <<server, credential, codes, pairing>>
historyVars == <<era, madeIn, mints, stale>>
vars == <<rowVars, tx, locked, historyVars, gaveUp, begun, slowed>>

Code == 1..MaxCodes
Nobody == "nobody"
ServerLock == "server"
Resource == Pairing \cup {ServerLock}
Idle == [kind |-> "none", pc |-> "idle", on |-> 0, peek |-> FALSE, attempt |-> 0]

Live == server \in {"local", "agent", "own"}
Kinds == {"code", "enroll", "approve", "approveNew", "poll", "revoke", "release", "remove"}

Unmade == {c \in Code : codes[c] = "none"}

-----------------------------------------------------------------------------
Begin(t, kind, on, first) ==
    /\ tx[t] = Idle
    /\ tx' = [tx EXCEPT ![t] = [kind |-> kind, pc |-> first, on |-> on, peek |-> FALSE, attempt |-> 1]]

Starts(t, kind, on, first) ==
    /\ begun < MaxBegun /\ begun' = begun + 1 /\ Begin(t, kind, on, first)
    /\ UNCHANGED <<rowVars, locked, historyVars, gaveUp, slowed>>

\* createEnrollmentCode, revoke, switchToLocal and the removals lock the server's row first.
StartsOnServer(t, kind) ==
    /\ kind \in {"code", "revoke", "release", "remove"}
    /\ kind = "code" => Cardinality({u \in Tx : tx[u].kind = "code"}) < Cardinality(Unmade)
    /\ Starts(t, kind, 0, ServerLock)
\* findOpenCodeServer: a plain read; the server's row comes before the code.
StartsEnroll(t, c) == codes[c] = "open" /\ Live /\ Starts(t, "enroll", c, ServerLock)
\* Approving for an existing server locks it; for a new one the server is made in the transaction.
StartsApprove(t, p) == Starts(t, "approve", p, ServerLock)
StartsApproveNew(t, p) == pairing[p] = "open" /\ server = "unborn" /\ Starts(t, "approveNew", p, p)

StartsPoll(t, p) ==
    /\ Begin(t, "poll", p, "peek")
    /\ UNCHANGED <<rowVars, locked, historyVars, gaveUp, begun, slowed>>

Goes(t, pc) == [tx EXCEPT ![t].pc = pc]
Ended(t) == [tx EXCEPT ![t] = Idle]

HasServer(p) == pairing[p] \in {"approved", "spent"}
\* Mutant: the pairing is locked before its server.
PeekedPairing(t, p) == p
\* The server's row is locked first when the pairing has one.
Peeked(t, p) == IF HasServer(p) THEN ServerLock ELSE p

\* peekPairingServer, without a lock.
Peek(t) ==
    LET p == tx[t].on IN
    /\ tx[t].pc = "peek"
    /\ IF pairing[p] = "gone" THEN tx' = Ended(t)
       ELSE tx' = [tx EXCEPT ![t].pc = Peeked(t, p), ![t].peek = HasServer(p)]
    /\ UNCHANGED <<rowVars, locked, historyVars, gaveUp, begun, slowed>>

Holds(t, r) == locked[r] = t
Without(t) == [r \in Resource |-> IF locked[r] = t THEN Nobody ELSE locked[r]]

\* Mutant: the lock overlooks a server of its owner.
LiveUnderLockListed(t) == server \in {"local", "agent"}
\* What the lock returns: the row as it is now, if the server is still there.
LiveUnderLock(t) == Live

\* The row lock is granted; what follows depends on the row as it is now.
LocksServer(t) ==
    LET p == tx[t].on IN
    /\ tx[t].pc = ServerLock /\ locked[ServerLock] = Nobody
    /\ locked' = [locked EXCEPT ![ServerLock] = t]
    /\ tx' = Goes(t, IF ~LiveUnderLock(t) \/ (tx[t].kind = "release" /\ server # "agent") THEN "rollback"
                     ELSE IF tx[t].kind \in {"approve", "poll"} /\ ~Holds(t, p) THEN p
                     ELSE "commit")
    /\ UNCHANGED <<rowVars, historyVars, gaveUp, begun, slowed>>

\* A poll under the lock of its pairing: spent, approved since the peek, not yet approved, or due.
PollFinds(t) ==
    LET p == tx[t].on IN
    IF pairing[p] \in {"spent", "gone"} THEN "rollback"
    ELSE IF pairing[p] = "approved" /\ ~tx[t].peek THEN "retry"
    ELSE IF pairing[p] = "approved" THEN "commit"
    ELSE "rollback"
\* approvePairing: whoever finds the pairing open wins.
ApproveFinds(t) == IF pairing[tx[t].on] = "open" THEN "commit" ELSE "rollback"

LocksPairing(t, p) ==
    /\ tx[t].pc = p /\ locked[p] = Nobody
    /\ locked' = [locked EXCEPT ![p] = t]
    /\ tx' = Goes(t, IF tx[t].kind = "poll"
                     THEN IF tx[t].peek /\ ~Holds(t, ServerLock) THEN ServerLock ELSE PollFinds(t)
                     ELSE ApproveFinds(t))
    /\ UNCHANGED <<rowVars, historyVars, gaveUp, begun, slowed>>

RollsBack(t) ==
    /\ tx[t].pc = "rollback" /\ tx' = Ended(t) /\ locked' = Without(t)
    /\ UNCHANGED <<rowVars, historyVars, gaveUp, begun, slowed>>
\* Told to slow down: the poll is recorded and nothing else.
SlowsDown(t) ==
    /\ tx[t].kind = "poll" /\ tx[t].pc = "commit" /\ slowed < MaxSlow /\ slowed' = slowed + 1
    /\ tx' = Ended(t) /\ locked' = Without(t)
    /\ UNCHANGED <<rowVars, historyVars, gaveUp, begun>>

Attempts == 3
Retries(t) ==
    /\ tx[t].pc = "retry" /\ locked' = Without(t)
    /\ IF tx[t].attempt < Attempts
       THEN tx' = [tx EXCEPT ![t].pc = "peek", ![t].attempt = @ + 1] /\ UNCHANGED gaveUp
       ELSE tx' = Ended(t) /\ gaveUp' = TRUE
    /\ UNCHANGED <<rowVars, historyVars, begun, slowed>>

-----------------------------------------------------------------------------
(* The commits: what each transaction wrote, and its locks, at once.       *)

Commits(t, kind) ==
    /\ tx[t].kind = kind /\ tx[t].pc = "commit"
    /\ tx' = Ended(t) /\ locked' = Without(t)
    /\ UNCHANGED <<gaveUp, begun, slowed>>

\* deleteOpenCodes
CodesDropped == [c \in Code |-> IF codes[c] = "open" THEN "gone" ELSE codes[c]]

CommitsCode(t, c) ==
    /\ Commits(t, "code") /\ c \in Unmade
    /\ codes' = [CodesDropped EXCEPT ![c] = "open"]
    /\ madeIn' = [madeIn EXCEPT ![c] = era]
    /\ UNCHANGED <<server, credential, pairing, era, mints, stale>>

\* installAgentCredential: the secret replaces the one before, and the server is its agent's.
Installs(by) ==
    /\ credential' = "active" /\ server' = (IF server = "own" THEN "own" ELSE "agent")
    /\ mints' = [mints EXCEPT ![by] = @ + 1]
    /\ stale' = IF madeIn[by] < era THEN stale \cup {by} ELSE stale
    /\ UNCHANGED <<era, madeIn>>

\* Mutant: the code is found by its hash alone.
ConsumesKnown(c) == codes[c] \in {"open", "spent"}
\* consumeCode: a code that is open now.
Consumes(c) == codes[c] = "open"
CommitsEnroll(t) ==
    /\ Commits(t, "enroll")
    /\ IF Consumes(tx[t].on)
       THEN Installs(tx[t].on) /\ codes' = [codes EXCEPT ![tx[t].on] = "spent"]
       ELSE UNCHANGED <<server, credential, codes, historyVars>>
    /\ UNCHANGED pairing

CommitsApprove(t) ==
    /\ \/ Commits(t, "approve") /\ UNCHANGED server
       \/ Commits(t, "approveNew") /\ server = "unborn" /\ server' = "own"
    /\ pairing' = [pairing EXCEPT ![tx[t].on] = "approved"]
    /\ madeIn' = [madeIn EXCEPT ![tx[t].on] = era]
    /\ UNCHANGED <<credential, codes, era, mints, stale>>

CommitsPoll(t) ==
    /\ Commits(t, "poll") /\ Installs(tx[t].on)
    /\ pairing' = [pairing EXCEPT ![tx[t].on] = "spent"] /\ UNCHANGED codes

LetGo == era' = era + 1 /\ UNCHANGED <<madeIn, mints, stale>>

\* Mutant: letting go leaves the open code.
OpenCodesLeft == codes
\* An open code goes with the credential, or it could enrol a new agent.
CodesLetGo == CodesDropped
Revoked == IF credential = "active" THEN "revoked" ELSE credential
CommitsRevoke(t) ==
    /\ Commits(t, "revoke") /\ codes' = CodesLetGo /\ credential' = Revoked
    /\ LetGo /\ UNCHANGED <<server, pairing>>
\* releaseAgentServer, in the switch to local.
CommitsRelease(t) ==
    /\ Commits(t, "release") /\ codes' = CodesLetGo /\ credential' = Revoked
    /\ server' = "local" /\ LetGo /\ UNCHANGED pairing
\* softDeleteServerInTransaction, and the purge of everything kept for the server.
CommitsRemove(t) ==
    /\ Commits(t, "remove") /\ server' = "removed" /\ credential' = "none"
    /\ codes' = [c \in Code |-> IF codes[c] = "none" THEN "none" ELSE "gone"]
    /\ pairing' = [p \in Pairing |-> IF pairing[p] \in {"approved", "spent"} THEN "gone" ELSE pairing[p]]
    /\ LetGo

\* Ten minutes for a code, fifteen for a pairing, whatever is under way.
CodeExpires(c) ==
    /\ codes[c] = "open" /\ codes' = [codes EXCEPT ![c] = "gone"]
    /\ UNCHANGED <<server, credential, pairing, tx, locked, historyVars, gaveUp, begun, slowed>>
\* A pairing under its lock has been read already.
PairingExpires(p) ==
    /\ pairing[p] \in {"open", "approved"} /\ pairing' = [pairing EXCEPT ![p] = "gone"]
    /\ locked[p] = Nobody
    /\ UNCHANGED <<server, credential, codes, tx, locked, historyVars, gaveUp, begun, slowed>>

-----------------------------------------------------------------------------
Init ==
    /\ server \in {"unborn", "local", "agent", "own"} /\ credential = "none"
    /\ codes = [c \in Code |-> "none"] /\ pairing = [p \in Pairing |-> "open"]
    /\ tx = [t \in Tx |-> Idle] /\ locked = [r \in Resource |-> Nobody]
    /\ era = 0 /\ madeIn = [x \in Code \cup Pairing |-> 0]
    /\ mints = [x \in Code \cup Pairing |-> 0] /\ stale = {}
    /\ gaveUp = FALSE /\ begun = 0 /\ slowed = 0

TxStep(t) ==
    \/ Peek(t) \/ LocksServer(t) \/ RollsBack(t) \/ Retries(t)
    \/ CommitsEnroll(t) \/ CommitsApprove(t) \/ CommitsPoll(t)
    \/ CommitsRevoke(t) \/ CommitsRelease(t) \/ CommitsRemove(t)
    \/ \E p \in Pairing : LocksPairing(t, p)
    \/ \E c \in Code : CommitsCode(t, c)

Next ==
    \/ \E t \in Tx :
         \/ TxStep(t) \/ SlowsDown(t)
         \/ \E kind \in Kinds : StartsOnServer(t, kind)
         \/ \E c \in Code : StartsEnroll(t, c)
         \/ \E p \in Pairing : StartsApprove(t, p) \/ StartsApproveNew(t, p) \/ StartsPoll(t, p)
    \/ \E c \in Code : CodeExpires(c)
    \/ \E p \in Pairing : PairingExpires(p)

Spec == Init /\ [][Next]_vars
\* The database serves every transaction, and the agent polls until it is told to stop.
LiveSpec ==
    /\ Spec /\ \A t \in Tx : SF_vars(TxStep(t))
    /\ \A p \in Pairing : SF_vars(\E t \in Tx : StartsPoll(t, p))

-----------------------------------------------------------------------------
Transaction ==
    [kind : Kinds \cup {"none"}, on : Code \cup Pairing \cup {0}, peek : BOOLEAN, attempt : Nat,
     pc : {"idle", "peek", "rollback", "retry", "commit"} \cup Resource]

TypeOK ==
    /\ server \in {"unborn", "local", "agent", "own", "removed"}
    /\ credential \in {"none", "active", "revoked"}
    /\ codes \in [Code -> {"none", "open", "spent", "gone"}]
    /\ pairing \in [Pairing -> {"open", "approved", "spent", "gone"}]
    /\ tx \in [Tx -> Transaction] /\ locked \in [Resource -> Tx \cup {Nobody}]
    /\ era \in Nat /\ madeIn \in [Code \cup Pairing -> Nat]
    /\ mints \in [Code \cup Pairing -> Nat]
    /\ stale \subseteq Code \cup Pairing
    /\ gaveUp \in BOOLEAN /\ begun \in Nat /\ slowed \in Nat

\* However many present it at once, a code or a pairing gives one credential (agentRepository.ts,
\* pairingRepository.ts).
SingleUse == \A x \in Code \cup Pairing : mints[x] <= 1

\* A server has at most one live code, whoever makes one at the same time.
OneLiveCode == Cardinality({c \in Code : codes[c] = "open"}) <= 1

\* A removed server keeps nothing that lets an agent in, and nothing under way leaves it any.
RemovedKeepsNothing ==
    server = "removed" =>
        /\ credential = "none"
        /\ \A c \in Code : codes[c] # "open"
        /\ \A p \in Pairing : pairing[p] # "approved"

\* No two transactions wait for each other's lock (enrolment, code, revoke, poll and approval).
Waits(t, u) == \E r \in Resource : tx[t].pc = r /\ locked[r] = u
NoDeadlock == \A t, u \in Tx : ~(Waits(t, u) /\ Waits(u, t))

\* An approval happens once, so a poll's retries never run out.
RetriesSuffice == ~gaveUp

\* A code made before the agent was let go never brings it back.
OldCodesAreDead == stale \subseteq Pairing

\* An approved pairing is collected by the agent that polls for it, or expires, or loses its server.
ApprovedIsCollected == \A p \in Pairing : pairing[p] = "approved" ~> pairing[p] # "approved"
=============================================================================
