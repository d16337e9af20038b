------------------------- MODULE AgentCommandsProofs -------------------------
(***************************************************************************)
(* Theorems about AgentCommands, for every value of its constants: its     *)
(* type invariant, how often the agent runs a command, the promise of      *)
(* CommandLife, what the lock of a server's row guards, and that what was  *)
(* confirmed is not undone.                                                *)
(***************************************************************************)
EXTENDS AgentCommands, TLAPS, FiniteSetTheorems

\* Nothing of a command exists before its transaction commits: no row, no copy on its way to
\* the agent, no run.  The creation stamp a run is judged by can no longer change then.
CommittedFirst ==
    /\ \A c \in Command : request[c] # "done" => status[c] = "none"
    /\ \A c \in reply.commands \cup batch : status[c] # "none"
    /\ \A c \in Command : runs[c] > 0 => status[c] # "none"

\* What the agent forgot at most: a command it ran as often as its lapses allow is one it still
\* remembers, or one it takes for expired.
Lapses == restarts + setBacks + evictions
RunsRemembered ==
    \A c \in Command :
        /\ runs[c] <= 1 + Lapses
        /\ runs[c] = 1 + Lapses => ledger[c] # "absent" \/ ExpiresAt(c) <= AgentClock

\* The runner is busy with a command, and reports one it has a result for.
InHand ==
    /\ pc \in {"running", "reporting", "waiting"} => cur \in Command
    /\ pc \in {"reporting", "waiting"} => ledger[cur] \in Result

\* Results are never made up: what is remembered, and what is reported, came from the game.
ResultsFromGame ==
    /\ pc = "running" => status[cur] # "none"
    /\ \A c \in Command : ledger[c] \in Result => ledger[c] \in outcomes[c]
    /\ \A m \in inbox : m.result \in outcomes[m.id]

IInv == TypeOK /\ InHand /\ CommittedFirst /\ RunsRemembered /\ ResultsFromGame

USE CommandAssumption, NoneAssumption, ClockAssumption, LimitAssumption, BoundAssumption
USE DEF vars, dbVars, rowVars, serverVars, agentVars, historyVars
-----------------------------------------------------------------------------
(* The type invariant.                                                     *)

\* Counting commands yields a number.
LEMMA CountIsNat ==
    ASSUME NEW S \in SUBSET Command
    PROVE  IsFiniteSet(S) /\ Cardinality(S) \in Nat
  BY FS_Subset, FS_CardinalityType

\* Fewer commands count for less, and one more for one more.
LEMMA SmallerCount ==
    ASSUME NEW S \in SUBSET Command, NEW T, T \subseteq S
    PROVE  Cardinality(T) <= Cardinality(S) /\ Cardinality(S) \in Nat /\ Cardinality(T) \in Nat
  BY CountIsNat, FS_Subset

LEMMA OneMore ==
    ASSUME NEW S \in SUBSET Command, NEW c \in Command
    PROVE  Cardinality(S \cup {c}) <= Cardinality(S) + 1
  BY CountIsNat, FS_AddElement

\* begin() drops at most one entry: the one it makes room for (ledger.ts, begin).
LEMMA EvictsAtMostOne ==
    ASSUME NEW c
    PROVE  \/ Evicted(c) = {} /\ Cardinality(Evicted(c)) = 0
           \/ Cardinality(Evicted(c)) = 1
  BY FS_EmptySet, FS_Singleton DEF Evicted

\* What begin() leaves behind is again a ledger and an insertion order.
LEMMA LedgerBeginType ==
    ASSUME TypeOK, NEW c \in Command
    PROVE  /\ LedgerBegin(c) \in [Command -> {"absent", "running"} \cup Result]
           /\ Stamps(c) \in [Command -> Nat]
  <1>1. Remembered \subseteq Command
    BY DEF Remembered
  <1>2. NextStamp \in Nat
    BY <1>1, CountIsNat DEF NextStamp
  <1>3. \A d \in Command : Cardinality({e \in Remembered : begun[e] <= begun[d]}) \in Nat
    BY <1>1, CountIsNat
  <1>4. LedgerBegin(c) \in [Command -> {"absent", "running"} \cup Result]
    BY DEF LedgerBegin, TypeOK
  <1>5. Stamps(c) \in [Command -> Nat]
    BY <1>2, <1>3 DEF Stamps
  <1>. QED
    BY <1>4, <1>5

\* completeCommand writes a status, whatever is reported and whenever.
LEMMA CompleteType ==
    ASSUME TypeOK, NEW m \in Report, Complete(m)
    PROVE  status' \in [Command -> Status]
  BY DEF Complete, TypeOK, Status, Ended, Report

\* Every step keeps every variable in its type.
LEMMA TypeStep == TypeOK /\ InHand /\ [Next]_vars => TypeOK'
  <1>. SUFFICES ASSUME TypeOK, InHand, [Next]_vars
                PROVE  TypeOK'
    OBVIOUS
  <1>. USE DEF TypeOK
  <1>1. ASSUME NEW c \in Command, BeginRequest(c)
        PROVE  TypeOK'
    BY <1>1 DEF BeginRequest
  <1>2. ASSUME NEW c \in Command, LockServer(c)
        PROVE  TypeOK'
    BY <1>2 DEF LockServer
  <1>3. ASSUME NEW c \in Command, AbandonRequest(c)
        PROVE  TypeOK'
    BY <1>3 DEF AbandonRequest
  <1>4. ASSUME NEW c \in Command, CommitRequest(c)
        PROVE  TypeOK'
    <2>1. Cardinality({d \in Command : serial[d] > 0}) + 1 \in Nat
      BY CountIsNat
    <2>. QED
      BY <1>4, <2>1 DEF CommitRequest, Status, Open
  <1>5. CASE Revoke
    BY <1>5 DEF Revoke
  <1>6. CASE Enroll
    BY <1>6 DEF Enroll, Key
  <1>7. CASE SwitchToLocal
    BY <1>7 DEF SwitchToLocal, Status, Ended
  <1>8. CASE Tick
    BY <1>8 DEF Tick
  <1>9. CASE ExpireStale
    BY <1>9 DEF ExpireStale, Status, Ended
  <1>10. CASE PurgeOld
    BY <1>10 DEF PurgeOld, Status
  <1>11. CASE PollStep
    <2>1. CASE StartPoll
      BY <2>1 DEF StartPoll, PC
    <2>2. CASE Claim
      BY <2>2 DEF Claim, Status, Open, Live, OpenRows
    <2>3. CASE ReceiveReply
      BY <2>3 DEF ReceiveReply, NoReply, PC
    <2>4. CASE PollFails
      BY <2>4 DEF PollFails, NoReply, PC
    <2>. QED
      BY <1>11, <2>1, <2>2, <2>3, <2>4 DEF PollStep
  <1>12. CASE RunStep
    <2>1. ASSUME NEW c \in Command, SkipCommand(c)
          PROVE  TypeOK'
      BY <2>1 DEF SkipCommand
    <2>2. ASSUME NEW c \in Command, RepeatResult(c)
          PROVE  TypeOK'
      BY <2>2 DEF RepeatResult, PC
    <2>3. ASSUME NEW c \in Command, StartRun(c)
          PROVE  TypeOK'
      <3>1. ledger' \in [Command -> {"absent", "running"} \cup Result] /\ begun' \in [Command -> Nat]
        BY <2>3, LedgerBeginType DEF StartRun
      <3>2. evictions' \in Nat
        BY <2>3, EvictsAtMostOne DEF StartRun
      <3>3. runs' \in [Command -> Nat] /\ cur' \in Command /\ pc' \in PC /\ batch' \subseteq Command
        BY <2>3 DEF StartRun, PC
      <3>. QED
        BY <2>3, <3>1, <3>2, <3>3 DEF StartRun
    <2>4. ASSUME NEW result \in Result, NEW applied \in BOOLEAN, FinishRun(result, applied)
          PROVE  TypeOK'
      BY <2>4 DEF FinishRun, PC
    <2>5. CASE BatchDone
      BY <2>5 DEF BatchDone, PC
    <2>. QED
      BY <1>12, <2>1, <2>2, <2>3, <2>4, <2>5 DEF RunStep
  <1>13. CASE ReportStep
    <2>1. CASE SendResult
      BY <2>1 DEF SendResult, InHand, PC, Report
    <2>2. CASE AttemptFails
      BY <2>2 DEF AttemptFails, Leave, PC
    <2>3. ASSUME NEW m \in inbox, NEW heard \in BOOLEAN, HandleReport(m, heard)
          PROVE  TypeOK'
      <3>1. status' \in [Command -> Status]
        BY <2>3, CompleteType DEF HandleReport
      <3>. QED
        BY <2>3, <3>1 DEF HandleReport, Leave, PC
    <2>4. ASSUME NEW m \in inbox, LoseReport(m)
          PROVE  TypeOK'
      BY <2>4 DEF LoseReport
    <2>. QED
      BY <1>13, <2>1, <2>2, <2>3, <2>4 DEF ReportStep
  <1>14. CASE FaultStep
    <2>1. ASSUME NEW k \in Key, Restart(k)
          PROVE  TypeOK'
      BY <2>1 DEF Restart, NoReply, PC
    <2>2. ASSUME NEW s \in Skews, AdjustClock(s)
          PROVE  TypeOK'
      BY <2>2 DEF AdjustClock
    <2>. QED
      BY <1>14, <2>1, <2>2 DEF FaultStep
  <1>15. CASE UNCHANGED vars
    BY <1>15
  <1>. QED
    BY <1>1, <1>2, <1>3, <1>4, <1>5, <1>6, <1>7, <1>8, <1>9, <1>10, <1>11, <1>12, <1>13, <1>14, <1>15
       DEF Next, RequestStep, CredentialStep

\* The runner's loop puts a command in hand before it runs it and a result before it reports it.
LEMMA InHandStep == TypeOK /\ InHand /\ [Next]_vars => InHand'
  <1>. SUFFICES ASSUME TypeOK, InHand, [Next]_vars
                PROVE  InHand'
    OBVIOUS
  <1>. USE DEF InHand
  <1>1. CASE UNCHANGED <<pc, cur, ledger>>
    BY <1>1
  <1>2. CASE pc' \in {"idle", "polling", "handling", "stopped"}
    BY <1>2
  <1>3. ASSUME NEW c \in Command, RepeatResult(c)
        PROVE  InHand'
    BY <1>3 DEF RepeatResult, TypeOK
  <1>4. ASSUME NEW c \in Command, StartRun(c)
        PROVE  InHand'
    BY <1>4 DEF StartRun
  <1>5. ASSUME NEW result \in Result, NEW applied \in BOOLEAN, FinishRun(result, applied)
        PROVE  InHand'
    BY <1>5 DEF FinishRun, TypeOK
  <1>6. CASE SendResult
    BY <1>6 DEF SendResult
  <1>7. CASE AttemptFails
    BY <1>7 DEF AttemptFails, Leave
  <1>8. ASSUME NEW m \in inbox, NEW heard \in BOOLEAN, HandleReport(m, heard)
        PROVE  InHand'
    BY <1>8 DEF HandleReport, Leave
  <1>9. ASSUME RequestStep \/ CredentialStep \/ Tick \/ ExpireStale \/ PurgeOld
        PROVE  UNCHANGED <<pc, cur, ledger>>
    BY <1>9 DEF RequestStep, BeginRequest, LockServer, AbandonRequest, CommitRequest,
                CredentialStep, Revoke, Enroll, SwitchToLocal, Tick, ExpireStale, PurgeOld
  <1>10. ASSUME PollStep
         PROVE  UNCHANGED <<pc, cur, ledger>> \/ pc' \in {"idle", "polling", "handling", "stopped"}
    BY <1>10 DEF PollStep, StartPoll, Claim, ReceiveReply, PollFails
  <1>11. ASSUME NEW c \in Command, SkipCommand(c)
         PROVE  UNCHANGED <<pc, cur, ledger>>
    BY <1>11 DEF SkipCommand
  <1>12. ASSUME NEW m \in inbox, LoseReport(m)
         PROVE  UNCHANGED <<pc, cur, ledger>>
    BY <1>12 DEF LoseReport
  <1>13. ASSUME FaultStep
         PROVE  UNCHANGED <<pc, cur, ledger>> \/ pc' = "idle"
    BY <1>13 DEF FaultStep, Restart, AdjustClock
  <1>14. ASSUME BatchDone
         PROVE  pc' = "idle"
    BY <1>14 DEF BatchDone
  <1>. QED
    BY <1>1, <1>2, <1>3, <1>4, <1>5, <1>6, <1>7, <1>8, <1>9, <1>10, <1>11, <1>12, <1>13, <1>14
       DEF Next, RunStep, ReportStep

LEMMA TypeInit == Init => TypeOK /\ InHand
  BY DEF Init, TypeOK, InHand, Key, Status, PC, NoReply

\* The type invariant holds whatever the agent, the network and the users do.
THEOREM TypeCorrect == Spec => []TypeOK
  <1>1. Spec => [](TypeOK /\ InHand)
    BY TypeInit, TypeStep, InHandStep, PTL DEF Spec
  <1>. QED
    BY <1>1, PTL

-----------------------------------------------------------------------------
(* Before the commit there is nothing to deliver, to run or to report.     *)

\* A row that was written stays, in some status, and a request that is done stays done.
LEMMA RowsStay ==
    ASSUME TypeOK, CommittedFirst, [Next]_vars, NEW c \in Command, status[c] # "none"
    PROVE  status'[c] # "none" /\ request'[c] = "done"
  <1>. USE DEF TypeOK, CommittedFirst
  <1>1. request[c] = "done"
    OBVIOUS
  <1>2. ASSUME NEW d \in Command, BeginRequest(d)
        PROVE  status'[c] # "none" /\ request'[c] = "done"
    BY <1>1, <1>2 DEF BeginRequest
  <1>3. ASSUME NEW d \in Command, LockServer(d)
        PROVE  status'[c] # "none" /\ request'[c] = "done"
    BY <1>1, <1>3 DEF LockServer
  <1>4. ASSUME NEW d \in Command, AbandonRequest(d)
        PROVE  status'[c] # "none" /\ request'[c] = "done"
    BY <1>1, <1>4 DEF AbandonRequest
  <1>5. ASSUME NEW d \in Command, CommitRequest(d)
        PROVE  status'[c] # "none" /\ request'[c] = "done"
    BY <1>1, <1>5 DEF CommitRequest
  <1>6. ASSUME NEW m \in inbox, NEW heard \in BOOLEAN, HandleReport(m, heard)
        PROVE  status'[c] # "none" /\ request'[c] = "done"
    BY <1>1, <1>6 DEF HandleReport, Complete, Report
  <1>7. ASSUME CredentialStep \/ Tick \/ ExpireStale \/ PurgeOld
        PROVE  status'[c] # "none" /\ request'[c] = "done"
    BY <1>1, <1>7 DEF CredentialStep, Revoke, Enroll, SwitchToLocal, Tick, ExpireStale, PurgeOld
  <1>8. ASSUME PollStep
        PROVE  status'[c] # "none" /\ request'[c] = "done"
    BY <1>1, <1>8 DEF PollStep, StartPoll, Claim, ReceiveReply, PollFails
  <1>9. ASSUME RunStep \/ SendResult \/ AttemptFails \/ FaultStep
        PROVE  status'[c] # "none" /\ request'[c] = "done"
    BY <1>1, <1>9 DEF RunStep, SkipCommand, RepeatResult, StartRun, FinishRun, BatchDone,
                      SendResult, AttemptFails, FaultStep, Restart, AdjustClock
  <1>10. ASSUME NEW m \in inbox, LoseReport(m)
         PROVE  status'[c] # "none" /\ request'[c] = "done"
    BY <1>1, <1>10 DEF LoseReport
  <1>11. CASE UNCHANGED vars
    BY <1>1, <1>11
  <1>. QED
    BY <1>2, <1>3, <1>4, <1>5, <1>6, <1>7, <1>8, <1>9, <1>10, <1>11
       DEF Next, RequestStep, ReportStep

\* Only the commit of a request writes a row.
LEMMA OnlyCommitWrites ==
    ASSUME TypeOK, CommittedFirst, [Next]_vars, NEW c \in Command, request'[c] # "done"
    PROVE  status'[c] = "none" /\ request[c] # "done"
  <1>. USE DEF TypeOK, CommittedFirst
  <1>1. ASSUME NEW d \in Command, BeginRequest(d) \/ LockServer(d)
        PROVE  status'[c] = "none" /\ request[c] # "done"
    BY <1>1 DEF BeginRequest, LockServer
  <1>2. ASSUME NEW d \in Command, AbandonRequest(d) \/ CommitRequest(d)
        PROVE  status'[c] = "none" /\ request[c] # "done"
    BY <1>2 DEF AbandonRequest, CommitRequest
  <1>3. ASSUME NEW m \in inbox, NEW heard \in BOOLEAN, HandleReport(m, heard)
        PROVE  status'[c] = "none" /\ request[c] # "done"
    BY <1>3 DEF HandleReport, Complete, Report, Live, Stale, OpenRows, Open
  <1>4. ASSUME CredentialStep \/ Tick \/ ExpireStale \/ PurgeOld
        PROVE  status'[c] = "none" /\ request[c] # "done"
    BY <1>4 DEF CredentialStep, Revoke, Enroll, SwitchToLocal, Tick, ExpireStale, PurgeOld,
                OpenRows, Stale, Open, Ended
  <1>5. ASSUME PollStep
        PROVE  status'[c] = "none" /\ request[c] # "done"
    BY <1>5 DEF PollStep, StartPoll, Claim, ReceiveReply, PollFails, Live, OpenRows, Open
  <1>6. ASSUME RunStep \/ SendResult \/ AttemptFails \/ FaultStep
        PROVE  status'[c] = "none" /\ request[c] # "done"
    BY <1>6 DEF RunStep, SkipCommand, RepeatResult, StartRun, FinishRun, BatchDone,
                SendResult, AttemptFails, FaultStep, Restart, AdjustClock
  <1>7. ASSUME NEW m \in inbox, LoseReport(m)
        PROVE  status'[c] = "none" /\ request[c] # "done"
    BY <1>7 DEF LoseReport
  <1>8. CASE UNCHANGED vars
    BY <1>8
  <1>. QED
    BY <1>1, <1>2, <1>3, <1>4, <1>5, <1>6, <1>7, <1>8 DEF Next, RequestStep, ReportStep

\* What is on its way to the agent was claimed, and what was claimed has a row.
LEMMA DeliveredWereCommitted ==
    ASSUME TypeOK, CommittedFirst, [Next]_vars, NEW c \in reply'.commands \cup batch'
    PROVE  status'[c] # "none"
  <1>. USE DEF TypeOK, CommittedFirst
  <1>1. CASE c \in reply.commands \cup batch
    BY <1>1, RowsStay
  <1>2. CASE c \notin reply.commands \cup batch
    <2>1. ASSUME RequestStep \/ CredentialStep \/ Tick \/ ExpireStale \/ PurgeOld
          PROVE  UNCHANGED <<reply, batch>>
      BY <2>1 DEF RequestStep, BeginRequest, LockServer, AbandonRequest, CommitRequest,
                  CredentialStep, Revoke, Enroll, SwitchToLocal, Tick, ExpireStale, PurgeOld
    <2>2. ASSUME StartPoll \/ ReceiveReply \/ PollFails
          PROVE  reply'.commands \cup batch' \subseteq reply.commands \cup batch
      BY <2>2 DEF StartPoll, ReceiveReply, PollFails, NoReply
    <2>3. ASSUME Claim
          PROVE  c \in Live(now) /\ status'[c] = "sent"
      BY <2>3, <1>2 DEF Claim, Live, OpenRows
    <2>4. ASSUME RunStep \/ FaultStep
          PROVE  reply'.commands \cup batch' \subseteq reply.commands \cup batch
      BY <2>4 DEF RunStep, SkipCommand, RepeatResult, StartRun, FinishRun, BatchDone,
                  FaultStep, Restart, AdjustClock, NoReply
    <2>5. ASSUME ReportStep
          PROVE  UNCHANGED <<reply, batch>>
      BY <2>5 DEF ReportStep, SendResult, AttemptFails, HandleReport, LoseReport
    <2>. QED
      BY <1>2, <2>1, <2>2, <2>3, <2>4, <2>5 DEF Next, PollStep
  <1>. QED
    BY <1>1, <1>2

\* Only what was delivered is run.
LEMMA RunsWereDelivered ==
    ASSUME TypeOK, [Next]_vars, NEW c \in Command
    PROVE  runs'[c] = runs[c] \/ (StartRun(c) /\ c \in batch /\ runs'[c] = runs[c] + 1)
  <1>. USE DEF TypeOK
  <1>1. ASSUME NEW d \in Command, StartRun(d)
        PROVE  \/ runs'[c] = runs[c]
               \/ d = c /\ c \in batch /\ runs'[c] = runs[c] + 1
    BY <1>1 DEF StartRun, NextInBatch, FirstIn
  <1>2. ASSUME RequestStep \/ CredentialStep \/ Tick \/ ExpireStale \/ PurgeOld
        PROVE  runs' = runs
    BY <1>2 DEF RequestStep, BeginRequest, LockServer, AbandonRequest, CommitRequest,
                CredentialStep, Revoke, Enroll, SwitchToLocal, Tick, ExpireStale, PurgeOld
  <1>3. ASSUME PollStep \/ ReportStep \/ FaultStep
        PROVE  runs' = runs
    BY <1>3 DEF PollStep, StartPoll, Claim, ReceiveReply, PollFails,
                ReportStep, SendResult, AttemptFails, HandleReport, LoseReport,
                FaultStep, Restart, AdjustClock
  <1>4. ASSUME RunStep
        PROVE  runs' = runs \/ \E d \in Command : StartRun(d)
    BY <1>4 DEF RunStep, SkipCommand, RepeatResult, FinishRun, BatchDone
  <1>. QED
    BY <1>1, <1>2, <1>3, <1>4 DEF Next

LEMMA CommittedFirstStep == TypeOK /\ CommittedFirst /\ [Next]_vars => CommittedFirst'
  <1>. SUFFICES ASSUME TypeOK, CommittedFirst, [Next]_vars
                PROVE  CommittedFirst'
    OBVIOUS
  <1>1. ASSUME NEW c \in Command, request'[c] # "done"
        PROVE  status'[c] = "none"
    BY <1>1, OnlyCommitWrites
  <1>2. ASSUME NEW c \in reply'.commands \cup batch'
        PROVE  status'[c] # "none"
    BY <1>2, DeliveredWereCommitted
  <1>3. ASSUME NEW c \in Command, runs'[c] > 0
        PROVE  status'[c] # "none"
    <2>1. status[c] # "none"
      BY <1>3, RunsWereDelivered DEF TypeOK, CommittedFirst
    <2>. QED
      BY <2>1, RowsStay
  <1>. QED
    BY <1>1, <1>2, <1>3 DEF CommittedFirst

-----------------------------------------------------------------------------
(* How often a command runs.                                               *)

\* A step in which something was forgotten, and the command did not run.
LEMMA SomethingForgotten ==
    ASSUME TypeOK, RunsRemembered, NEW c \in Command,
           runs'[c] = runs[c], Lapses' = Lapses + 1
    PROVE  /\ runs'[c] <= 1 + Lapses'
           /\ runs'[c] = 1 + Lapses' => ledger'[c] # "absent" \/ ExpiresAt(c)' <= AgentClock'
  BY DEF RunsRemembered, TypeOK, Lapses

\* The runner starts a command only when it remembers no run of it (commandRunner.ts, handle;
\* ledger.ts, begin).
LEMMA StartRunRemembered ==
    ASSUME IInv, NEW d \in Command, StartRun(d)
    PROVE  RunsRemembered'
  <1>. USE DEF IInv, TypeOK
  <1>1. runs[d] <= Lapses
    BY DEF StartRun, Fresh, Remembered, RunsRemembered, ExpiresAt, AgentClock, Lapses
  <1>2. /\ Lapses \in Nat
        /\ \/ Evicted(d) = {} /\ Lapses' = Lapses
           \/ Lapses' = Lapses + 1
    BY EvictsAtMostOne DEF StartRun, Lapses
  <1>3. ASSUME NEW c \in Command
        PROVE  /\ runs'[c] <= 1 + Lapses'
               /\ runs'[c] = 1 + Lapses' => ledger'[c] # "absent" \/ ExpiresAt(c)' <= AgentClock'
    <2>1. runs'[c] = IF c = d THEN runs[c] + 1 ELSE runs[c]
      BY DEF StartRun
    <2>2. runs'[c] <= 1 + Lapses
      BY <2>1, <1>1, <1>2 DEF RunsRemembered
    <2>3. CASE Lapses' = Lapses + 1
      BY <2>1, <2>2, <2>3, <1>2
    <2>4. CASE Evicted(d) = {} /\ Lapses' = Lapses
      <3>1. ledger'[c] = IF c = d THEN "running" ELSE IF c \in Remembered THEN ledger[c] ELSE "absent"
        BY <2>4 DEF StartRun, LedgerBegin
      <3>2. created' = created /\ now' = now /\ skew' = skew
        BY DEF StartRun
      <3>3. CASE c = d
        BY <3>1, <3>3, <2>2, <2>4
      <3>4. CASE c # d
        BY <3>1, <3>2, <3>4, <2>1, <2>4 DEF RunsRemembered, Remembered, ExpiresAt, AgentClock
      <3>. QED
        BY <3>3, <3>4
    <2>. QED
      BY <1>2, <2>3, <2>4
  <1>. QED
    BY <1>3 DEF RunsRemembered

LEMMA RunsRememberedStep == IInv /\ [Next]_vars => RunsRemembered'
  <1>. SUFFICES ASSUME IInv, [Next]_vars
                PROVE  RunsRemembered'
    OBVIOUS
  <1>. USE DEF IInv
  <1>0. AgentClock \in Int /\ Lapses \in Nat
    BY DEF TypeOK, AgentClock, Lapses
  <1>1. ASSUME UNCHANGED <<runs, ledger, restarts, setBacks, evictions, created, now, skew>>
        PROVE  RunsRemembered'
    BY <1>1 DEF RunsRemembered, ExpiresAt, AgentClock, Lapses
  <1>2. ASSUME NEW d \in Command, BeginRequest(d) \/ AbandonRequest(d)
        PROVE  RunsRemembered'
    <2>1. runs[d] = 0
      BY <1>2 DEF BeginRequest, AbandonRequest, CommittedFirst, TypeOK
    <2>. QED
      BY <1>0, <1>2, <2>1 DEF BeginRequest, AbandonRequest, RunsRemembered, TypeOK, ExpiresAt, AgentClock, Lapses
  <1>3. CASE Tick
    BY <1>3 DEF Tick, RunsRemembered, TypeOK, ExpiresAt, AgentClock, Lapses
  <1>4. ASSUME NEW d \in Command, RepeatResult(d)
        PROVE  RunsRemembered'
    BY <1>4 DEF RepeatResult, Remembered, RunsRemembered, TypeOK, ExpiresAt, AgentClock, Lapses
  <1>5. ASSUME NEW d \in Command, StartRun(d)
        PROVE  RunsRemembered'
    BY <1>5, StartRunRemembered
  <1>6. ASSUME NEW result \in Result, NEW applied \in BOOLEAN, FinishRun(result, applied)
        PROVE  RunsRemembered'
    BY <1>6 DEF FinishRun, InHand, RunsRemembered, Result, TypeOK, ExpiresAt, AgentClock, Lapses
  <1>7. ASSUME NEW k \in Key, Restart(k)
        PROVE  RunsRemembered'
    <2>1. Lapses' = Lapses + 1 /\ runs' = runs
      BY <1>7 DEF Restart, Lapses, TypeOK
    <2>. QED
      BY <2>1, SomethingForgotten DEF RunsRemembered
  <1>8. ASSUME NEW s \in Skews, AdjustClock(s)
        PROVE  RunsRemembered'
    <2>1. CASE s < skew
      <3>1. Lapses' = Lapses + 1 /\ runs' = runs
        BY <1>8, <2>1 DEF AdjustClock, Lapses, TypeOK
      <3>. QED
        BY <3>1, SomethingForgotten DEF RunsRemembered
    <2>2. CASE ~(s < skew)
      BY <1>8, <2>2 DEF AdjustClock, RunsRemembered, TypeOK, ExpiresAt, AgentClock, Lapses
    <2>. QED
      BY <2>1, <2>2
  <1>9. ASSUME NEW d \in Command, LockServer(d) \/ CommitRequest(d) \/ SkipCommand(d)
        PROVE  RunsRemembered'
    BY <1>9, <1>1 DEF LockServer, CommitRequest, SkipCommand
  <1>10. ASSUME CredentialStep \/ ExpireStale \/ PurgeOld \/ PollStep \/ ReportStep \/ BatchDone
         PROVE  RunsRemembered'
    BY <1>10, <1>1 DEF CredentialStep, Revoke, Enroll, SwitchToLocal, ExpireStale, PurgeOld,
                       PollStep, StartPoll, Claim, ReceiveReply, PollFails, BatchDone,
                       ReportStep, SendResult, AttemptFails, HandleReport, LoseReport
  <1>11. CASE UNCHANGED vars
    BY <1>11, <1>1
  <1>. QED
    BY <1>2, <1>3, <1>4, <1>5, <1>6, <1>7, <1>8, <1>9, <1>10, <1>11
       DEF Next, RequestStep, RunStep, FaultStep

\* A result is remembered once the game gave it, and a report repeats what is remembered.
LEMMA ResultsFromGameStep == IInv /\ [Next]_vars => ResultsFromGame'
  <1>. SUFFICES ASSUME IInv, [Next]_vars
                PROVE  ResultsFromGame'
    OBVIOUS
  <1>. USE DEF IInv
  <1>1. ASSUME pc' = "running"
        PROVE  status'[cur'] # "none"
    <2>1. CASE pc = "running" /\ cur' = cur
      BY <2>1, RowsStay DEF InHand, ResultsFromGame
    <2>2. ASSUME NEW c \in Command, StartRun(c)
          PROVE  status'[cur'] # "none"
      BY <2>2 DEF StartRun, NextInBatch, FirstIn, CommittedFirst
    <2>3. ASSUME RequestStep \/ CredentialStep \/ Tick \/ ExpireStale \/ PurgeOld
          PROVE  UNCHANGED <<pc, cur>>
      BY <2>3 DEF RequestStep, BeginRequest, LockServer, AbandonRequest, CommitRequest,
                  CredentialStep, Revoke, Enroll, SwitchToLocal, Tick, ExpireStale, PurgeOld
    <2>4. ASSUME PollStep \/ FaultStep
          PROVE  UNCHANGED <<pc, cur>> \/ pc' # "running"
      BY <2>4 DEF PollStep, StartPoll, Claim, ReceiveReply, PollFails, FaultStep, Restart, AdjustClock
    <2>5. ASSUME RunStep
          PROVE  UNCHANGED <<pc, cur>> \/ pc' # "running" \/ \E c \in Command : StartRun(c)
      BY <2>5 DEF RunStep, SkipCommand, RepeatResult, FinishRun, BatchDone
    <2>6. ASSUME ReportStep
          PROVE  UNCHANGED <<pc, cur>> \/ pc' # "running"
      BY <2>6 DEF ReportStep, SendResult, AttemptFails, HandleReport, LoseReport, Leave
    <2>. QED
      BY <1>1, <2>1, <2>2, <2>3, <2>4, <2>5, <2>6 DEF Next
  <1>2. ASSUME NEW c \in Command
        PROVE  /\ outcomes[c] \subseteq outcomes'[c]
               /\ ledger'[c] \in Result => ledger'[c] \in outcomes'[c]
    <2>. USE DEF TypeOK, ResultsFromGame
    <2>1. ASSUME NEW result \in Result, NEW applied \in BOOLEAN, FinishRun(result, applied)
          PROVE  /\ outcomes[c] \subseteq outcomes'[c]
                 /\ ledger'[c] \in Result => ledger'[c] \in outcomes'[c]
      BY <2>1 DEF FinishRun, InHand
    <2>2. ASSUME NEW d \in Command, StartRun(d) \/ RepeatResult(d)
          PROVE  outcomes' = outcomes /\ ledger'[c] \in {"absent", "running", ledger[c]}
      BY <2>2 DEF StartRun, RepeatResult, LedgerBegin
    <2>3. ASSUME NEW k \in Key, Restart(k)
          PROVE  outcomes' = outcomes /\ ledger'[c] = "absent"
      BY <2>3 DEF Restart
    <2>4. ASSUME RequestStep \/ CredentialStep \/ Tick \/ ExpireStale \/ PurgeOld \/ PollStep
          PROVE  UNCHANGED <<outcomes, ledger>>
      BY <2>4 DEF RequestStep, BeginRequest, LockServer, AbandonRequest, CommitRequest,
                  CredentialStep, Revoke, Enroll, SwitchToLocal, Tick, ExpireStale, PurgeOld,
                  PollStep, StartPoll, Claim, ReceiveReply, PollFails
    <2>5. ASSUME RunStep
          PROVE  \/ UNCHANGED <<outcomes, ledger>>
                 \/ \E d \in Command : StartRun(d) \/ RepeatResult(d)
                 \/ \E result \in Result, applied \in BOOLEAN : FinishRun(result, applied)
      BY <2>5 DEF RunStep, SkipCommand, BatchDone
    <2>6. ASSUME ReportStep
          PROVE  UNCHANGED <<outcomes, ledger>>
      BY <2>6 DEF ReportStep, SendResult, AttemptFails, HandleReport, LoseReport
    <2>7. ASSUME FaultStep
          PROVE  UNCHANGED <<outcomes, ledger>> \/ \E k \in Key : Restart(k)
      BY <2>7 DEF FaultStep, AdjustClock
    <2>8. "absent" \notin Result /\ "running" \notin Result
      BY DEF Result
    <2>. QED
      BY <2>1, <2>2, <2>3, <2>4, <2>5, <2>6, <2>7, <2>8 DEF Next
  <1>3. ASSUME NEW m \in inbox'
        PROVE  m.result \in outcomes'[m.id]
    <2>1. CASE m \in inbox
      <3>1. m.id \in Command /\ m.result \in outcomes[m.id]
        BY <2>1 DEF TypeOK, Report, ResultsFromGame
      <3>. QED
        BY <3>1, <1>2
    <2>2. CASE SendResult /\ m \notin inbox
      <3>1. m.id = cur /\ m.result = ledger[cur]
        BY <2>2 DEF SendResult
      <3>2. cur \in Command /\ ledger[cur] \in outcomes[cur]
        BY <2>2 DEF SendResult, InHand, ResultsFromGame
      <3>. QED
        BY <3>1, <3>2, <1>2
    <2>3. ASSUME ~SendResult
          PROVE  inbox' \subseteq inbox
      BY <2>3 DEF Next, RequestStep, BeginRequest, LockServer, AbandonRequest, CommitRequest,
                  CredentialStep, Revoke, Enroll, SwitchToLocal, Tick, ExpireStale, PurgeOld,
                  PollStep, StartPoll, Claim, ReceiveReply, PollFails,
                  RunStep, SkipCommand, RepeatResult, StartRun, FinishRun, BatchDone,
                  ReportStep, AttemptFails, HandleReport, LoseReport, FaultStep, Restart, AdjustClock
    <2>. QED
      BY <2>1, <2>2, <2>3
  <1>. QED
    BY <1>1, <1>2, <1>3 DEF ResultsFromGame

LEMMA IInvInit == Init => IInv
  <1>. SUFFICES ASSUME Init
                PROVE  IInv
    OBVIOUS
  <1>1. TypeOK /\ InHand
    BY TypeInit
  <1>2. CommittedFirst /\ RunsRemembered /\ ResultsFromGame
    BY DEF Init, NoReply, CommittedFirst, RunsRemembered, Lapses, ResultsFromGame, Result
  <1>. QED
    BY <1>1, <1>2 DEF IInv

LEMMA IInvStep == IInv /\ [Next]_vars => IInv'
  <1>1. IInv /\ [Next]_vars => TypeOK' /\ InHand'
    BY TypeStep, InHandStep DEF IInv
  <1>2. IInv /\ [Next]_vars => CommittedFirst'
    BY CommittedFirstStep DEF IInv
  <1>. QED
    BY <1>1, <1>2, RunsRememberedStep, ResultsFromGameStep DEF IInv

LEMMA Invariance == Spec => []IInv
  BY IInvInit, IInvStep, PTL DEF Spec

\* However answers are lost, reports are late and commands are delivered again, the agent runs a
\* command again only after a restart, a clock set back or an eviction made it forget the last run.
THEOREM RunsBounded == Spec => []RunsWithinForgetting
  <1>1. IInv => RunsWithinForgetting
    BY DEF IInv, TypeOK, RunsRemembered, RunsWithinForgetting, Lapses
  <1>. QED
    BY <1>1, Invariance, PTL

-----------------------------------------------------------------------------
(* The promise.                                                            *)

\* The steps of the promise, one by one.
LEMMA PromiseNext ==
    /\ \A c \in Command : Life!Ask(c) => Life!Next
    /\ \A c \in Command, r \in Result : Life!Run(c, r) \/ Life!Conclude(c, r) => Life!Next
    /\ \A S \in SUBSET Command : Life!Expire(S) \/ Life!Forget(S) => Life!Next
  BY DEF Life!Next

\* Every step of the protocol is a step of the promise, or one the promise does not see.
LEMMA PromiseStep == IInv /\ [Next]_vars => [Life!Next]_(Life!vars)
  <1>. SUFFICES ASSUME IInv, [Next]_vars
                PROVE  [Life!Next]_(Life!vars)
    OBVIOUS
  <1>. USE DEF IInv, TypeOK, LifeState, Life!vars
  <1>1. ASSUME NEW c \in Command, CommitRequest(c)
        PROVE  Life!Ask(c)
    BY <1>1 DEF CommitRequest, CommittedFirst, Life!Ask, Open
  <1>2. CASE SwitchToLocal
    <2>1. PICK S \in SUBSET Command : S = OpenRows
      BY DEF OpenRows
    <2>2. Life!Expire(S)
      BY <1>2, <2>1 DEF SwitchToLocal, Life!Expire, OpenRows, Open
    <2>. QED
      BY <2>2, PromiseNext
  <1>3. CASE ExpireStale
    <2>1. PICK S \in SUBSET Command : S = Stale
      BY DEF Stale, OpenRows
    <2>2. Life!Expire(S)
      BY <1>3, <2>1 DEF ExpireStale, Life!Expire, Stale, OpenRows, Open
    <2>. QED
      BY <2>2, PromiseNext
  <1>4. CASE PurgeOld
    <2>1. PICK S \in SUBSET Command :
                 S = {c \in Command : status[c] \in Ended /\ created[c] + Retention < now}
      OBVIOUS
    <2>2. Life!Forget(S)
      BY <1>4, <2>1 DEF PurgeOld, Life!Forget, Life!Ended, Ended, Open
    <2>. QED
      BY <2>2, PromiseNext
  <1>5. CASE Claim
    BY <1>5 DEF Claim, Live, OpenRows, Open
  <1>6. ASSUME NEW result \in Result, NEW applied \in BOOLEAN, FinishRun(result, applied)
        PROVE  Life!Run(cur, result) /\ cur \in Command
    BY <1>6 DEF FinishRun, InHand, ResultsFromGame, Life!Run, Open
  <1>7. ASSUME NEW m \in inbox, NEW heard \in BOOLEAN, HandleReport(m, heard)
        PROVE  [Life!Next]_(Life!vars)
    <2>1. m.id \in Command /\ m.result \in Result /\ m.result \in outcomes[m.id]
      BY DEF Report, ResultsFromGame
    <2>2. outcomes' = outcomes
      BY <1>7 DEF HandleReport
    <2>3. CASE Complete(m) /\ m.id \in Live(now)
      <3>1. Life!Conclude(m.id, m.result)
        BY <2>1, <2>2, <2>3 DEF Complete, Live, OpenRows, Open, Life!Conclude, Life!Answer
      <3>. QED
        BY <2>1, <3>1, PromiseNext
    <2>4. CASE Complete(m) /\ m.id \in Stale
      <3>1. Life!Expire({m.id})
        BY <2>1, <2>2, <2>4 DEF Complete, Stale, OpenRows, Open, Life!Expire
      <3>. QED
        BY <2>1, <3>1, PromiseNext
    <2>5. CASE Complete(m) /\ m.id \notin Live(now) \cup Stale
      BY <2>1, <2>2, <2>5 DEF Complete
    <2>6. CASE UNCHANGED status
      BY <2>2, <2>6
    <2>. QED
      BY <1>7, <2>3, <2>4, <2>5, <2>6 DEF HandleReport
  <1>8. CASE UNCHANGED <<status, outcomes>>
    BY <1>8
  <1>9. ASSUME NEW c \in Command, BeginRequest(c) \/ LockServer(c) \/ AbandonRequest(c)
        PROVE  UNCHANGED <<status, outcomes>>
    BY <1>9 DEF BeginRequest, LockServer, AbandonRequest
  <1>10. ASSUME Revoke \/ Enroll \/ Tick \/ StartPoll \/ ReceiveReply \/ PollFails
         PROVE  UNCHANGED <<status, outcomes>>
    BY <1>10 DEF Revoke, Enroll, Tick, StartPoll, ReceiveReply, PollFails
  <1>11. ASSUME NEW c \in Command, SkipCommand(c) \/ RepeatResult(c) \/ StartRun(c)
         PROVE  UNCHANGED <<status, outcomes>>
    BY <1>11 DEF SkipCommand, RepeatResult, StartRun
  <1>12. ASSUME BatchDone \/ SendResult \/ AttemptFails \/ FaultStep
         PROVE  UNCHANGED <<status, outcomes>>
    BY <1>12 DEF BatchDone, SendResult, AttemptFails, FaultStep, Restart, AdjustClock
  <1>13. ASSUME NEW m \in inbox, LoseReport(m)
         PROVE  UNCHANGED <<status, outcomes>>
    BY <1>13 DEF LoseReport
  <1>. QED
    BY <1>1, <1>2, <1>3, <1>4, <1>5, <1>6, <1>7, <1>8, <1>9, <1>10, <1>11, <1>12, <1>13,
       PromiseNext DEF Next, RequestStep, CredentialStep, PollStep, RunStep, ReportStep

\* The protocol keeps its promise: a command is asked for once and ends once, and it is said to
\* have succeeded or failed only with a result the agent got from the game.
THEOREM PromiseKept == Spec => KeepsPromise
  <1>1. Init => Life!Init
    BY DEF Init, Life!Init, LifeState, Open
  <1>. QED
    BY <1>1, PromiseStep, Invariance, PTL DEF Spec, KeepsPromise, Life!Spec

-----------------------------------------------------------------------------
(* The lock of the server's row: what a request checked under it still     *)
(* holds when it commits.                                                  *)

LockHeld ==
    /\ \A c \in Command : request[c] = "locked" => lock = c
    /\ \A c \in Command : request[c] # "idle" => created[c] <= now

CheckedUnderLock ==
    \A c \in Command : request[c] = "locked" =>
        kind = "agent" /\ Cardinality(Live(created[c])) < MaxOpen

LInv == IInv /\ LockHeld /\ CheckedUnderLock /\ OpenWithinCap /\ NothingWaitsOnLocal

\* Only a commit opens a command, and the stamp of an open one is fixed.
LEMMA OpenOnlyByCommit ==
    ASSUME IInv, [Next]_vars, ~\E d \in Command : CommitRequest(d)
    PROVE  /\ OpenRows' \subseteq OpenRows
           /\ \A c \in OpenRows' : created'[c] = created[c]
  <1>. SUFFICES ASSUME NEW c \in Command, status'[c] \in Open
                PROVE  status[c] \in Open /\ created'[c] = created[c]
    BY DEF OpenRows
  <1>. USE DEF IInv, TypeOK, Open
  <1>1. ASSUME NEW d \in Command, BeginRequest(d) \/ LockServer(d) \/ AbandonRequest(d)
        PROVE  status[c] \in Open /\ created'[c] = created[c]
    BY <1>1 DEF BeginRequest, LockServer, AbandonRequest, CommittedFirst
  <1>2. ASSUME CredentialStep \/ Tick \/ ExpireStale \/ PurgeOld
        PROVE  status[c] \in Open /\ created'[c] = created[c]
    BY <1>2 DEF CredentialStep, Revoke, Enroll, SwitchToLocal, Tick, ExpireStale, PurgeOld
  <1>3. ASSUME PollStep
        PROVE  status[c] \in Open /\ created'[c] = created[c]
    BY <1>3 DEF PollStep, StartPoll, Claim, ReceiveReply, PollFails, Live, OpenRows
  <1>4. ASSUME NEW m \in inbox, NEW heard \in BOOLEAN, HandleReport(m, heard)
        PROVE  status[c] \in Open /\ created'[c] = created[c]
    BY <1>4 DEF HandleReport, Complete, Report
  <1>5. ASSUME RunStep \/ SendResult \/ AttemptFails \/ FaultStep
        PROVE  status[c] \in Open /\ created'[c] = created[c]
    BY <1>5 DEF RunStep, SkipCommand, RepeatResult, StartRun, FinishRun, BatchDone,
                SendResult, AttemptFails, FaultStep, Restart, AdjustClock
  <1>6. ASSUME NEW m \in inbox, LoseReport(m)
        PROVE  status[c] \in Open /\ created'[c] = created[c]
    BY <1>6 DEF LoseReport
  <1>7. CASE UNCHANGED vars
    BY <1>7
  <1>. QED
    BY <1>1, <1>2, <1>3, <1>4, <1>5, <1>6, <1>7 DEF Next, RequestStep, ReportStep

\* Steps that change nothing of requests, lock and kind.
LEMMA LockUntouched ==
    ASSUME [Next]_vars, ~RequestStep, ~CredentialStep
    PROVE  UNCHANGED <<request, lock, kind, created>> /\ now' \in {now, now + 1}
  BY DEF Next, Tick, ExpireStale, PurgeOld, PollStep, StartPoll, Claim, ReceiveReply, PollFails,
         RunStep, SkipCommand, RepeatResult, StartRun, FinishRun, BatchDone,
         ReportStep, SendResult, AttemptFails, HandleReport, LoseReport,
         FaultStep, Restart, AdjustClock

LEMMA LockHeldStep == TypeOK /\ LockHeld /\ [Next]_vars => LockHeld'
  <1>. SUFFICES ASSUME TypeOK, LockHeld, [Next]_vars
                PROVE  LockHeld'
    OBVIOUS
  <1>. USE DEF TypeOK, LockHeld
  <1>1. ASSUME NEW d \in Command, BeginRequest(d)
        PROVE  LockHeld'
    BY <1>1 DEF BeginRequest
  <1>2. ASSUME NEW d \in Command, LockServer(d)
        PROVE  LockHeld'
    BY <1>2 DEF LockServer
  <1>3. ASSUME NEW d \in Command, AbandonRequest(d)
        PROVE  LockHeld'
    BY <1>3 DEF AbandonRequest
  <1>4. ASSUME NEW d \in Command, CommitRequest(d)
        PROVE  LockHeld'
    BY <1>4 DEF CommitRequest
  <1>5. CASE CredentialStep
    BY <1>5 DEF CredentialStep, Revoke, Enroll, SwitchToLocal
  <1>6. CASE ~RequestStep /\ ~CredentialStep
    BY <1>6, LockUntouched
  <1>. QED
    BY <1>1, <1>2, <1>3, <1>4, <1>5, <1>6 DEF RequestStep

\* While the lock is held nobody else opens a command, and the credential stays the agent's.
LEMMA CheckedStep == LInv /\ [Next]_vars => CheckedUnderLock'
  <1>. SUFFICES ASSUME LInv, [Next]_vars, NEW c \in Command, request'[c] = "locked"
                PROVE  kind' = "agent" /\ Cardinality(Live(created[c])') < MaxOpen
    BY DEF CheckedUnderLock
  <1>. USE DEF LInv, IInv, TypeOK
  <1>1. ~\E d \in Command : CommitRequest(d)
    BY ZenonT(60) DEF CommitRequest, LockHeld
  <1>2. created'[c] = created[c]
    BY <1>1, LockUntouched DEF RequestStep, CredentialStep, BeginRequest, LockServer, AbandonRequest,
                               Revoke, Enroll, SwitchToLocal
  <1>3. kind' = "agent" /\ Cardinality(Live(created[c])) < MaxOpen
    <2>1. CASE request[c] = "locked"
      BY <1>1, <2>1, LockUntouched DEF CheckedUnderLock, LockHeld, RequestStep, BeginRequest, LockServer,
                               AbandonRequest, CredentialStep, Revoke, Enroll, SwitchToLocal
    <2>2. CASE request[c] # "locked"
      BY <1>1, <2>2, LockUntouched DEF RequestStep, BeginRequest, LockServer, AbandonRequest,
                                       CredentialStep, Revoke, Enroll, SwitchToLocal
    <2>. QED
      BY <2>1, <2>2
  <1>4. Live(created[c])' \subseteq Live(created[c])
    BY <1>1, <1>2, OpenOnlyByCommit DEF Live, ExpiresAt
  <1>5. Live(created[c]) \in SUBSET Command
    BY DEF Live, OpenRows
  <1>6. /\ Cardinality(Live(created[c])') <= Cardinality(Live(created[c]))
        /\ Cardinality(Live(created[c])') \in Nat /\ Cardinality(Live(created[c])) \in Nat
    BY <1>4, <1>5, SmallerCount
  <1>. QED
    BY <1>3, <1>6

\* A live command was live before, unless it was committed just now.
LEMMA LiveShrinks ==
    ASSUME IInv, [Next]_vars, ~\E d \in Command : CommitRequest(d), NEW c \in Live(now)'
    PROVE  c \in Live(now)
  <1>. USE DEF IInv
  <1>1. now' \in {now, now + 1}
    BY LockUntouched DEF RequestStep, CredentialStep, BeginRequest, LockServer, AbandonRequest,
                         CommitRequest, Revoke, Enroll, SwitchToLocal
  <1>2. c \in OpenRows' /\ created'[c] + CommandTtl > now'
    BY DEF Live, ExpiresAt
  <1>3. c \in OpenRows /\ created'[c] = created[c] /\ c \in Command
    BY <1>2, OpenOnlyByCommit DEF OpenRows
  <1>. QED
    BY <1>1, <1>2, <1>3 DEF Live, ExpiresAt, TypeOK

\* A commit adds one command to those its transaction counted.
LEMMA CapStep == LInv /\ [Next]_vars => OpenWithinCap'
  <1>. SUFFICES ASSUME LInv, [Next]_vars
                PROVE  Cardinality(Live(now)') <= MaxOpen
    BY DEF OpenWithinCap
  <1>. USE DEF LInv, IInv
  <1>1. Live(now) \in SUBSET Command /\ Cardinality(Live(now)) <= MaxOpen
    BY DEF Live, OpenRows, OpenWithinCap
  <1>2. CASE ~\E d \in Command : CommitRequest(d)
    <2>1. Live(now)' \subseteq Live(now)
      BY <1>2, LiveShrinks
    <2>. QED
      BY <1>1, <2>1, SmallerCount
  <1>3. ASSUME NEW d \in Command, CommitRequest(d)
        PROVE  Cardinality(Live(now)') <= MaxOpen
    <2>1. Cardinality(Live(created[d])) < MaxOpen /\ created[d] <= now
      BY <1>3 DEF CommitRequest, CheckedUnderLock, LockHeld
    <2>2. ASSUME NEW c \in Live(now)', c # d
          PROVE  c \in Live(created[d])
      <3>1. c \in OpenRows' /\ created'[c] + CommandTtl > now'
        BY <2>2 DEF Live, ExpiresAt
      <3>2. c \in Command /\ c \in OpenRows /\ created' = created /\ now' = now
        BY <1>3, <2>2, <3>1 DEF OpenRows, CommitRequest, TypeOK
      <3>. QED
        BY <2>1, <3>1, <3>2 DEF Live, ExpiresAt, TypeOK
    <2>3. Live(created[d]) \in SUBSET Command
      BY DEF Live, OpenRows
    <2>4. /\ Cardinality(Live(created[d]) \cup {d}) <= Cardinality(Live(created[d])) + 1
          /\ Live(created[d]) \cup {d} \in SUBSET Command /\ Cardinality(Live(created[d])) \in Nat
      BY <2>3, OneMore, CountIsNat
    <2>5. Live(now)' \subseteq Live(created[d]) \cup {d}
      BY <2>2
    <2>6. /\ Cardinality(Live(now)') <= Cardinality(Live(created[d]) \cup {d})
          /\ Cardinality(Live(created[d]) \cup {d}) \in Nat /\ Cardinality(Live(now)') \in Nat
      BY <2>4, <2>5, SmallerCount
    <2>. QED
      BY <2>1, <2>4, <2>6
  <1>. QED
    BY <1>2, <1>3

\* A request that commits saw an agent server under the lock, so the switch came before it, and
\* ended what it could see, or comes after it, and ends this command too.
LEMMA LocalStep == LInv /\ [Next]_vars => NothingWaitsOnLocal'
  <1>. SUFFICES ASSUME LInv, [Next]_vars, kind' = "local"
                PROVE  OpenRows' = {}
    BY DEF NothingWaitsOnLocal
  <1>. USE DEF LInv, IInv
  <1>1. CASE SwitchToLocal
    BY <1>1 DEF SwitchToLocal, OpenRows, Open, TypeOK
  <1>2. CASE ~SwitchToLocal
    <2>1. kind = "local"
      BY <1>2, LockUntouched DEF RequestStep, CredentialStep, BeginRequest, LockServer, AbandonRequest,
                           CommitRequest, Revoke, Enroll
    <2>2. ~\E d \in Command : CommitRequest(d)
      BY <2>1 DEF CommitRequest, CheckedUnderLock
    <2>. QED
      BY <2>1, <2>2, OpenOnlyByCommit DEF NothingWaitsOnLocal
  <1>. QED
    BY <1>1, <1>2

LEMMA LockInvariance == Spec => []LInv
  <1>1. Init => LInv
    <2>1. ASSUME Init
          PROVE  OpenRows = {} /\ Live(now) = {}
      BY <2>1 DEF Init, Live, OpenRows, Open
    <2>. QED
      BY <2>1, IInvInit, FS_EmptySet
         DEF Init, LInv, LockHeld, CheckedUnderLock, OpenWithinCap, NothingWaitsOnLocal
  <1>2. LInv /\ [Next]_vars => LInv'
    BY IInvStep, LockHeldStep, CheckedStep, CapStep, LocalStep DEF LInv, IInv
  <1>. QED
    BY <1>1, <1>2, PTL DEF Spec

\* No interleaving of requests opens more commands than MAX_OPEN_COMMANDS: the count is taken
\* under the lock of the server's row (commandsService.ts, requestAutoPause).
THEOREM CapHolds == Spec => []OpenWithinCap
  BY LockInvariance, PTL DEF LInv

\* Whenever a request and the switch to local overlap, no command waits for an agent afterwards.
THEOREM LocalWaitsForNothing == Spec => []NothingWaitsOnLocal
  BY LockInvariance, PTL DEF LInv

-----------------------------------------------------------------------------
(* A confirmed change is not undone: while the agent forgets nothing, what *)
(* it runs next is newer than what it ran before.                          *)

\* The agent's clock is not so far behind the database's that a command just made looks further
\* from its expiry than any command may be (MAX_COMMAND_LIFETIME_MS, commandRunner.ts).
InSight == \A s \in Skews : CommandTtl - s <= MaxLifetime

Calm == restarts + setBacks + evictions = 0

\* d was created after c, or committed after it.
Newer(c, d) == Before(c, d) \/ serial[d] > serial[c]

\* The commands a poll has claimed and the runner has not come to.
Hand == batch \cup reply.commands

\* The commands the agent may still run for the first time.
MayRun(c) ==
    /\ runs[c] = 0 /\ serial[c] > 0
    /\ ExpiresAt(c) > AgentClock
    /\ c \in Hand \cup Live(now)

Serials ==
    /\ \A c \in Command : serial[c] <= Cardinality({d \in Command : serial[d] > 0})
    /\ \A c \in Command : status[c] # "none" <=> serial[c] > 0

Phases ==
    /\ reply.commands # {} => pc = "polling"
    /\ pc \in {"idle", "polling"} => batch = {}

\* Whatever is known of a run stems from a run.
Ran ==
    /\ \A c \in Command : ledger[c] # "absent" \/ outcomes[c] # {} => runs[c] > 0
    /\ pc = "running" => runs[cur] > 0
    /\ game \in Command => runs[game] > 0
    /\ \A c \in Command : status[c] = "succeeded" => "ok" \in outcomes[c]

\* What may still run is newer than all that ran, and what is not yet claimed is newer than
\* what is in the agent's hands: one poll claims every live command.
InOrder ==
    \A c, d \in Command : MayRun(d) =>
        /\ runs[c] > 0 => Newer(c, d)
        /\ c \in Hand /\ d \notin Hand => Newer(c, d)

RunsInOrder == pc = "running" => \A c \in Command : runs[c] > 0 /\ c # cur => Newer(c, cur)

GameKept ==
    \A c \in Command : "ok" \in outcomes[c] => game = c \/ (game \in Command /\ Newer(c, game))

OInv == LInv /\ Serials /\ Phases /\ Ran /\ (Calm => InOrder /\ RunsInOrder /\ GameKept)

\* Only a commit gives a serial.
LEMMA SerialByCommit ==
    ASSUME [Next]_vars, ~\E d \in Command : CommitRequest(d)
    PROVE  serial' = serial
  BY DEF Next, RequestStep, BeginRequest, LockServer, AbandonRequest,
         CredentialStep, Revoke, Enroll, SwitchToLocal, Tick, ExpireStale, PurgeOld,
         PollStep, StartPoll, Claim, ReceiveReply, PollFails,
         RunStep, SkipCommand, RepeatResult, StartRun, FinishRun, BatchDone,
         ReportStep, SendResult, AttemptFails, HandleReport, LoseReport,
         FaultStep, Restart, AdjustClock

\* The stamps of a committed command are fixed.
LEMMA StampsFixed ==
    ASSUME OInv, [Next]_vars, NEW c \in Command, serial[c] > 0
    PROVE  created'[c] = created[c] /\ serial'[c] = serial[c]
  <1>. USE DEF OInv, LInv, IInv, TypeOK
  <1>1. status[c] # "none" /\ request[c] = "done"
    BY DEF Serials, CommittedFirst
  <1>2. ASSUME NEW d \in Command, BeginRequest(d) \/ AbandonRequest(d) \/ CommitRequest(d)
        PROVE  created'[c] = created[c] /\ serial'[c] = serial[c]
    BY <1>1, <1>2 DEF BeginRequest, AbandonRequest, CommitRequest
  <1>3. ASSUME NEW d \in Command, LockServer(d)
        PROVE  created' = created /\ serial' = serial
    BY <1>3 DEF LockServer
  <1>4. CASE CredentialStep
    BY <1>4 DEF CredentialStep, Revoke, Enroll, SwitchToLocal
  <1>5. CASE ~RequestStep /\ ~CredentialStep
    <2>1. created' = created
      BY <1>5, LockUntouched
    <2>2. serial' = serial
      BY <1>5, SerialByCommit DEF RequestStep
    <2>. QED
      BY <2>1, <2>2
  <1>. QED
    BY <1>2, <1>3, <1>4, <1>5 DEF RequestStep

LEMMA NewerStays ==
    ASSUME OInv, [Next]_vars, NEW c \in Command, NEW d \in Command,
           serial[c] > 0, serial[d] > 0, Newer(c, d)
    PROVE  Newer(c, d)'
  BY StampsFixed DEF Newer, Before

\* Without a lapse the agent's clock only advances.
LEMMA ClockAdvances ==
    ASSUME TypeOK, [Next]_vars, Calm'
    PROVE  Calm /\ AgentClock' >= AgentClock /\ ~\E k \in Key : Restart(k)
  <1>. USE DEF TypeOK, Calm, AgentClock
  <1>1. ~\E k \in Key : Restart(k)
    BY DEF Restart
  <1>2. ASSUME NEW s \in Skews, AdjustClock(s)
        PROVE  Calm /\ AgentClock' >= AgentClock
    BY <1>2 DEF AdjustClock
  <1>3. ASSUME NEW c \in Command, StartRun(c)
        PROVE  Calm /\ AgentClock' >= AgentClock
    BY <1>3, EvictsAtMostOne DEF StartRun
  <1>4. ASSUME Tick
        PROVE  Calm /\ AgentClock' >= AgentClock
    BY <1>4 DEF Tick
  <1>5. ASSUME RequestStep \/ CredentialStep \/ ExpireStale \/ PurgeOld
        PROVE  UNCHANGED <<now, skew, restarts, setBacks, evictions>>
    BY <1>5 DEF RequestStep, BeginRequest, LockServer, AbandonRequest, CommitRequest,
                CredentialStep, Revoke, Enroll, SwitchToLocal, ExpireStale, PurgeOld
  <1>6. ASSUME PollStep \/ ReportStep
        PROVE  UNCHANGED <<now, skew, restarts, setBacks, evictions>>
    BY <1>6 DEF PollStep, StartPoll, Claim, ReceiveReply, PollFails,
                ReportStep, SendResult, AttemptFails, HandleReport, LoseReport
  <1>7. ASSUME RunStep, ~\E c \in Command : StartRun(c)
        PROVE  UNCHANGED <<now, skew, restarts, setBacks, evictions>>
    BY <1>7 DEF RunStep, SkipCommand, RepeatResult, FinishRun, BatchDone
  <1>. QED
    BY <1>1, <1>2, <1>3, <1>4, <1>5, <1>6, <1>7 DEF Next, FaultStep

\* What reaches the agent was claimed while it was live.
LEMMA HandWasLive ==
    ASSUME IInv, [Next]_vars, NEW c \in Hand'
    PROVE  c \in Hand \cup Live(now)
  <1>. USE DEF Hand
  <1>1. ASSUME RequestStep \/ CredentialStep \/ Tick \/ ExpireStale \/ PurgeOld
        PROVE  UNCHANGED <<reply, batch>>
    BY <1>1 DEF RequestStep, BeginRequest, LockServer, AbandonRequest, CommitRequest,
                CredentialStep, Revoke, Enroll, SwitchToLocal, Tick, ExpireStale, PurgeOld
  <1>2. ASSUME PollStep
        PROVE  Hand' \subseteq Hand \cup Live(now)
    BY <1>2 DEF PollStep, StartPoll, Claim, ReceiveReply, PollFails, NoReply
  <1>3. ASSUME RunStep \/ FaultStep
        PROVE  Hand' \subseteq Hand
    BY <1>3 DEF RunStep, SkipCommand, RepeatResult, StartRun, FinishRun, BatchDone,
                FaultStep, Restart, AdjustClock, NoReply
  <1>4. ASSUME ReportStep
        PROVE  UNCHANGED <<reply, batch>>
    BY <1>4 DEF ReportStep, SendResult, AttemptFails, HandleReport, LoseReport
  <1>. QED
    BY <1>1, <1>2, <1>3, <1>4 DEF Next

\* What may run now could run before: only a commit adds to it.
LEMMA MayRunShrinks ==
    ASSUME OInv, [Next]_vars, Calm', ~\E d \in Command : CommitRequest(d),
           NEW c \in Command, MayRun(c)'
    PROVE  MayRun(c)
  <1>. USE DEF OInv, LInv, IInv
  <1>1. serial[c] > 0
    BY SerialByCommit DEF MayRun
  <1>2. runs[c] = 0
    BY RunsWereDelivered DEF MayRun, TypeOK
  <1>3. c \in Hand \cup Live(now)
    BY HandWasLive, LiveShrinks DEF MayRun
  <1>4. created'[c] = created[c] /\ AgentClock' >= AgentClock
    BY <1>1, StampsFixed, ClockAdvances
  <1>5. created[c] + CommandTtl > AgentClock'
    BY <1>4 DEF MayRun, ExpiresAt
  <1>6. AgentClock \in Int /\ AgentClock' \in Int
    <2>1. TypeOK'
      BY TypeStep
    <2>. QED
      BY <2>1 DEF AgentClock, TypeOK
  <1>7. ExpiresAt(c) > AgentClock
    BY <1>4, <1>5, <1>6 DEF ExpiresAt, TypeOK
  <1>. QED
    BY <1>1, <1>2, <1>3, <1>7 DEF MayRun

\* The agent drops a command unrun only when it is too old to run: a command that is new enough
\* is in sight of its expiry (commandRunner.ts, handle).
LEMMA SkippedTooOld ==
    ASSUME InSight, LInv, NEW c \in Command, SkipCommand(c)
    PROVE  ExpiresAt(c) <= AgentClock
  <1>. USE DEF LInv, IInv, TypeOK
  <1>1. created[c] <= now
    BY DEF SkipCommand, NextInBatch, FirstIn, CommittedFirst, LockHeld
  <1>2. CommandTtl - skew <= MaxLifetime
    BY DEF InSight
  <1>3. ExpiresAt(c) - AgentClock <= MaxLifetime
    BY <1>1, <1>2 DEF ExpiresAt, AgentClock
  <1>4. ExpiresAt(c) \in Int /\ AgentClock \in Int
    BY DEF ExpiresAt, AgentClock
  <1>. QED
    BY <1>3, <1>4 DEF SkipCommand, Fresh

\* Commands leave the agent's hands together, or run, or are too old to.
LEMMA HandKept ==
    ASSUME InSight, OInv, [Next]_vars, Calm', NEW c \in Hand', NEW d \in Command,
           MayRun(d)', MayRun(d), d \notin Hand'
    PROVE  c \in Hand /\ d \notin Hand
  <1>. USE DEF OInv, LInv, IInv, Hand
  <1>1. ASSUME RequestStep \/ CredentialStep \/ Tick \/ ExpireStale \/ PurgeOld \/ ReportStep
        PROVE  UNCHANGED <<reply, batch>>
    BY <1>1 DEF RequestStep, BeginRequest, LockServer, AbandonRequest, CommitRequest,
                CredentialStep, Revoke, Enroll, SwitchToLocal, Tick, ExpireStale, PurgeOld,
                ReportStep, SendResult, AttemptFails, HandleReport, LoseReport
  <1>2. CASE StartPoll
    BY <1>2 DEF StartPoll
  <1>3. CASE Claim
    <2>1. batch' = {}
      BY <1>3 DEF Claim, Phases
    <2>2. reply'.commands = Live(now) \/ reply'.commands = {}
      BY <1>3 DEF Claim
    <2>3. ~\E e \in Command : CommitRequest(e)
      <3>1. request' = request
        BY <1>3 DEF Claim
      <3>2. ASSUME NEW e \in Command, CommitRequest(e)
            PROVE  request[e] = "locked" /\ request'[e] = "done"
        BY <3>2 DEF CommitRequest, TypeOK
      <3>. QED
        BY <3>1, <3>2
    <2>4. d \in Live(now)
      BY <2>3, LiveShrinks DEF MayRun
    <2>. QED
      BY <2>1, <2>2, <2>4
  <1>4. CASE ReceiveReply
    BY <1>4 DEF ReceiveReply, Phases, NoReply
  <1>5. CASE PollFails
    BY <1>5 DEF PollFails, Phases, NoReply
  <1>6. ASSUME NEW e \in Command, SkipCommand(e)
        PROVE  c \in Hand /\ d \notin Hand
    <2>1. ~(ExpiresAt(e)' > AgentClock')
      <3>1. ExpiresAt(e)' = ExpiresAt(e) /\ AgentClock' = AgentClock
        BY <1>6 DEF SkipCommand, ExpiresAt, AgentClock
      <3>. QED
        BY <1>6, <3>1, SkippedTooOld DEF ExpiresAt, AgentClock, TypeOK
    <2>2. batch' = batch \ {e} /\ reply' = reply
      BY <1>6 DEF SkipCommand
    <2>3. d # e
      BY <2>1 DEF MayRun
    <2>. QED
      BY <2>2, <2>3
  <1>7. ASSUME NEW e \in Command, RepeatResult(e) \/ StartRun(e)
        PROVE  c \in Hand /\ d \notin Hand
    <2>1. batch' = batch \ {e} /\ reply' = reply
      BY <1>7 DEF RepeatResult, StartRun
    <2>2. runs'[e] > 0
      BY <1>7 DEF RepeatResult, StartRun, Remembered, Ran, TypeOK
    <2>3. d # e
      BY <2>2 DEF MayRun
    <2>. QED
      BY <2>1, <2>3
  <1>8. ASSUME BatchDone \/ \E result \in Result, applied \in BOOLEAN : FinishRun(result, applied)
        PROVE  UNCHANGED <<reply, batch>>
    BY <1>8 DEF BatchDone, FinishRun
  <1>9. ASSUME NEW s \in Skews, AdjustClock(s)
        PROVE  UNCHANGED <<reply, batch>>
    BY <1>9 DEF AdjustClock
  <1>10. ~\E k \in Key : Restart(k)
    BY ClockAdvances
  <1>11. CASE UNCHANGED <<reply, batch>>
    BY <1>11
  <1>12. CASE UNCHANGED vars
    BY <1>12
  <1>. QED
    BY <1>1, <1>2, <1>3, <1>4, <1>5, <1>6, <1>7, <1>8, <1>9, <1>10, <1>11, <1>12
       DEF Next, PollStep, RunStep, FaultStep

\* A run belongs to a committed command.
LEMMA RunsHaveSerial ==
    ASSUME OInv, NEW c \in Command, runs[c] > 0 \/ c \in Hand
    PROVE  serial[c] > 0
  BY DEF OInv, LInv, IInv, CommittedFirst, Serials, Hand

LEMMA SerialsStep == OInv /\ [Next]_vars => Serials'
  <1>. SUFFICES ASSUME OInv, [Next]_vars
                PROVE  Serials'
    OBVIOUS
  <1>. USE DEF OInv, LInv, IInv, TypeOK
  <1>1. ASSUME NEW c \in Command, CommitRequest(c)
        PROVE  Serials'
    <2>. DEFINE S == {d \in Command : serial[d] > 0}
                T == {d \in Command : serial'[d] > 0}
    <2>1. S \subseteq Command /\ IsFiniteSet(S) /\ Cardinality(S) \in Nat
      BY CountIsNat
    <2>2. c \notin S /\ status[c] = "none"
      BY <1>1 DEF CommitRequest, CommittedFirst, Serials
    <2>3. serial' = [serial EXCEPT ![c] = Cardinality(S) + 1]
      BY <1>1 DEF CommitRequest
    <2>4. T = S \cup {c}
      <3>. HIDE DEF S
      <3>1. \A d \in Command : serial'[d] = IF d = c THEN Cardinality(S) + 1 ELSE serial[d]
        BY <2>3
      <3>2. Cardinality(S) + 1 > 0
        BY <2>1
      <3>. QED
        BY <3>1, <3>2 DEF S
    <2>5. Cardinality(T) = Cardinality(S) + 1
      <3>. HIDE DEF S, T
      <3>. QED
        BY <2>1, <2>2, <2>4, FS_AddElement
    <2>6. \A d \in Command : serial'[d] <= Cardinality(T)
      <3>1. \A d \in Command : serial[d] <= Cardinality(S)
        BY DEF Serials
      <3>. HIDE DEF S, T
      <3>. QED
        BY <2>1, <2>3, <2>5, <3>1
    <2>7. \A d \in Command : status'[d] # "none" <=> serial'[d] > 0
      <3>1. \A d \in Command : status'[d] = IF d = c THEN "pending" ELSE status[d]
        BY <1>1 DEF CommitRequest
      <3>. HIDE DEF S, T
      <3>. QED
        BY <2>1, <2>3, <3>1 DEF Serials
    <2>. QED
      BY <2>6, <2>7 DEF Serials
  <1>2. CASE ~\E c \in Command : CommitRequest(c)
    <2>1. serial' = serial
      BY <1>2, SerialByCommit
    <2>2. ASSUME NEW c \in Command, status[c] = "none"
          PROVE  status'[c] = "none"
      <3>1. ASSUME NEW d \in Command, BeginRequest(d) \/ LockServer(d) \/ AbandonRequest(d)
            PROVE  status' = status
        BY <3>1 DEF BeginRequest, LockServer, AbandonRequest
      <3>2. ASSUME CredentialStep \/ Tick \/ ExpireStale \/ PurgeOld
            PROVE  status'[c] = "none"
        BY <3>2, <2>2 DEF CredentialStep, Revoke, Enroll, SwitchToLocal, Tick, ExpireStale, PurgeOld,
                          OpenRows, Stale, Open, Ended
      <3>3. ASSUME PollStep
            PROVE  status'[c] = "none"
        BY <3>3, <2>2 DEF PollStep, StartPoll, Claim, ReceiveReply, PollFails, Live, OpenRows, Open
      <3>4. ASSUME NEW m \in inbox, NEW heard \in BOOLEAN, HandleReport(m, heard)
            PROVE  status'[c] = "none"
        BY <3>4, <2>2 DEF HandleReport, Complete, Live, Stale, OpenRows, Open, Report
      <3>5. ASSUME RunStep \/ SendResult \/ AttemptFails \/ FaultStep
            PROVE  status' = status
        BY <3>5 DEF RunStep, SkipCommand, RepeatResult, StartRun, FinishRun, BatchDone,
                    SendResult, AttemptFails, FaultStep, Restart, AdjustClock
      <3>6. ASSUME NEW m \in inbox, LoseReport(m)
            PROVE  status' = status
        BY <3>6 DEF LoseReport
      <3>7. CASE UNCHANGED vars
        BY <2>2, <3>7
      <3>. QED
        BY <1>2, <2>2, <3>1, <3>2, <3>3, <3>4, <3>5, <3>6, <3>7 DEF Next, RequestStep, ReportStep
    <2>3. \A c \in Command : status[c] # "none" => status'[c] # "none"
      BY RowsStay
    <2>. QED
      BY <2>1, <2>2, <2>3 DEF Serials
  <1>. QED
    BY <1>1, <1>2

\* One poll at a time, and its answer is handled before the next.
LEMMA PhasesStep == Phases /\ [Next]_vars => Phases'
  <1>. SUFFICES ASSUME Phases, [Next]_vars
                PROVE  Phases'
    OBVIOUS
  <1>. USE DEF Phases
  <1>1. ASSUME RequestStep \/ CredentialStep \/ Tick \/ ExpireStale \/ PurgeOld
        PROVE  UNCHANGED <<reply, batch, pc>>
    BY <1>1 DEF RequestStep, BeginRequest, LockServer, AbandonRequest, CommitRequest,
                CredentialStep, Revoke, Enroll, SwitchToLocal, Tick, ExpireStale, PurgeOld
  <1>2. CASE PollStep
    BY <1>2 DEF PollStep, StartPoll, Claim, ReceiveReply, PollFails, NoReply
  <1>3. CASE RunStep
    BY <1>3 DEF RunStep, SkipCommand, RepeatResult, StartRun, FinishRun, BatchDone, NextInBatch
  <1>4. ASSUME ReportStep
        PROVE  /\ UNCHANGED <<reply, batch>>
               /\ pc' = pc \/ {pc, pc'} \cap {"idle", "polling"} = {}
    BY <1>4 DEF ReportStep, SendResult, AttemptFails, HandleReport, LoseReport, Leave
  <1>5. CASE FaultStep
    BY <1>5 DEF FaultStep, Restart, AdjustClock, NoReply
  <1>. QED
    BY <1>1, <1>2, <1>3, <1>4, <1>5 DEF Next

\* What is remembered of a run, or said of one, stems from a run.
LEMMA RanStep == IInv /\ Ran /\ [Next]_vars => Ran'
  <1>. SUFFICES ASSUME IInv, Ran, [Next]_vars
                PROVE  Ran'
    OBVIOUS
  <1>. USE DEF IInv, TypeOK
  <1>1. ASSUME NEW c \in Command
        PROVE  runs'[c] \in {runs[c], runs[c] + 1}
    BY RunsWereDelivered
  <1>2. ASSUME NEW c \in Command, ledger'[c] # "absent" \/ outcomes'[c] # {}
        PROVE  runs'[c] > 0
    <2>1. ASSUME NEW result \in Result, NEW applied \in BOOLEAN, FinishRun(result, applied)
          PROVE  runs'[c] > 0
      BY <2>1, <1>2 DEF FinishRun, InHand, Ran
    <2>2. ASSUME NEW d \in Command, RepeatResult(d) \/ StartRun(d)
          PROVE  runs'[c] > 0
      BY <2>2, <1>2, <1>1 DEF RepeatResult, StartRun, LedgerBegin, Ran
    <2>3. CASE outcomes' = outcomes /\ ledger'[c] \in {"absent", ledger[c]}
      BY <2>3, <1>1, <1>2 DEF Ran
    <2>4. ASSUME RequestStep \/ CredentialStep \/ Tick \/ ExpireStale \/ PurgeOld \/ PollStep
          PROVE  UNCHANGED <<outcomes, ledger>>
      BY <2>4 DEF RequestStep, BeginRequest, LockServer, AbandonRequest, CommitRequest,
                  CredentialStep, Revoke, Enroll, SwitchToLocal, Tick, ExpireStale, PurgeOld,
                  PollStep, StartPoll, Claim, ReceiveReply, PollFails
    <2>5. ASSUME ReportStep
          PROVE  UNCHANGED <<outcomes, ledger>>
      BY <2>5 DEF ReportStep, SendResult, AttemptFails, HandleReport, LoseReport
    <2>6. ASSUME FaultStep
          PROVE  outcomes' = outcomes /\ ledger'[c] \in {"absent", ledger[c]}
      BY <2>6 DEF FaultStep, Restart, AdjustClock
    <2>7. ASSUME BatchDone \/ \E d \in Command : SkipCommand(d)
          PROVE  UNCHANGED <<outcomes, ledger>>
      BY <2>7 DEF BatchDone, SkipCommand
    <2>. QED
      BY <2>1, <2>2, <2>3, <2>4, <2>5, <2>6, <2>7 DEF Next, RunStep
  <1>3. ASSUME pc' = "running"
        PROVE  runs'[cur'] > 0
    <2>1. CASE UNCHANGED <<pc, cur>>
      BY <1>1, <1>3, <2>1 DEF Ran, InHand
    <2>2. ASSUME NEW c \in Command, StartRun(c)
          PROVE  runs'[cur'] > 0
      BY <2>2 DEF StartRun
    <2>3. ASSUME RequestStep \/ CredentialStep \/ Tick \/ ExpireStale \/ PurgeOld
          PROVE  UNCHANGED <<pc, cur>>
      BY <2>3 DEF RequestStep, BeginRequest, LockServer, AbandonRequest, CommitRequest,
                  CredentialStep, Revoke, Enroll, SwitchToLocal, Tick, ExpireStale, PurgeOld
    <2>4. ASSUME PollStep \/ FaultStep
          PROVE  UNCHANGED <<pc, cur>> \/ pc' # "running"
      BY <2>4 DEF PollStep, StartPoll, Claim, ReceiveReply, PollFails, FaultStep, Restart, AdjustClock
    <2>5. ASSUME RunStep
          PROVE  UNCHANGED <<pc, cur>> \/ pc' # "running" \/ \E c \in Command : StartRun(c)
      BY <2>5 DEF RunStep, SkipCommand, RepeatResult, FinishRun, BatchDone
    <2>6. ASSUME ReportStep
          PROVE  UNCHANGED <<pc, cur>> \/ pc' # "running"
      BY <2>6 DEF ReportStep, SendResult, AttemptFails, HandleReport, LoseReport, Leave
    <2>. QED
      BY <1>3, <2>1, <2>2, <2>3, <2>4, <2>5, <2>6 DEF Next
  <1>4. ASSUME game' \in Command
        PROVE  runs'[game'] > 0
    <2>1. CASE game' = game
      BY <1>1, <1>4, <2>1 DEF Ran
    <2>2. ASSUME game' # game
          PROVE  pc = "running" /\ game' = cur
      BY <2>2 DEF Next, RequestStep, BeginRequest, LockServer, AbandonRequest, CommitRequest,
                  CredentialStep, Revoke, Enroll, SwitchToLocal, Tick, ExpireStale, PurgeOld,
                  PollStep, StartPoll, Claim, ReceiveReply, PollFails,
                  RunStep, SkipCommand, RepeatResult, StartRun, FinishRun, BatchDone,
                  ReportStep, SendResult, AttemptFails, HandleReport, LoseReport,
                  FaultStep, Restart, AdjustClock
    <2>. QED
      BY <1>1, <2>1, <2>2 DEF Ran, InHand
  <1>5. ASSUME NEW c \in Command, status'[c] = "succeeded"
        PROVE  "ok" \in outcomes'[c]
    <2>1. outcomes[c] \subseteq outcomes'[c]
      <3>1. ASSUME NEW result \in Result, NEW applied \in BOOLEAN, FinishRun(result, applied)
            PROVE  outcomes[c] \subseteq outcomes'[c]
        BY <3>1 DEF FinishRun
      <3>2. ASSUME ~\E result \in Result, applied \in BOOLEAN : FinishRun(result, applied)
            PROVE  outcomes' = outcomes
        BY <3>2 DEF Next, RequestStep, BeginRequest, LockServer, AbandonRequest, CommitRequest,
                    CredentialStep, Revoke, Enroll, SwitchToLocal, Tick, ExpireStale, PurgeOld,
                    PollStep, StartPoll, Claim, ReceiveReply, PollFails,
                    RunStep, SkipCommand, RepeatResult, StartRun, BatchDone,
                    ReportStep, SendResult, AttemptFails, HandleReport, LoseReport,
                    FaultStep, Restart, AdjustClock
      <3>. QED
        BY <3>1, <3>2
    <2>2. status[c] = "succeeded" \/ "ok" \in outcomes[c]
      <3>1. ASSUME RequestStep
            PROVE  status'[c] \in {status[c], "pending"}
        BY <3>1 DEF RequestStep, BeginRequest, LockServer, AbandonRequest, CommitRequest
      <3>2. ASSUME CredentialStep \/ Tick \/ ExpireStale \/ PurgeOld \/ PollStep
            PROVE  status'[c] \in {status[c], "expired", "purged", "sent"}
        BY <3>2 DEF CredentialStep, Revoke, Enroll, SwitchToLocal, Tick, ExpireStale, PurgeOld,
                    PollStep, StartPoll, Claim, ReceiveReply, PollFails
      <3>3. ASSUME NEW m \in inbox, NEW heard \in BOOLEAN, HandleReport(m, heard)
            PROVE  status[c] = "succeeded" \/ "ok" \in outcomes[c]
        <4>1. m.id \in Command /\ m.result \in outcomes[m.id]
          BY DEF Report, ResultsFromGame
        <4>. QED
          BY <3>3, <4>1, <1>5 DEF HandleReport, Complete
      <3>4. ASSUME RunStep \/ SendResult \/ AttemptFails \/ FaultStep
            PROVE  status' = status
        BY <3>4 DEF RunStep, SkipCommand, RepeatResult, StartRun, FinishRun, BatchDone,
                    SendResult, AttemptFails, FaultStep, Restart, AdjustClock
      <3>5. ASSUME NEW m \in inbox, LoseReport(m)
            PROVE  status' = status
        BY <3>5 DEF LoseReport
      <3>6. CASE UNCHANGED vars
        BY <1>5, <3>6
      <3>. QED
        BY <1>5, <3>1, <3>2, <3>3, <3>4, <3>5, <3>6 DEF Next, ReportStep
    <2>. QED
      BY <2>1, <2>2 DEF Ran
  <1>. QED
    BY <1>2, <1>3, <1>4, <1>5 DEF Ran

\* A commit comes after every commit before it.
LEMMA CommitIsNewest ==
    ASSUME OInv, NEW c \in Command, CommitRequest(c), NEW d \in Command, d # c
    PROVE  Newer(d, c)'
  <1>. USE DEF OInv, LInv, IInv, TypeOK
  <1>1. Cardinality({e \in Command : serial[e] > 0}) \in Nat
    BY CountIsNat
  <1>2. /\ serial'[c] = Cardinality({e \in Command : serial[e] > 0}) + 1
        /\ serial'[d] = serial[d]
    BY DEF CommitRequest
  <1>3. serial[d] <= Cardinality({e \in Command : serial[e] > 0})
    BY DEF Serials
  <1>. QED
    BY <1>1, <1>2, <1>3 DEF Newer

\* The command that is started is newer than all that ran, and older than all that may yet run.
LEMMA StartInOrder ==
    ASSUME OInv, Calm, NEW c \in Command, StartRun(c)
    PROVE  /\ MayRun(c)
           /\ \A d \in Command : MayRun(d) /\ d # c => Newer(c, d)
  <1>. USE DEF OInv, LInv, IInv, TypeOK
  <1>1. /\ c \in batch /\ Fresh(c) /\ c \notin Remembered
        /\ pc = "handling"
        /\ \A d \in batch \ {c} : Before(c, d)
    BY DEF StartRun, NextInBatch, FirstIn
  <1>2. Lapses = 0
    BY DEF Calm, Lapses
  <1>3. runs[c] = 0
    <2>1. ExpiresAt(c) \in Int /\ AgentClock \in Int
      BY DEF ExpiresAt, AgentClock
    <2>2. ledger[c] = "absent" /\ ~(ExpiresAt(c) <= AgentClock)
      BY <1>1, <2>1 DEF Remembered, Fresh
    <2>. QED
      BY <1>2, <2>2 DEF RunsRemembered
  <1>4. MayRun(c)
    BY <1>1, <1>3, RunsHaveSerial DEF MayRun, Hand, Fresh
  <1>5. ASSUME NEW d \in Command, MayRun(d), d # c
        PROVE  Newer(c, d)
    <2>1. reply.commands = {}
      BY <1>1 DEF Phases
    <2>2. CASE d \in batch
      BY <1>1, <1>5, <2>2 DEF Newer
    <2>3. CASE d \notin batch
      BY <1>1, <1>5, <2>1, <2>3 DEF InOrder, Hand
    <2>. QED
      BY <2>2, <2>3
  <1>. QED
    BY <1>4, <1>5

\* The agent gets commands in their order, and starts them in it.
LEMMA InOrderStep ==
    ASSUME InSight, OInv, [Next]_vars, Calm'
    PROVE  InOrder'
  <1>. USE DEF OInv, LInv, IInv
  <1>0. Calm
    BY ClockAdvances
  <1>1. ASSUME NEW c \in Command, NEW d \in Command, MayRun(d)', NEW e \in Command, CommitRequest(e)
        PROVE  runs'[c] > 0 \/ (c \in Hand' /\ d \notin Hand') => Newer(c, d)'
    <2>1. runs' = runs /\ Hand' = Hand /\ AgentClock' = AgentClock /\ status[e] = "none"
      BY <1>1 DEF CommitRequest, Hand, AgentClock, CommittedFirst
    <2>. SUFFICES ASSUME runs[c] > 0 \/ (c \in Hand /\ d \notin Hand)
                  PROVE  Newer(c, d)'
      BY <2>1
    <2>2. serial[c] > 0 /\ c # e
      BY <2>1, RunsHaveSerial DEF Serials
    <2>3. CASE d = e
      BY <1>1, <2>2, <2>3, CommitIsNewest
    <2>4. CASE d # e
      <3>1. d \in Live(now)' => d \in Live(now)
        BY <1>1, <2>4 DEF CommitRequest, Live, OpenRows, ExpiresAt, TypeOK
      <3>2. MayRun(d)
        BY <1>1, <2>1, <2>4, <3>1 DEF CommitRequest, MayRun, ExpiresAt, TypeOK
      <3>3. Newer(c, d) /\ serial[d] > 0
        BY <1>0, <3>2 DEF InOrder, MayRun
      <3>. QED
        BY <2>2, <3>3, NewerStays
    <2>. QED
      BY <2>3, <2>4
  <1>2. ASSUME NEW c \in Command, NEW d \in Command, MayRun(d)', ~\E e \in Command : CommitRequest(e)
        PROVE  /\ runs'[c] > 0 => Newer(c, d)'
               /\ c \in Hand' /\ d \notin Hand' => Newer(c, d)'
    <2>1. MayRun(d) /\ serial[d] > 0
      BY <1>0, <1>2, MayRunShrinks DEF MayRun
    <2>2. ASSUME runs'[c] > 0
          PROVE  Newer(c, d)'
      <3>1. CASE runs[c] > 0
        BY <1>0, <2>1, <3>1, RunsHaveSerial, NewerStays DEF InOrder
      <3>2. CASE StartRun(c)
        <4>1. runs'[c] # 0
          BY <3>2 DEF StartRun, TypeOK
        <4>2. Newer(c, d) /\ serial[c] > 0
          BY <1>0, <1>2, <2>1, <3>2, <4>1, StartInOrder DEF MayRun
        <4>. QED
          BY <2>1, <4>2, NewerStays
      <3>. QED
        BY <2>2, <3>1, <3>2, RunsWereDelivered DEF TypeOK
    <2>3. ASSUME c \in Hand', d \notin Hand'
          PROVE  Newer(c, d)'
      <3>1. c \in Hand /\ d \notin Hand
        BY <1>2, <2>1, <2>3, HandKept
      <3>. QED
        BY <1>0, <2>1, <3>1, RunsHaveSerial, NewerStays DEF InOrder
    <2>. QED
      BY <2>2, <2>3
  <1>. QED
    BY <1>1, <1>2 DEF InOrder

\* What runs now is newer than all that ran.
LEMMA RunsInOrderStep ==
    ASSUME OInv, [Next]_vars, Calm'
    PROVE  RunsInOrder'
  <1>. USE DEF OInv, LInv, IInv
  <1>0. Calm
    BY ClockAdvances
  <1>. SUFFICES ASSUME pc' = "running", NEW c \in Command, runs'[c] > 0, c # cur'
                PROVE  Newer(c, cur)'
    BY DEF RunsInOrder
  <1>1. ASSUME NEW d \in Command, StartRun(d)
        PROVE  Newer(c, cur)'
    <2>1. cur' = d /\ runs[c] > 0 /\ serial[c] > 0
      BY <1>1, RunsHaveSerial DEF StartRun, TypeOK
    <2>2. MayRun(d)
      BY <1>0, <1>1, StartInOrder
    <2>3. Newer(c, d)'
      BY <1>0, <2>1, <2>2, NewerStays DEF InOrder, MayRun
    <2>. QED
      BY <2>1, <2>3 DEF Newer, Before
  <1>2. CASE UNCHANGED <<pc, cur, runs>>
    <2>1. cur \in Command /\ runs[cur] > 0 /\ runs[c] > 0
      BY <1>2 DEF InHand, Ran
    <2>2. Newer(c, cur)
      BY <1>0, <1>2, <2>1 DEF RunsInOrder
    <2>3. PICK d \in Command : d = cur
      BY <2>1
    <2>4. Newer(c, d)'
      BY <2>1, <2>2, <2>3, RunsHaveSerial, NewerStays
    <2>. QED
      BY <1>2, <2>3, <2>4 DEF Newer, Before
  <1>3. ASSUME RequestStep \/ CredentialStep \/ Tick \/ ExpireStale \/ PurgeOld
        PROVE  UNCHANGED <<pc, cur, runs>>
    BY <1>3 DEF RequestStep, BeginRequest, LockServer, AbandonRequest, CommitRequest,
                CredentialStep, Revoke, Enroll, SwitchToLocal, Tick, ExpireStale, PurgeOld
  <1>4. ASSUME PollStep \/ FaultStep
        PROVE  UNCHANGED <<pc, cur, runs>> \/ pc' # "running"
    BY <1>4 DEF PollStep, StartPoll, Claim, ReceiveReply, PollFails, FaultStep, Restart, AdjustClock
  <1>5. ASSUME RunStep
        PROVE  UNCHANGED <<pc, cur, runs>> \/ pc' # "running" \/ \E d \in Command : StartRun(d)
    BY <1>5 DEF RunStep, SkipCommand, RepeatResult, FinishRun, BatchDone
  <1>6. ASSUME ReportStep
        PROVE  UNCHANGED <<pc, cur, runs>> \/ pc' # "running"
    BY <1>6 DEF ReportStep, SendResult, AttemptFails, HandleReport, LoseReport, Leave
  <1>7. CASE UNCHANGED vars
    BY <1>2, <1>7
  <1>. QED
    BY <1>1, <1>2, <1>3, <1>4, <1>5, <1>6, <1>7 DEF Next

\* A run that is applied covers nothing newer.
LEMMA GameKeptStep ==
    ASSUME OInv, [Next]_vars, Calm'
    PROVE  GameKept'
  <1>. USE DEF OInv, LInv, IInv
  <1>0. Calm /\ ~\E k \in Key : Restart(k)
    BY ClockAdvances
  <1>. SUFFICES ASSUME NEW c \in Command, "ok" \in outcomes'[c], game' # c
                PROVE  game' \in Command /\ Newer(c, game)'
    BY DEF GameKept
  <1>1. ASSUME NEW result \in Result, NEW applied \in BOOLEAN, FinishRun(result, applied)
        PROVE  game' \in Command /\ Newer(c, game)'
    <2>. PICK d \in Command : d = cur
      BY <1>1 DEF FinishRun, InHand
    <2>1. /\ result = "ok" => applied
          /\ game' = IF applied THEN d ELSE game
          /\ outcomes' = [outcomes EXCEPT ![d] = @ \cup {result}]
          /\ created' = created /\ serial' = serial /\ pc = "running"
      BY <1>1 DEF FinishRun
    <2>2. CASE "ok" \in outcomes[c]
      <3>1. CASE applied
        <4>1. c # d /\ runs[c] > 0
          BY <2>1, <2>2, <3>1 DEF Ran
        <4>2. Newer(c, d)
          BY <1>0, <2>1, <4>1 DEF RunsInOrder
        <4>. QED
          BY <2>1, <3>1, <4>2 DEF Newer, Before
      <3>2. CASE ~applied
        <4>1. game' = game
          BY <2>1, <3>2
        <4>2. game \in Command /\ Newer(c, game)
          BY <1>0, <2>2, <4>1 DEF GameKept
        <4>. QED
          BY <2>1, <4>1, <4>2 DEF Newer, Before
      <3>. QED
        BY <3>1, <3>2
    <2>3. CASE "ok" \notin outcomes[c]
      <3>1. c = d /\ result = "ok"
        BY <2>1, <2>3 DEF TypeOK
      <3>. QED
        BY <2>1, <3>1
    <2>. QED
      BY <2>2, <2>3
  <1>2. CASE outcomes' = outcomes /\ game' = game
    <2>1. game \in Command /\ Newer(c, game) /\ runs[c] > 0
      BY <1>0, <1>2 DEF GameKept, Ran
    <2>2. PICK d \in Command : d = game
      BY <2>1
    <2>3. Newer(c, d)' \/ UNCHANGED <<created, serial>>
      BY <2>1, <2>2, RunsHaveSerial, NewerStays DEF Ran
    <2>. QED
      BY <1>2, <2>1, <2>2, <2>3 DEF Newer, Before
  <1>3. ASSUME ~\E result \in Result, applied \in BOOLEAN : FinishRun(result, applied)
        PROVE  outcomes' = outcomes /\ game' = game
    BY <1>0, <1>3 DEF Next, RequestStep, BeginRequest, LockServer, AbandonRequest, CommitRequest,
                CredentialStep, Revoke, Enroll, SwitchToLocal, Tick, ExpireStale, PurgeOld,
                PollStep, StartPoll, Claim, ReceiveReply, PollFails,
                RunStep, SkipCommand, RepeatResult, StartRun, BatchDone,
                ReportStep, SendResult, AttemptFails, HandleReport, LoseReport, FaultStep, AdjustClock
  <1>. QED
    BY <1>1, <1>2, <1>3

\* While the agent forgets nothing, the setting of a confirmed command is replaced only by that of
\* a command created or committed after it: each poll brings all live commands, the runner takes
\* them oldest first, and none is left behind for later unless it is too old to run.
THEOREM ConfirmedStays == ASSUME InSight PROVE Spec => []ConfirmedNotUndone
  <1>1. Init => OInv
    <2>1. ASSUME Init
          PROVE  LInv /\ Live(now) = {}
      <3>1. OpenRows = {} /\ Live(now) = {}
        BY <2>1 DEF Init, Live, OpenRows, Open
      <3>. QED
        BY <2>1, <3>1, IInvInit, FS_EmptySet
           DEF Init, LInv, LockHeld, CheckedUnderLock, OpenWithinCap, NothingWaitsOnLocal
    <2>2. ASSUME Init
          PROVE  {d \in Command : serial[d] > 0} = {}
      BY <2>2 DEF Init
    <2>3. ASSUME Init
          PROVE  Serials
      BY <2>2, <2>3, FS_EmptySet DEF Init, Serials
    <2>. QED
      BY <2>1, <2>3
         DEF Init, OInv, Phases, Ran, InOrder, RunsInOrder, GameKept, MayRun, Hand, NoReply
  <1>2. OInv /\ [Next]_vars => OInv'
    <2>. SUFFICES ASSUME OInv, [Next]_vars
                  PROVE  OInv'
      OBVIOUS
    <2>1. LInv'
      BY IInvStep, LockHeldStep, CheckedStep, CapStep, LocalStep DEF OInv, LInv, IInv
    <2>2. Serials' /\ Phases' /\ Ran'
      BY SerialsStep, PhasesStep, RanStep DEF OInv, LInv
    <2>3. Calm' => InOrder' /\ RunsInOrder' /\ GameKept'
      BY InOrderStep, RunsInOrderStep, GameKeptStep
    <2>. QED
      BY <2>1, <2>2, <2>3 DEF OInv
  <1>3. OInv => ConfirmedNotUndone
    BY DEF OInv, Ran, GameKept, Calm, Newer, ConfirmedNotUndone
  <1>. QED
    BY <1>1, <1>2, <1>3, PTL DEF Spec

=============================================================================
