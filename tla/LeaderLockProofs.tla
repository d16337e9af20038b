--------------------------- MODULE LeaderLockProofs ---------------------------
(***************************************************************************)
(* For every number of instances and of faults: the leader-only workers of *)
(* two instances run together only while one of them has not noticed that  *)
(* its session is gone, terms do not overlap, and a stopped instance is    *)
(* out for good.                                                           *)
(***************************************************************************)
EXTENDS LeaderLock, TLAPS

Held(i) == holder = Using(i) \/ Using(i) \in severed

\* Session numbers are never used twice, and a client that is in use was not closed.
Numbered ==
    /\ \A s \in closing : s[2] <= created[s[1]]
    /\ \A i \in Instance :
          /\ client[i] <= created[i] /\ dropped[i] <= created[i]
          /\ client[i] # 0 => <<i, client[i]>> \notin closing
          /\ dropped[i] # 0 => <<i, dropped[i]>> \notin closing /\ client[i] = 0

\* What the place in the running step says of the client, and the reverse.
Placed ==
    \A i \in Instance :
        /\ pc[i] \in {"connecting", "trying", "checking", "acquiring", "stepping"} => client[i] # 0
        /\ pc[i] \in {"losing", "unlocking", "ending"} <=> dropped[i] # 0
        /\ pc[i] = "acquiring" => leader[i]
        /\ pc[i] = "stepping" => locked[i] /\ ~leader[i]
        /\ locked[i] => client[i] # 0 /\ pc[i] \in {"idle", "checking", "acquiring", "stepping"}
        /\ leader[i] => locked[i] /\ pc[i] # "stepping"

\* The workers run in a term, or while the instance waits for them to stop; until then it holds the
\* lock or has lost its session.
WorkersHeld ==
    \A i \in Instance :
        /\ locked[i] \/ pc[i] = "losing" => Held(i)
        /\ workers[i] => (leader[i] /\ pc[i] # "acquiring") \/ pc[i] \in {"losing", "stepping"}

\* stop() is never undone.
Stopping ==
    \A i \in Instance :
        /\ \A n \in 1..Len(queue[i]) : queue[i][n].kind = "stop" => stopped[i]
        /\ pc[i] \in {"stepping", "unlocking", "ending"} => stopped[i]
        /\ stopped[i] => ~timer[i]
        /\ halted[i] => stopped[i] /\ pc[i] = "idle" /\ client[i] = 0

IInv == TypeOK /\ Numbered /\ Placed /\ WorkersHeld /\ Stopping

-----------------------------------------------------------------------------
\* What is closed was used and is used no more.
LEMMA ClosingKeepsNumbers ==
  ASSUME IInv, NEW i \in Instance, NEW g \in {client[i], dropped[i]},
         closing' = closing \cup {<<i, g>>},
         created' = created,
         client' = [client EXCEPT ![i] = 0],
         dropped' = [dropped EXCEPT ![i] = 0]
  PROVE  Numbered'
<1> USE DEF IInv, TypeOK, Numbered
<1>1. ASSUME NEW s \in closing' PROVE s[2] <= created'[s[1]]
  <2>1. CASE s \in closing BY <2>1
  <2>2. CASE s = <<i, g>>
    <3>1. s[1] = i /\ s[2] = g BY <2>2
    <3> QED BY <3>1
  <2> QED BY <2>1, <2>2
<1>2. ASSUME NEW j \in Instance PROVE
         /\ client'[j] <= created'[j] /\ dropped'[j] <= created'[j]
         /\ client'[j] # 0 => <<j, client'[j]>> \notin closing'
         /\ dropped'[j] # 0 => <<j, dropped'[j]>> \notin closing' /\ client'[j] = 0
  <2>1. CASE j = i BY <2>1
  <2>2. CASE j # i
    <3>1. client'[j] = client[j] /\ dropped'[j] = dropped[j] BY <2>2
    <3>2. \A h : <<j, h>> # <<i, g>> BY <2>2
    <3> QED BY <3>1, <3>2
  <2> QED BY <2>1, <2>2
<1> QED BY <1>1, <1>2

\* lose() keeps the numbering, and what it sets keeps its type.
LEMMA LoseKeepsNumbers ==
  ASSUME IInv, NEW i \in Instance, dropped[i] = 0, Lose(i) PROVE Numbered'
<1>1. CASE leader[i]
  BY ZenonT(90), <1>1 DEF Lose, IInv, TypeOK, Numbered, Placed
<1>2. CASE ~leader[i]
  <2>1. dropped' = [dropped EXCEPT ![i] = 0] BY <1>2 DEF Lose, IInv, TypeOK
  <2> QED BY <1>2, <2>1, ClosingKeepsNumbers DEF Lose, Session
<1> QED BY <1>1, <1>2

LEMMA LoseKeepsTypes ==
  ASSUME TypeOK, NEW i \in Instance, dropped[i] = 0, Lose(i)
  PROVE  /\ closing' \subseteq Instance \X Nat /\ pc' \in [Instance -> PC]
         /\ inTick' \in [Instance -> BOOLEAN] /\ timer' \in [Instance -> BOOLEAN]
         /\ client' \in [Instance -> Nat] /\ created' \in [Instance -> Nat]
         /\ dropped' \in [Instance -> Nat]
         /\ \A j \in Instance : client'[j] = 0 \/ dropped'[j] = 0
         /\ locked' \in [Instance -> BOOLEAN] /\ leader' \in [Instance -> BOOLEAN]
<1>1. client' \in [Instance -> Nat] /\ created' \in [Instance -> Nat] /\ dropped' \in [Instance -> Nat]
  BY DEF Lose, TypeOK
<1>2. locked' \in [Instance -> BOOLEAN] /\ leader' \in [Instance -> BOOLEAN]
  BY DEF Lose, TypeOK
<1>3. \A j \in Instance : client'[j] = 0 \/ dropped'[j] = 0
  BY DEF Lose, TypeOK
<1>4. closing' \subseteq Instance \X Nat
  BY DEF Lose, Session, TypeOK
<1>5. pc' \in [Instance -> PC]
  BY DEF Lose, StepOver, Await, TypeOK, PC
<1>6. inTick' \in [Instance -> BOOLEAN] /\ timer' \in [Instance -> BOOLEAN]
  BY DEF Lose, StepOver, Await, TypeOK
<1> QED BY <1>1, <1>2, <1>3, <1>4, <1>5, <1>6

\* One step per action.
LEMMA TimerFiresKeeps ==
  ASSUME IInv, NEW i \in Instance, TimerFires(i) PROVE IInv'
<1> USE NoneAssumption DEF IInv, TypeOK
<1>1. TypeOK'
  BY SMTT(40) DEF TimerFires, dbVars, lockVars, PC, Step, TickStep
<1>2. Numbered'
  BY DEF Numbered, Placed, TimerFires, dbVars, lockVars, TickStep
<1>3. Placed'
  BY DEF Placed, TimerFires, dbVars, lockVars, TickStep
<1>4. WorkersHeld'
  BY DEF WorkersHeld, Held, Numbered, Placed, TimerFires, Using, dbVars, lockVars, TickStep
<1>5. Stopping'
  BY DEF Stopping, Placed, TimerFires, dbVars, lockVars, TickStep
<1> QED BY <1>1, <1>2, <1>3, <1>4, <1>5

LEMMA StopKeeps ==
  ASSUME IInv, NEW i \in Instance, Stop(i) PROVE IInv'
<1> USE NoneAssumption DEF IInv, TypeOK
<1>1. TypeOK'
  <2>1. /\ alive' \subseteq Instance \X Nat /\ holder' \in (Instance \X Nat) \cup {None}
        /\ severed' \subseteq Instance \X Nat /\ closing' \subseteq Instance \X Nat
    BY DEF Stop, dbVars, lockVars, PC, Step, StopStep
  <2>2. queue' \in [Instance -> Seq(Step)]
    BY DEF Stop, dbVars, lockVars, PC, Step, StopStep
  <2>3. pc' \in [Instance -> PC]
    BY DEF Stop, dbVars, lockVars, PC, Step, StopStep
  <2>4. inTick' \in [Instance -> BOOLEAN] /\ timer' \in [Instance -> BOOLEAN]
    BY DEF Stop, dbVars, lockVars, PC, Step, StopStep
  <2>5. /\ client' \in [Instance -> Nat] /\ created' \in [Instance -> Nat] /\ dropped' \in [Instance -> Nat]
        /\ \A j \in Instance : client'[j] = 0 \/ dropped'[j] = 0
    BY DEF Placed, Stop, dbVars, lockVars, PC, Step, StopStep
  <2>6. /\ locked' \in [Instance -> BOOLEAN] /\ leader' \in [Instance -> BOOLEAN]
        /\ stopped' \in [Instance -> BOOLEAN] /\ halted' \in [Instance -> BOOLEAN]
        /\ workers' \in [Instance -> BOOLEAN] /\ faults' \in Nat
    BY DEF Stop, dbVars, lockVars, PC, Step, StopStep
  <2> QED BY <2>1, <2>2, <2>4, <2>5, <2>6, <2>3
<1>2. Numbered'
  BY DEF Numbered, Placed, Stop, dbVars, lockVars, StopStep
<1>3. Placed'
  BY DEF Placed, Stop, dbVars, lockVars, StopStep
<1>4. WorkersHeld'
  BY DEF WorkersHeld, Held, Numbered, Placed, Stop, Using, dbVars, lockVars, StopStep
<1>5. Stopping'
  BY DEF Stopping, Placed, Stop, dbVars, lockVars, StopStep
<1> QED BY <1>1, <1>2, <1>3, <1>4, <1>5

LEMMA BeginTickKeeps ==
  ASSUME IInv, NEW i \in Instance, BeginTick(i) PROVE IInv'
<1> USE NoneAssumption DEF IInv, TypeOK
<1>1. TypeOK'
  <2>1. pc[i] = "idle" /\ dropped[i] = 0 BY DEF Placed, BeginTick, Dequeue
  <2>2. queue' \in [Instance -> Seq(Step)] BY DEF BeginTick, Dequeue, Step
  <2>3. pc' \in [Instance -> PC] /\ inTick' \in [Instance -> BOOLEAN]
    <3>1. CASE stopped[i] BY <3>1 DEF BeginTick
    <3>2. CASE ~stopped[i] /\ client[i] = 0 BY <3>2 DEF BeginTick, PC
    <3>3. CASE ~stopped[i] /\ client[i] # 0 BY <3>3 DEF BeginTick, PC
    <3> QED BY <3>1, <3>2, <3>3
  <2>4. /\ client' \in [Instance -> Nat] /\ created' \in [Instance -> Nat]
        /\ \A j \in Instance : client'[j] = 0 \/ dropped'[j] = 0
    <3>1. CASE UNCHANGED <<client, created>> BY <3>1 DEF BeginTick
    <3>2. CASE client' = [client EXCEPT ![i] = created'[i]] /\ created' = [created EXCEPT ![i] = @ + 1]
      BY <2>1, <3>2 DEF BeginTick
    <3> QED BY <3>1, <3>2 DEF BeginTick
  <2> QED BY <2>2, <2>3, <2>4 DEF BeginTick, dbVars
<1>2. Numbered'
  BY SMTT(40) DEF Numbered, Placed, BeginTick, Dequeue, dbVars
<1>3. Placed'
  BY DEF Placed, BeginTick, Dequeue, dbVars
<1>4. WorkersHeld'
  <2>1. dropped[i] = 0 /\ pc[i] = "idle" BY DEF Placed, BeginTick, Dequeue
  <2>2. ASSUME NEW j \in Instance, locked[j] \/ pc[j] = "losing" PROVE Using(j)' = Using(j)
    <3>1. j # i \/ client[i] # 0 BY <2>1, <2>2 DEF Placed
    <3> QED BY <3>1 DEF BeginTick, Using
  <2>3. ASSUME NEW j \in Instance PROVE (pc'[j] \in {"losing", "stepping"} <=> pc[j] \in {"losing",
      "stepping"})
                  /\ (pc'[j] = "losing" <=> pc[j] = "losing") /\ (pc'[j] = "acquiring" <=> pc[j] = "acquiring")
    BY <2>1 DEF BeginTick, Dequeue
  <2> QED BY <2>2, <2>3 DEF BeginTick, dbVars, WorkersHeld, Held
<1>5. Stopping'
  BY DEF Stopping, Placed, BeginTick, Dequeue, dbVars
<1> QED BY <1>1, <1>2, <1>3, <1>4, <1>5

LEMMA BeginLoseKeeps ==
  ASSUME IInv, NEW i \in Instance, BeginLose(i) PROVE IInv'
<1> USE NoneAssumption DEF IInv, TypeOK
<1>1. TypeOK'
  <2>1. dropped[i] = 0 BY DEF Placed, BeginLose, Dequeue
  <2>2. queue' \in [Instance -> Seq(Step)] BY DEF BeginLose, Dequeue, Step
  <2>3. CASE Lose(i)
    BY <2>1, <2>2, <2>3, LoseKeepsTypes DEF BeginLose
  <2>4. CASE UNCHANGED <<closing, pc, inTick, timer, lockVars>>
    BY <2>2, <2>4 DEF BeginLose, lockVars
  <2> QED BY <2>3, <2>4 DEF BeginLose
<1>2. Numbered'
  <2>1. dropped[i] = 0 BY DEF Placed, BeginLose, Dequeue
  <2>2. CASE Lose(i) BY <2>1, <2>2, LoseKeepsNumbers
  <2>3. CASE UNCHANGED <<closing, pc, inTick, timer, lockVars>>
    BY <2>3 DEF Numbered, lockVars
  <2> QED BY <2>2, <2>3 DEF BeginLose
<1>3. Placed'
  BY DEF Placed, BeginLose, Dequeue, Lose, StepOver, Await, Session, lockVars
<1>4. WorkersHeld'
  <2>1. CASE Lose(i)
    <3>1. pc[i] = "idle" /\ dropped[i] = 0 BY DEF Placed, BeginLose, Dequeue
    <3>2. CASE leader[i]
      BY <2>1, <3>1, <3>2 DEF WorkersHeld, Held, Placed, BeginLose, Lose, Await, Using
    <3>3. CASE ~leader[i]
      <4>1. ~locked'[i] /\ pc'[i] = "idle" /\ ~workers'[i]
        BY <2>1, <3>1, <3>3 DEF BeginLose, Lose, StepOver, WorkersHeld
      <4>2. ASSUME NEW j \in Instance, j # i
            PROVE  /\ Using(j)' = Using(j) /\ pc'[j] = pc[j] /\ locked'[j] = locked[j]
                   /\ leader'[j] = leader[j] /\ workers'[j] = workers[j]
        BY <2>1, <3>3, <4>2 DEF BeginLose, Lose, StepOver, Using
      <4> QED BY <4>1, <4>2 DEF BeginLose, WorkersHeld, Held
    <3> QED BY <3>2, <3>3
  <2>2. CASE UNCHANGED <<closing, pc, inTick, timer, lockVars>>
    BY <2>2 DEF WorkersHeld, Held, BeginLose, Using, lockVars
  <2> QED BY <2>1, <2>2 DEF BeginLose
<1>5. Stopping'
  BY DEF Stopping, Placed, BeginLose, Dequeue, Lose, StepOver, Await, Session, lockVars
<1> QED BY <1>1, <1>2, <1>3, <1>4, <1>5

LEMMA FinishLoseKeeps ==
  ASSUME IInv, NEW i \in Instance, FinishLose(i) PROVE IInv'
<1> USE NoneAssumption DEF IInv, TypeOK
<1>1. TypeOK'
  BY SMTT(40) DEF FinishLose, StepOver, Running, Using, PC, Step
<1>2. Numbered'
  <2>1. client[i] = 0 BY DEF FinishLose, Running, Placed
  <2>2. client' = [client EXCEPT ![i] = 0] BY <2>1 DEF FinishLose
  <2>3. closing' = closing \cup {<<i, dropped[i]>>} BY <2>1 DEF FinishLose, Using
  <2> QED BY <2>2, <2>3, ClosingKeepsNumbers DEF FinishLose
<1>3. Placed'
  BY DEF Placed, FinishLose, StepOver, Running, Using
<1>4. WorkersHeld'
  BY DEF WorkersHeld, Held, Numbered, Placed, FinishLose, StepOver, Running, Using
<1>5. Stopping'
  BY DEF Stopping, Placed, FinishLose, StepOver, Running, Using
<1> QED BY <1>1, <1>2, <1>3, <1>4, <1>5

LEMMA ConnectedKeeps ==
  ASSUME IInv, NEW i \in Instance, Connected(i) PROVE IInv'
<1> USE NoneAssumption DEF IInv, TypeOK
<1>1. TypeOK'
  <2>1. /\ alive' \subseteq Instance \X Nat /\ holder' \in (Instance \X Nat) \cup {None}
        /\ severed' \subseteq Instance \X Nat /\ closing' \subseteq Instance \X Nat
    BY DEF Connected, StepOver, Await, Running, Session, lockVars, PC, Step
  <2>2. queue' \in [Instance -> Seq(Step)]
    BY DEF Connected, StepOver, Await, Running, Session, lockVars, PC, Step
  <2>3. pc' \in [Instance -> PC]
    <3>1. CASE stopped[i] BY <3>1 DEF Connected, StepOver, PC
    <3>2. CASE ~stopped[i] BY <3>2 DEF Connected, Await, PC
    <3> QED BY <3>1, <3>2
  <2>4. inTick' \in [Instance -> BOOLEAN] /\ timer' \in [Instance -> BOOLEAN]
    BY DEF Connected, StepOver, Await, Running, Session, lockVars, PC, Step
  <2>5. /\ client' \in [Instance -> Nat] /\ created' \in [Instance -> Nat] /\ dropped' \in [Instance -> Nat]
        /\ \A j \in Instance : client'[j] = 0 \/ dropped'[j] = 0
    BY DEF Placed, Connected, StepOver, Await, Running, Session, lockVars, PC, Step
  <2>6. /\ locked' \in [Instance -> BOOLEAN] /\ leader' \in [Instance -> BOOLEAN]
        /\ stopped' \in [Instance -> BOOLEAN] /\ halted' \in [Instance -> BOOLEAN]
        /\ workers' \in [Instance -> BOOLEAN] /\ faults' \in Nat
    BY DEF Connected, StepOver, Await, Running, Session, lockVars, PC, Step
  <2> QED BY <2>1, <2>2, <2>4, <2>5, <2>6, <2>3
<1>2. Numbered'
  BY DEF Numbered, Placed, Connected, StepOver, Await, Running, Session, lockVars
<1>3. Placed'
  BY DEF Placed, Connected, StepOver, Await, Running, Session, lockVars
<1>4. WorkersHeld'
  BY DEF WorkersHeld, Held, Numbered, Placed, Connected, StepOver, Await, Running, Session, Using,
      lockVars
<1>5. Stopping'
  BY DEF Stopping, Placed, Connected, StepOver, Await, Running, Session, lockVars
<1> QED BY <1>1, <1>2, <1>3, <1>4, <1>5

LEMMA ConnectFailsKeeps ==
  ASSUME IInv, NEW i \in Instance, NEW opened \in BOOLEAN, ConnectFails(i, opened) PROVE IInv'
<1> USE NoneAssumption DEF IInv, TypeOK
<1>1. TypeOK'
  <2>1. dropped[i] = 0 BY DEF Placed, ConnectFails, Running
  <2>2. alive' \subseteq Instance \X Nat BY DEF ConnectFails, Session
  <2>3. faults' \in Nat BY DEF ConnectFails, Fault
  <2> QED BY <2>1, <2>2, <2>3, LoseKeepsTypes DEF ConnectFails, Running
<1>2. Numbered'
  BY LoseKeepsNumbers DEF Placed, ConnectFails, Running
<1>3. Placed'
  BY DEF Placed, ConnectFails, Lose, StepOver, Await, Running, Fault, Session
<1>4. WorkersHeld'
  <2>1. pc[i] = "connecting" /\ ~leader[i] /\ ~locked[i] /\ ~workers[i]
    BY DEF Placed, WorkersHeld, ConnectFails, Running
  <2>2. /\ pc' = [pc EXCEPT ![i] = "idle"] /\ client' = [client EXCEPT ![i] = 0]
        /\ locked' = [locked EXCEPT ![i] = FALSE] /\ leader' = [leader EXCEPT ![i] = FALSE]
        /\ UNCHANGED <<dropped, holder, severed, workers>>
    BY <2>1 DEF ConnectFails, Lose, StepOver
  <2>3. ASSUME NEW j \in Instance
        PROVE  /\ locked'[j] \/ pc'[j] = "losing" => Held(j)'
               /\ workers'[j] => \/ leader'[j] /\ pc'[j] # "acquiring"
                                \/ pc'[j] \in {"losing", "stepping"}
    <3>1. CASE j = i BY <2>1, <2>2, <3>1
    <3>2. CASE j # i
      <4>1. /\ pc'[j] = pc[j] /\ locked'[j] = locked[j] /\ leader'[j] = leader[j]
            /\ workers'[j] = workers[j] /\ Using(j)' = Using(j)
        BY <2>2, <3>2 DEF Using
      <4>2. Held(j)' <=> Held(j) BY <2>2, <4>1 DEF Held
      <4> QED BY <4>1, <4>2 DEF WorkersHeld
    <3> QED BY <3>1, <3>2
  <2> QED BY <2>3 DEF WorkersHeld
<1>5. Stopping'
  BY DEF Stopping, Placed, ConnectFails, Lose, StepOver, Await, Running, Fault, Session
<1> QED BY <1>1, <1>2, <1>3, <1>4, <1>5

LEMMA TryGrantedKeeps ==
  ASSUME IInv, NEW i \in Instance, TryGranted(i) PROVE IInv'
<1> USE NoneAssumption DEF IInv, TypeOK
<1>1. TypeOK'
  BY ZenonT(60) DEF TryGranted, StepOver, Await, Running, Session, PC, Step
<1>2. Numbered'
  BY DEF Numbered, Placed, TryGranted, StepOver, Await, Running, Session
<1>3. Placed'
  BY DEF Placed, TryGranted, StepOver, Await, Running, Session
<1>4. WorkersHeld'
  BY SMTT(40) DEF WorkersHeld, Held, Numbered, Placed, TryGranted, StepOver, Await, Running, Session, Using
<1>5. Stopping'
  BY DEF Stopping, Placed, TryGranted, StepOver, Await, Running, Session
<1> QED BY <1>1, <1>2, <1>3, <1>4, <1>5

LEMMA FinishAcquireKeeps ==
  ASSUME IInv, NEW i \in Instance, NEW started \in BOOLEAN, FinishAcquire(i, started) PROVE IInv'
<1> USE NoneAssumption DEF IInv, TypeOK
<1>1. TypeOK'
  <2>1. /\ alive' \subseteq Instance \X Nat /\ holder' \in (Instance \X Nat) \cup {None}
        /\ severed' \subseteq Instance \X Nat /\ closing' \subseteq Instance \X Nat
    BY DEF FinishAcquire, StepOver, Running, Fault, dbVars, lockVars, PC, Step
  <2>2. queue' \in [Instance -> Seq(Step)]
    BY DEF FinishAcquire, StepOver, Running, Fault, dbVars, lockVars, PC, Step
  <2>3. pc' \in [Instance -> PC]
    BY DEF FinishAcquire, StepOver, Running, Fault, dbVars, lockVars, PC, Step
  <2>4. inTick' \in [Instance -> BOOLEAN] /\ timer' \in [Instance -> BOOLEAN]
    BY DEF FinishAcquire, StepOver, Running, Fault, dbVars, lockVars, PC, Step
  <2>5. /\ client' \in [Instance -> Nat] /\ created' \in [Instance -> Nat] /\ dropped' \in [Instance -> Nat]
        /\ \A j \in Instance : client'[j] = 0 \/ dropped'[j] = 0
    BY DEF Placed, FinishAcquire, StepOver, Running, Fault, dbVars, lockVars, PC, Step
  <2>6. /\ locked' \in [Instance -> BOOLEAN] /\ leader' \in [Instance -> BOOLEAN]
        /\ stopped' \in [Instance -> BOOLEAN] /\ halted' \in [Instance -> BOOLEAN]
        /\ workers' \in [Instance -> BOOLEAN] /\ faults' \in Nat
    BY DEF FinishAcquire, StepOver, Running, Fault, dbVars, lockVars, PC, Step
  <2> QED BY <2>1, <2>2, <2>4, <2>5, <2>6, <2>3
<1>2. Numbered'
  BY DEF Numbered, Placed, FinishAcquire, StepOver, Running, Fault, dbVars, lockVars
<1>3. Placed'
  BY DEF Placed, FinishAcquire, StepOver, Running, Fault, dbVars, lockVars
<1>4. WorkersHeld'
  BY DEF WorkersHeld, Held, Numbered, Placed, FinishAcquire, StepOver, Running, Fault, Using,
      dbVars, lockVars
<1>5. Stopping'
  BY DEF Stopping, Placed, FinishAcquire, StepOver, Running, Fault, dbVars, lockVars
<1> QED BY <1>1, <1>2, <1>3, <1>4, <1>5

LEMMA TryRefusedKeeps ==
  ASSUME IInv, NEW i \in Instance, TryRefused(i) PROVE IInv'
<1> USE NoneAssumption DEF IInv, TypeOK
<1>1. TypeOK'
  BY DEF TryRefused, StepOver, Running, Session, dbVars, lockVars, PC, Step
<1>2. Numbered'
  BY DEF Numbered, Placed, TryRefused, StepOver, Running, Session, dbVars, lockVars
<1>3. Placed'
  BY DEF Placed, TryRefused, StepOver, Running, Session, dbVars, lockVars
<1>4. WorkersHeld'
  BY DEF WorkersHeld, Held, Numbered, Placed, TryRefused, StepOver, Running, Session, Using,
      dbVars, lockVars
<1>5. Stopping'
  BY DEF Stopping, Placed, TryRefused, StepOver, Running, Session, dbVars, lockVars
<1> QED BY <1>1, <1>2, <1>3, <1>4, <1>5

LEMMA CheckPassesKeeps ==
  ASSUME IInv, NEW i \in Instance, CheckPasses(i) PROVE IInv'
<1> USE NoneAssumption DEF IInv, TypeOK
<1>1. TypeOK'
  BY DEF CheckPasses, StepOver, Running, Session, dbVars, lockVars, PC, Step
<1>2. Numbered'
  BY DEF Numbered, Placed, CheckPasses, StepOver, Running, Session, dbVars, lockVars
<1>3. Placed'
  BY DEF Placed, CheckPasses, StepOver, Running, Session, dbVars, lockVars
<1>4. WorkersHeld'
  BY DEF WorkersHeld, Held, Numbered, Placed, CheckPasses, StepOver, Running, Session, Using,
      dbVars, lockVars
<1>5. Stopping'
  BY DEF Stopping, Placed, CheckPasses, StepOver, Running, Session, dbVars, lockVars
<1> QED BY <1>1, <1>2, <1>3, <1>4, <1>5

LEMMA QueryFailsKeeps ==
  ASSUME IInv, NEW i \in Instance, NEW granted \in BOOLEAN, QueryFails(i, granted) PROVE IInv'
<1> USE NoneAssumption DEF IInv, TypeOK
<1>1. TypeOK'
  <2>1. dropped[i] = 0 BY DEF Placed, QueryFails
  <2>2. holder' \in (Instance \X Nat) \cup {None} BY DEF QueryFails, Session
  <2>3. faults' \in Nat BY DEF QueryFails, Fault
  <2> QED BY <2>1, <2>2, <2>3, LoseKeepsTypes DEF QueryFails
<1>2. Numbered'
  BY LoseKeepsNumbers DEF Placed, QueryFails
<1>3. Placed'
  BY DEF Placed, QueryFails, Lose, StepOver, Await, Fault, Session
<1>4. WorkersHeld'
  BY DEF WorkersHeld, Held, Numbered, Placed, QueryFails, Lose, StepOver, Await, Fault, Session,
      Using
<1>5. Stopping'
  BY DEF Stopping, Placed, QueryFails, Lose, StepOver, Await, Fault, Session
<1> QED BY <1>1, <1>2, <1>3, <1>4, <1>5

LEMMA BeginStopKeeps ==
  ASSUME IInv, NEW i \in Instance, BeginStop(i) PROVE IInv'
<1> USE NoneAssumption DEF IInv, TypeOK
<1>1. TypeOK'
  <2>1. dropped[i] = 0 BY DEF Placed, BeginStop, Dequeue
  <2>2. queue' \in [Instance -> Seq(Step)] BY DEF BeginStop, Dequeue, Step
  <2>3. CASE leader[i]
    BY <2>2, <2>3 DEF BeginStop, Await, dbVars, PC
  <2>4. CASE ~leader[i] /\ client[i] = 0
    <3>1. /\ client' = [client EXCEPT ![i] = 0] /\ dropped' = [dropped EXCEPT ![i] = client[i]]
          /\ created' = created
      BY <2>4 DEF BeginStop, LetGo
    <3>2. client' \in [Instance -> Nat] /\ dropped' \in [Instance -> Nat] /\ created' \in [Instance -> Nat]
      BY <3>1
    <3>3. \A j \in Instance : client'[j] = 0 \/ dropped'[j] = 0
      BY ZenonT(60), <2>1, <2>4 DEF BeginStop, LetGo, dbVars
    <3>4. StepOver(i) BY <2>4 DEF BeginStop, LetGo
    <3>5. pc' \in [Instance -> PC] BY <3>4 DEF StepOver, PC
    <3>6. pc' \in [Instance -> PC] /\ inTick' \in [Instance -> BOOLEAN] /\ timer' \in [Instance -> BOOLEAN]
      BY <3>4, <3>5 DEF StepOver
    <3>7. locked' \in [Instance -> BOOLEAN] /\ leader' \in [Instance -> BOOLEAN] /\ halted' \in [Instance -> BOOLEAN]
      BY ZenonT(60), <2>1, <2>4 DEF BeginStop, LetGo, dbVars
    <3> QED BY <2>2, <3>2, <3>3, <3>6, <3>7 DEF BeginStop, dbVars
  <2>5. CASE ~leader[i] /\ client[i] # 0
    <3>1. /\ client' = [client EXCEPT ![i] = 0] /\ dropped' = [dropped EXCEPT ![i] = client[i]]
          /\ created' = created
      BY <2>5 DEF BeginStop, LetGo
    <3>2. client' \in [Instance -> Nat] /\ dropped' \in [Instance -> Nat] /\ created' \in [Instance -> Nat]
      BY <3>1
    <3>3. \A j \in Instance : client'[j] = 0 \/ dropped'[j] = 0
      BY <2>1, <2>5 DEF BeginStop, LetGo, dbVars
    <3>4. pc' \in [Instance -> PC] /\ inTick' \in [Instance -> BOOLEAN] /\ timer' \in [Instance -> BOOLEAN]
      BY <2>5 DEF BeginStop, LetGo, Await, PC
    <3>5. locked' \in [Instance -> BOOLEAN] /\ leader' \in [Instance -> BOOLEAN] /\ halted' \in [Instance -> BOOLEAN]
      BY <2>1, <2>5 DEF BeginStop, LetGo, dbVars
    <3> QED BY <2>2, <3>2, <3>3, <3>4, <3>5 DEF BeginStop, dbVars
  <2> QED BY <2>3, <2>4, <2>5
<1>2. Numbered'
  BY DEF Numbered, Placed, BeginStop, Dequeue, LetGo, StepOver, Await, dbVars
<1>3. Placed'
  BY DEF Placed, BeginStop, Dequeue, LetGo, StepOver, Await, dbVars
<1>4. WorkersHeld'
  <2>1. dropped[i] = 0 BY DEF Placed, BeginStop, Dequeue
  <2>2. CASE leader[i]
    BY <2>1, <2>2 DEF WorkersHeld, Held, Placed, BeginStop, Dequeue, Await, Using, dbVars
  <2>3. CASE ~leader[i]
    BY <2>1, <2>3 DEF WorkersHeld, Held, Placed, BeginStop, Dequeue, LetGo, StepOver, Await, Using,
        dbVars
  <2> QED BY <2>2, <2>3
<1>5. Stopping'
  BY DEF Stopping, Placed, BeginStop, Dequeue, LetGo, StepOver, Await, dbVars
<1> QED BY <1>1, <1>2, <1>3, <1>4, <1>5

LEMMA FinishStepDownKeeps ==
  ASSUME IInv, NEW i \in Instance, FinishStepDown(i) PROVE IInv'
<1> USE NoneAssumption DEF IInv, TypeOK
<1>1. TypeOK'
  BY ZenonT(60) DEF FinishStepDown, LetGo, StepOver, Await, Running, dbVars, PC, Step
<1>2. Numbered'
  BY DEF Numbered, Placed, FinishStepDown, LetGo, StepOver, Await, Running, dbVars
<1>3. Placed'
  BY DEF Placed, FinishStepDown, LetGo, StepOver, Await, Running, dbVars
<1>4. WorkersHeld'
  BY DEF WorkersHeld, Held, Numbered, Placed, FinishStepDown, LetGo, StepOver, Await, Running,
      Using, dbVars
<1>5. Stopping'
  BY DEF Stopping, Placed, FinishStepDown, LetGo, StepOver, Await, Running, dbVars
<1> QED BY <1>1, <1>2, <1>3, <1>4, <1>5

LEMMA UnlockKeeps ==
  ASSUME IInv, NEW i \in Instance, NEW fails \in BOOLEAN, Unlock(i, fails) PROVE IInv'
<1> USE NoneAssumption DEF IInv, TypeOK
<1>1. TypeOK'
  <2>1. /\ alive' \subseteq Instance \X Nat /\ holder' \in (Instance \X Nat) \cup {None}
        /\ severed' \subseteq Instance \X Nat /\ closing' \subseteq Instance \X Nat
    BY DEF Unlock, Await, Running, Fault, Using, Without, lockVars, PC, Step
  <2>2. queue' \in [Instance -> Seq(Step)]
    BY DEF Unlock, Await, Running, Fault, Using, Without, lockVars, PC, Step
  <2>3. pc' \in [Instance -> PC]
    BY DEF Unlock, Await, Running, Fault, Using, Without, lockVars, PC, Step
  <2>4. inTick' \in [Instance -> BOOLEAN] /\ timer' \in [Instance -> BOOLEAN]
    BY DEF Unlock, Await, Running, Fault, Using, Without, lockVars, PC, Step
  <2>5. /\ client' \in [Instance -> Nat] /\ created' \in [Instance -> Nat] /\ dropped' \in [Instance -> Nat]
        /\ \A j \in Instance : client'[j] = 0 \/ dropped'[j] = 0
    BY DEF Placed, Unlock, Await, Running, Fault, Using, Without, lockVars, PC, Step
  <2>6. /\ locked' \in [Instance -> BOOLEAN] /\ leader' \in [Instance -> BOOLEAN]
        /\ stopped' \in [Instance -> BOOLEAN] /\ halted' \in [Instance -> BOOLEAN]
        /\ workers' \in [Instance -> BOOLEAN] /\ faults' \in Nat
    BY DEF Unlock, Await, Running, Fault, Using, Without, lockVars, PC, Step
  <2> QED BY <2>1, <2>2, <2>4, <2>5, <2>6, <2>3
<1>2. Numbered'
  BY DEF Numbered, Placed, Unlock, Await, Running, Fault, Using, Without, lockVars
<1>3. Placed'
  BY DEF Placed, Unlock, Await, Running, Fault, Using, Without, lockVars
<1>4. WorkersHeld'
  BY DEF WorkersHeld, Held, Numbered, Placed, Unlock, Await, Running, Fault, Using, Without,
      lockVars
<1>5. Stopping'
  BY DEF Stopping, Placed, Unlock, Await, Running, Fault, Using, Without, lockVars
<1> QED BY <1>1, <1>2, <1>3, <1>4, <1>5

LEMMA EndKeeps ==
  ASSUME IInv, NEW i \in Instance, End(i) PROVE IInv'
<1> USE NoneAssumption DEF IInv, TypeOK
<1>1. TypeOK'
  BY SMTT(40) DEF End, StepOver, Running, Using, PC, Step
<1>2. Numbered'
  <2>1. client[i] = 0 BY DEF End, Running, Placed
  <2>2. client' = [client EXCEPT ![i] = 0] BY <2>1 DEF End
  <2>3. closing' = closing \cup {<<i, dropped[i]>>} BY <2>1 DEF End, Using
  <2> QED BY <2>2, <2>3, ClosingKeepsNumbers DEF End
<1>3. Placed'
  BY DEF Placed, End, StepOver, Running, Using
<1>4. WorkersHeld'
  BY DEF WorkersHeld, Held, Numbered, Placed, End, StepOver, Running, Using
<1>5. Stopping'
  BY DEF Stopping, Placed, End, StepOver, Running, Using
<1> QED BY <1>1, <1>2, <1>3, <1>4, <1>5

LEMMA ErrorEventKeeps ==
  ASSUME IInv, NEW i \in Instance, ErrorEvent(i) PROVE IInv'
<1> USE NoneAssumption DEF IInv, TypeOK
<1>1. TypeOK'
  BY SMTT(40) DEF ErrorEvent, Fault, dbVars, lockVars, PC, Step, LoseStep
<1>2. Numbered'
  BY DEF Numbered, Placed, ErrorEvent, Fault, dbVars, lockVars, LoseStep
<1>3. Placed'
  BY DEF Placed, ErrorEvent, Fault, dbVars, lockVars, LoseStep
<1>4. WorkersHeld'
  BY DEF WorkersHeld, Held, Numbered, Placed, ErrorEvent, Fault, Using, dbVars, lockVars, LoseStep
<1>5. Stopping'
  BY DEF Stopping, Placed, ErrorEvent, Fault, dbVars, lockVars, LoseStep
<1> QED BY <1>1, <1>2, <1>3, <1>4, <1>5

LEMMA DieKeeps ==
  ASSUME IInv, NEW i \in Instance, Die(i) PROVE IInv'
<1> USE NoneAssumption DEF IInv, TypeOK
<1>1. TypeOK'
  BY SMTT(40) DEF Die, Fault, Using, PC, Step
<1>2. Numbered'
  <2> DEFINE g == IF client[i] # 0 THEN client[i] ELSE dropped[i]
  <2>1. g \in {client[i], dropped[i]} OBVIOUS
  <2>2. closing' = closing \cup {<<i, g>>} BY DEF Die, Using
  <2> HIDE DEF g
  <2> QED BY <2>1, <2>2, ClosingKeepsNumbers DEF Die
<1>3. Placed'
  BY DEF Placed, Die, Fault, Using
<1>4. WorkersHeld'
  BY DEF WorkersHeld, Held, Numbered, Placed, Die, Fault, Using
<1>5. Stopping'
  BY DEF Stopping, Placed, Die, Fault, Using
<1> QED BY <1>1, <1>2, <1>3, <1>4, <1>5

-----------------------------------------------------------------------------
LEMMA SessionEndsKeeps == ASSUME IInv, NEW s \in alive, SessionEnds(s) PROVE IInv'
<1> USE NoneAssumption DEF IInv, TypeOK
<1>1. TypeOK' BY DEF SessionEnds, Without, stepVars, lockVars
<1>2. Numbered' BY DEF SessionEnds, Numbered, lockVars
<1>3. Placed' BY DEF SessionEnds, Placed, stepVars, lockVars
<1>4. WorkersHeld'
  <2>1. ASSUME NEW i \in Instance, locked[i] \/ pc[i] = "losing" PROVE Using(i) # s
    <3>1. CASE client[i] # 0 BY <3>1 DEF SessionEnds, Numbered, Using
    <3>2. CASE client[i] = 0 /\ dropped[i] # 0 BY <3>2 DEF SessionEnds, Numbered, Using
    <3> QED BY <2>1, <3>1, <3>2 DEF Placed
  <2>2. ASSUME NEW i \in Instance PROVE Using(i)' = Using(i) BY DEF SessionEnds, Using, lockVars
  <2> QED BY <2>1, <2>2 DEF SessionEnds, Without, WorkersHeld, Held, stepVars, lockVars
<1>5. Stopping' BY DEF SessionEnds, Stopping, stepVars, lockVars
<1> QED BY <1>1, <1>2, <1>3, <1>4, <1>5

LEMMA SeverKeeps ==
  ASSUME IInv, NEW s \in alive, NEW heard \in BOOLEAN, Sever(s, heard) PROVE IInv'
<1> USE NoneAssumption DEF IInv, TypeOK
<1>1. s[1] \in Instance /\ s[2] \in Nat OBVIOUS
<1>2. TypeOK'
  <2>1. queue' \in [Instance -> Seq(Step)]
    <3>1. LoseStep(s[2]) \in Step BY <1>1 DEF LoseStep, Step
    <3>2. CASE heard BY <1>1, <3>1, <3>2 DEF Sever
    <3>3. CASE ~heard BY <3>3 DEF Sever
    <3> QED BY <3>2, <3>3
  <2>2. severed' \subseteq Instance \X Nat /\ alive' \subseteq Instance \X Nat BY DEF Sever
  <2>3. holder' \in (Instance \X Nat) \cup {None} /\ faults' \in Nat BY DEF Sever, Without, Fault
  <2> QED BY <2>1, <2>2, <2>3 DEF Sever, lockVars
<1>3. Numbered' BY DEF Sever, Numbered, lockVars
<1>4. Placed' BY DEF Sever, Placed, lockVars
<1>5. WorkersHeld'
  <2>1. ASSUME NEW i \in Instance PROVE Using(i)' = Using(i) BY DEF Sever, Using, lockVars
  <2> QED BY <2>1 DEF Sever, Without, WorkersHeld, Held, lockVars
<1>6. Stopping'
  <2>1. ASSUME NEW i \in Instance, NEW n \in 1..Len(queue'[i]), queue'[i][n].kind = "stop"
        PROVE  n \in 1..Len(queue[i]) /\ queue[i][n].kind = "stop"
    BY <1>1, <2>1 DEF Sever, LoseStep
  <2> QED BY <2>1 DEF Sever, Stopping, lockVars
<1> QED BY <1>2, <1>3, <1>4, <1>5, <1>6

-----------------------------------------------------------------------------
\* Session numbers, places in a step, workers and stops stay consistent (leaderLock.ts).
THEOREM Inductive == Spec => []IInv
<1>1. Init => IInv
  BY NoneAssumption DEF Init, IInv, TypeOK, Numbered, Placed, WorkersHeld, Held, Using, Stopping,
      PC, Step
<1>2. IInv /\ [Next]_vars => IInv'
  <2> SUFFICES ASSUME IInv, [Next]_vars PROVE IInv' OBVIOUS
  <2>1. ASSUME NEW i \in Instance, Handle(i) PROVE IInv'
    BY <2>1, BeginTickKeeps, BeginLoseKeeps, BeginStopKeeps, ConnectedKeeps, TryGrantedKeeps,
       TryRefusedKeeps, CheckPassesKeeps, FinishAcquireKeeps, QueryFailsKeeps, UnlockKeeps,
       FinishLoseKeeps, FinishStepDownKeeps, EndKeeps DEF Handle
  <2>2. CASE UNCHANGED vars
    <3>1. ASSUME NEW i \in Instance PROVE Using(i)' = Using(i) BY <2>2 DEF Using, vars, lockVars
    <3> QED BY <2>2, <3>1 DEF IInv, TypeOK, Numbered, Placed, WorkersHeld, Held, Stopping,
                        vars, dbVars, stepVars, lockVars
  <2> QED BY <2>1, <2>2, TimerFiresKeeps, StopKeeps, ErrorEventKeeps, DieKeeps, ConnectFailsKeeps,
             SessionEndsKeeps, SeverKeeps DEF Next
<1> QED BY <1>1, <1>2, PTL DEF Spec

\* leaderLock.ts: the leader-only workers run on one instance, but for one that has not noticed that the
\* database ended its session, and never while the instance still asks for the lock.
THEOREM WorkersRunOnce == Spec => []OneLeader
<1>1. IInv => OneLeader
  <2>1. ASSUME IInv, NEW i \in Instance, NEW j \in Instance, workers[i], workers[j], i # j,
               Using(i) \notin severed, Using(j) \notin severed
        PROVE  FALSE
    <3>1. holder = Using(i) /\ holder = Using(j) BY <2>1 DEF IInv, Placed, WorkersHeld, Held
    <3> QED BY <2>1, <3>1 DEF Using
  <2>2. ASSUME IInv, NEW i \in Instance, pc[i] = "acquiring" PROVE ~workers[i]
    BY <2>2 DEF IInv, Placed, WorkersHeld
  <2> QED BY <2>1, <2>2 DEF OneLeader
<1> QED BY <1>1, Inductive, PTL

\* leaderLock.ts: once stop() is done the instance is out for good.
THEOREM StopIsForGood == Spec => []StoppedForGood
<1>1. IInv => StoppedForGood
  BY DEF IInv, Placed, WorkersHeld, Stopping, StoppedForGood
<1> QED BY <1>1, Inductive, PTL

\* leaderLock.ts: onAcquired and onLost alternate.
THEOREM TermsApart == Spec => TermsDoNotOverlap
<1>1. IInv /\ [Next]_vars => [\A i \in Instance : (pc'[i] = "acquiring" /\ pc[i] # "acquiring") => ~workers[i]]_vars
  <2> SUFFICES ASSUME IInv, Next, NEW i \in Instance, pc'[i] = "acquiring", pc[i] # "acquiring"
               PROVE  ~workers[i]
    OBVIOUS
  <2> USE DEF IInv, TypeOK
  <2>1. ASSUME NEW m \in Instance, Handle(m) PROVE pc[i] = "trying"
    <3>1. CASE BeginTick(m) BY <3>1 DEF BeginTick
    <3>2. CASE BeginLose(m) BY <3>2 DEF BeginLose, Lose, StepOver, Await
    <3>3. CASE BeginStop(m) BY <3>3 DEF BeginStop, LetGo, StepOver, Await
    <3>4. CASE Connected(m) BY <3>4 DEF Connected, StepOver, Await
    <3>5. CASE TryGranted(m) BY <3>5 DEF TryGranted, Running, StepOver, Await
    <3>6. CASE TryRefused(m) \/ CheckPasses(m) BY <3>6 DEF TryRefused, CheckPasses, StepOver
    <3>7. CASE \E b \in BOOLEAN : FinishAcquire(m, b) BY <3>7 DEF FinishAcquire, StepOver
    <3>8. CASE \E b \in BOOLEAN : QueryFails(m, b) BY <3>8 DEF QueryFails, Lose, StepOver, Await
    <3>9. CASE \E b \in BOOLEAN : Unlock(m, b) BY <3>9 DEF Unlock, Await
    <3>10. CASE FinishLose(m) \/ End(m) BY <3>10 DEF FinishLose, End, StepOver
    <3>11. CASE FinishStepDown(m) BY <3>11 DEF FinishStepDown, LetGo, StepOver, Await
    <3> QED BY <2>1, <3>1, <3>2, <3>3, <3>4, <3>5, <3>6, <3>7, <3>8, <3>9, <3>10, <3>11 DEF Handle
  <2>2. ASSUME NEW m \in Instance, TimerFires(m) \/ Stop(m) \/ ErrorEvent(m) \/ Die(m) PROVE FALSE
    BY <2>2 DEF TimerFires, Stop, ErrorEvent, Die
  <2>3. ASSUME NEW m \in Instance, NEW opened \in BOOLEAN, ConnectFails(m, opened) PROVE FALSE
    BY <2>3 DEF ConnectFails, Lose, StepOver, Await
  <2>4. ASSUME NEW s \in alive, SessionEnds(s) PROVE FALSE BY <2>4 DEF SessionEnds, stepVars
  <2>5. ASSUME NEW s \in alive, NEW heard \in BOOLEAN, Sever(s, heard) PROVE FALSE BY <2>5 DEF Sever
  <2>6. pc[i] = "trying" BY <2>1, <2>2, <2>3, <2>4, <2>5 DEF Next
  <2> QED BY <2>6 DEF Placed, WorkersHeld
<1> QED BY <1>1, Inductive, PTL DEF Spec, TermsDoNotOverlap
=============================================================================
