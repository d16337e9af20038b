-------------------------- MODULE ServerManagerProofs --------------------------
(***************************************************************************)
(* Theorems about ServerManager, for any number of launches, sessions and  *)
(* restarts: one server at a time, named by the pid file when it outlives  *)
(* the app, never updated while it runs, and saved before it is ended.     *)
(***************************************************************************)
EXTENDS ServerManager, FiniteSetTheorems, TLAPS

USE BoundsAssumption
USE DEF vars, supVars, mainVars, worldVars, historyVars

\* What may still be launched for a restart, a reported end, or a leftover that ended.
OwedRestart == IF "restart" \in waiters THEN 1 ELSE 0
Over(p) == p # 0 /\ proc[p] = "over"
OwedEnd == IF Over(sup.child) /\ (sup.state = "running" \/ sup.at = "saving") THEN 1 ELSE 0
OwedAdopt == IF Over(adopting.pid) THEN 1 ELSE 0
Credit == born + OwedRestart + OwedEnd + OwedAdopt <= launches

Numbered == adopting.pid <= born /\ \A p \in Proc : p > born => proc[p] = "none"

\* A process whose spawn is not reported is the supervised one, and a server that starts is such a process.
Spawning ==
    /\ \A p \in Proc : proc[p] = "spawning" =>
           app = "on" /\ sup.child = p /\ sup.state \in {"starting", "stopping"} /\ sup.at \in {"no", "token"}
    /\ sup.state = "starting" => proc[sup.child] = "spawning"
    /\ app = "off" => sup = Fresh /\ waiters = {} /\ adopting = NoLeftover

\* The server is the supervised one, or the leftover the pid file names.
Readable == "kill" \notin unread
Supervised ==
    Readable =>
        /\ sup.child # 0 => Alive \subseteq {sup.child}
        /\ sup.child # 0 /\ proc[sup.child] = "up" => file = sup.child
        /\ sup.child = 0 => Alive \subseteq {file}
        /\ sup.child = 0 /\ sup.at = "token" => Alive = {}
        /\ adopting.pid \in Alive => sup.child = 0 /\ file = adopting.pid
        /\ adopting.pid # 0 /\ sup.child = 0 => Alive \subseteq {adopting.pid}

\* SteamCMD has the folder for itself, and nothing that is awaited starts the server.
Updating ==
    /\ "update" \in waiters => update = "stopping"
    /\ Readable /\ steam /\ ~mixed =>
           update = "running" /\ sup.child = 0 /\ "restart" \notin waiters /\ Alive = {}

\* Without saving only if asked in this stop; after Shutdown only what was saved.
Excused ==
    /\ sup.force => asked /\ Pending(sup)
    /\ sup.at \in {"shutdown", "waiting"} => sup.child \in saved \/ proc[sup.child] = "over"

\* What is looked at was up; what was adopted and is being checked is in a stop.
Adopting ==
    /\ adopting.pid # 0 => proc[adopting.pid] \in {"up", "over"} /\ adopting.pid \notin adopted \cup {sup.child}
    /\ adopting.ours => adopting.pid # 0
    /\ \A p \in adopted : p <= born
    /\ sup.child \in checking => sup.state = "stopping" /\ sup.at = "no"
    /\ app = "off" => adopted = {}

IInv == TypeOK /\ Credit /\ Numbered /\ Spawning /\ Supervised /\ Updating /\ Excused /\ Adopting

LEMMA NoneRestarts == 0 \in 0..MaxRestarts /\ Fresh \in Supervisor
  <1>1. 0 \in 0..MaxRestarts BY BoundsAssumption
  <1>. QED BY <1>1 DEF Fresh, Supervisor

\* A handle reports the end of a process: of one that is over, of a spawn that failed, of one whose
\* command line cannot be read.
Reports(ps) ==
    \/ proc[sup.child] = "over" /\ ps = proc /\ NoLaunch /\ UNCHANGED unread
    \/ proc[sup.child] = "spawning" /\ ps = [proc EXCEPT ![sup.child] = "over"] /\ MayLaunch /\ UNCHANGED unread
    \/ /\ proc[sup.child] = "up" /\ ps = proc /\ sup.state = "stopping" /\ sup.at = "no"
       /\ NoLaunch /\ unread' = unread \cup {"kill"}

LEMMA EndedKeeps ==
    ASSUME IInv, NEW ps, app = "on", sup.child # 0, Reports(ps), OnEnded(ps), Asks(FALSE),
           checking' \subseteq checking, UNCHANGED <<adopted, adopting, app, killed, saved, told, sessions>>
    PROVE  IInv'
  <1>. USE DEF IInv, Proc
  <1>0. 0 \in 0..MaxRestarts /\ born \in Nat /\ \A p \in checking' : p \in Proc /\ p <= born
    <2>1. 0 \in 0..MaxRestarts BY BoundsAssumption
    <2>2. born \in Nat BY DEF TypeOK
    <2>3. \A p \in checking' : p \in Proc /\ p <= born BY DEF TypeOK, Adopting
    <2>. QED BY <2>1, <2>2, <2>3
  <1>1. /\ ps \in [Proc -> {"none", "spawning", "up", "over"}] /\ sup.child \in Proc
        /\ \A q \in Proc \ {sup.child} : ps[q] = proc[q]
        /\ ps[sup.child] = "over" \/ ("kill" \in unread' /\ ps[sup.child] = "up")
        /\ \A q \in Proc : proc[q] # "spawning" => ps[q] = proc[q]
    <2>1. sup.child \in Proc /\ proc \in [Proc -> {"none", "spawning", "up", "over"}]
      BY DEF TypeOK, Supervisor
    <2>2. \/ ps = proc /\ proc[sup.child] = "over"
          \/ ps = [proc EXCEPT ![sup.child] = "over"] /\ proc[sup.child] = "spawning"
          \/ ps = proc /\ proc[sup.child] = "up" /\ "kill" \in unread'
      BY DEF Reports
    <2>. QED BY <2>1, <2>2
  <1>2. launches' \in 0..MaxLaunches /\ launches <= launches' /\ unread \subseteq unread' /\ unread' \subseteq {"kill", "launch"}
    <2>1. MaxLaunches \in Nat BY BoundsAssumption
    <2>2. launches' = launches \/ (launches < MaxLaunches /\ launches' = launches + 1)
      BY DEF Reports, NoLaunch, MayLaunch
    <2>3. launches' \in 0..MaxLaunches /\ launches <= launches' BY <2>1, <2>2 DEF TypeOK
    <2>4. unread' = unread \/ unread' = unread \cup {"kill"} BY DEF Reports
    <2>. QED BY <2>3, <2>4 DEF TypeOK
  <1>3. /\ born + OwedRestart + OwedAdopt <= launches'
        /\ sup.state # "stopping" => born + OwedRestart + OwedAdopt + 1 <= launches'
    <2>1. /\ born + OwedRestart + OwedEnd + OwedAdopt <= launches /\ launches \in Nat /\ born \in Nat
          /\ OwedRestart \in Nat /\ OwedEnd \in Nat /\ OwedAdopt \in Nat
      BY BoundsAssumption DEF TypeOK, Credit, OwedRestart, OwedEnd, OwedAdopt
    <2>2. launches' \in Nat /\ launches <= launches' BY <1>2, BoundsAssumption
    <2>3. sup.state # "stopping" => OwedEnd = 1 \/ launches' = launches + 1
      BY DEF TypeOK, Supervisor, IdleState, Reports, NoLaunch, MayLaunch, OwedEnd, Over, Spawning
    <2>. QED BY <2>1, <2>2, <2>3
  <1>4. \A q \in Proc : ps[q] = "spawning" => FALSE
    BY <1>1 DEF Spawning
  <1>5. Readable' => Readable /\ Alive \subseteq {sup.child} /\ ps[sup.child] = "over" /\ \A q \in Proc : ps[q] \notin {"spawning", "up"}
    BY <1>1, <1>2, <1>4 DEF Supervised, Readable, Alive, TypeOK
  <1>6. OwedAdopt = IF adopting.pid # 0 /\ ps[adopting.pid] = "over" THEN 1 ELSE 0
    BY <1>1 DEF OwedAdopt, Over, Adopting, TypeOK, Supervisor
  <1>7. sup.state \in {"starting", "running", "stopping"}
    BY DEF TypeOK, Supervisor, IdleState
  <1>a. PICK s : s = [sup EXCEPT !.child = 0, !.at = IF sup.at = "token" THEN sup.at ELSE "no"]
    OBVIOUS
  <1>b. /\ s \in Supervisor /\ s.state = sup.state /\ s.force = sup.force /\ s.restarts = sup.restarts
        /\ s.at = (IF sup.at = "token" THEN sup.at ELSE "no") /\ s.child = 0
        /\ sup.state # "stopping" => s.at = sup.at
    BY <1>a, <1>7 DEF TypeOK, Supervisor
  <1>c. s.restarts \in 0..MaxRestarts /\ (sup.restarts < MaxRestarts => s.restarts + 1 \in 0..MaxRestarts)
    BY <1>b, BoundsAssumption DEF Supervisor
  <1>8. CASE sup.state = "stopping" /\ "restart" \notin waiters
    <2>1. sup' = [[s EXCEPT !.state = "stopped"] EXCEPT !.at = "no", !.force = FALSE]
      BY <1>a, <1>8 DEF OnEnded, Resolve, Launch, Becomes
    <2>2. proc' = ps /\ born' = born /\ waiters' = {} /\ file' = 0
      BY <1>7, <1>8 DEF OnEnded, Resolve, Launch, Becomes, Unresolved, TypeOK, Supervisor, IdleState
    <2>3. sup'.state = "stopped" /\ sup'.child = 0 /\ sup'.at = "no" /\ ~sup'.force /\ sup' \in Supervisor
      BY <1>b, <1>c, <1>8, <2>1, <2>2, <1>0 DEF Supervisor
    <2>4. update' = (IF "update" \in waiters THEN "running" ELSE update) /\ quitting' \in BOOLEAN
      BY <1>7, <1>8 DEF OnEnded, Resolve, Launch, Becomes, Unresolved, TypeOK, Supervisor, IdleState
    <2>5. steam' = (steam \/ "update" \in waiters) /\ mixed' = mixed
      BY <1>7, <1>8 DEF OnEnded, Resolve, Launch, Becomes, Unresolved, TypeOK, Supervisor, IdleState
    <2>6. TypeOK' BY <1>0, <1>1, <1>2, <1>7, <1>8, <2>2, <2>3, <2>4, <2>5 DEF TypeOK, IdleState, Asks, Pending
    <2>7. Credit'
      BY <1>0, <1>1, <1>2, <1>7, <1>8, <2>2, <2>3, <2>4, <2>5, <1>3, <1>6 DEF TypeOK, Supervisor, Numbered, Credit,
           OwedRestart, OwedEnd, OwedAdopt, Over, IdleState
    <2>8. Numbered' BY <1>0, <1>1, <1>2, <1>7, <1>8, <2>2, <2>3, <2>4, <2>5 DEF TypeOK, Numbered
    <2>9. Spawning' BY <1>0, <1>1, <1>2, <1>7, <1>8, <2>2, <2>3, <2>4, <2>5, <1>4 DEF TypeOK, Supervisor, Spawning
    <2>10. Supervised'
      BY <1>0, <1>1, <1>2, <1>7, <1>8, <2>2, <2>3, <2>4, <2>5, <1>4, <1>5 DEF TypeOK, Supervisor, Supervised,
           Readable, Alive, Numbered
    <2>11. Updating'
      BY <1>0, <1>1, <1>2, <1>7, <1>8, <2>2, <2>3, <2>4, <2>5, <1>4, <1>5 DEF TypeOK, Supervised, Updating, Readable,
           Alive
    <2>12. Excused' BY <1>0, <1>1, <1>2, <1>7, <1>8, <2>2, <2>3, <2>4, <2>5 DEF TypeOK, Excused, Pending, Asks
    <2>13. Adopting' BY <1>0, <1>1, <1>2, <1>7, <1>8, <2>2, <2>3, <2>4, <2>5 DEF TypeOK, Adopting
    <2>. QED BY <2>6, <2>7, <2>8, <2>9, <2>10, <2>11, <2>12, <2>13
  <1>9. CASE sup.state = "stopping" /\ "restart" \in waiters
    <2>1. /\ born + 1 + OwedAdopt <= launches' /\ born + 1 \in Proc
          /\ born + 1 # sup.child /\ proc[born + 1] = "none" /\ ps[born + 1] = "none"
      BY <1>1, <1>2, <1>3, <1>9 DEF TypeOK, Supervisor, Numbered, OwedRestart, OwedAdopt
    <2>2. sup' = [[[[s EXCEPT !.state = "stopped"] EXCEPT !.at = "no", !.force = FALSE]
                     EXCEPT !.restarts = 0] EXCEPT !.state = "starting", !.child = born']
      BY <1>a, <1>9 DEF OnEnded, Resolve, Launch, Becomes
    <2>3. proc' = [ps EXCEPT ![born + 1] = "spawning"] /\ born' = born + 1 /\ waiters' = {} /\ file' = 0
      BY <1>7, <1>9, <2>1 DEF OnEnded, Resolve, Launch, Becomes, Unresolved, TypeOK, Supervisor, IdleState
    <2>4. sup'.state = "starting" /\ sup'.child = born + 1 /\ sup'.at = "no" /\ ~sup'.force /\ sup' \in Supervisor
      BY <1>b, <1>c, <1>9, <2>1, <2>2, <2>3, <1>0 DEF Supervisor
    <2>5. update' = (IF "update" \in waiters THEN "running" ELSE update) /\ quitting' \in BOOLEAN
      BY <1>7, <1>9, <2>1 DEF OnEnded, Resolve, Launch, Becomes, Unresolved, TypeOK, Supervisor, IdleState
    <2>6. steam' = (steam \/ "update" \in waiters) /\ mixed' = (mixed \/ "update" \in waiters)
      BY <1>7, <1>9, <2>1 DEF OnEnded, Resolve, Launch, Becomes, Unresolved, TypeOK, Supervisor, IdleState
    <2>7. proc' \in [Proc -> {"none", "spawning", "up", "over"}] /\ born' \in 0..launches'
      BY <1>0, <1>1, <1>2, <1>7, <1>9, <2>1, <2>3, <2>4, <2>5, <2>6 DEF TypeOK, OwedAdopt
    <2>8. TypeOK'
      BY SMTT(30), <1>0, <1>1, <1>2, <1>7, <1>9, <2>1, <2>3, <2>4, <2>5, <2>6, <2>7 DEF TypeOK, IdleState, Asks,
           Pending
    <2>9. Credit'
      BY <1>0, <1>1, <1>2, <1>7, <1>9, <2>1, <2>3, <2>4, <2>5, <2>6, <2>7, <1>3, <1>6 DEF TypeOK, Supervisor,
           Numbered, Credit, OwedRestart, OwedEnd, OwedAdopt, Over, IdleState
    <2>10. Numbered' BY <1>0, <1>1, <1>2, <1>7, <1>9, <2>1, <2>3, <2>4, <2>5, <2>6, <2>7 DEF TypeOK, Numbered
    <2>11. Spawning'
      BY <1>0, <1>1, <1>2, <1>7, <1>9, <2>1, <2>3, <2>4, <2>5, <2>6, <2>7, <1>4 DEF TypeOK, Supervisor, Spawning
    <2>12. Supervised'
      BY <1>0, <1>1, <1>2, <1>7, <1>9, <2>1, <2>3, <2>4, <2>5, <2>6, <2>7, <1>4, <1>5 DEF TypeOK, Supervisor,
           Supervised, Readable, Alive, Numbered
    <2>13. Updating'
      BY <1>0, <1>1, <1>2, <1>7, <1>9, <2>1, <2>3, <2>4, <2>5, <2>6, <2>7, <1>4, <1>5 DEF TypeOK, Supervised,
           Updating, Readable, Alive
    <2>14. Excused'
      BY <1>0, <1>1, <1>2, <1>7, <1>9, <2>1, <2>3, <2>4, <2>5, <2>6, <2>7 DEF TypeOK, Excused, Pending, Asks
    <2>15. Adopting' BY <1>0, <1>1, <1>2, <1>7, <1>9, <2>1, <2>3, <2>4, <2>5, <2>6, <2>7 DEF TypeOK, Adopting
    <2>. QED BY <2>8, <2>9, <2>10, <2>11, <2>12, <2>13, <2>14, <2>15
  <1>10. CASE sup.state # "stopping" /\ sup.restarts < MaxRestarts
    <2>1. /\ born + 1 + OwedAdopt <= launches' /\ born + 1 \in Proc
          /\ born + 1 # sup.child /\ proc[born + 1] = "none" /\ ps[born + 1] = "none"
      BY <1>1, <1>2, <1>3, <1>10 DEF TypeOK, Supervisor, Numbered, OwedRestart, OwedAdopt
    <2>2. sup' = [[s EXCEPT !.restarts = @ + 1] EXCEPT !.state = "starting", !.child = born']
      BY <1>a, <1>10 DEF OnEnded, Resolve, Launch, Becomes
    <2>3. proc' = [ps EXCEPT ![born + 1] = "spawning"] /\ born' = born + 1 /\ file' = file
      BY <1>7, <1>10, <2>1 DEF OnEnded, Resolve, Launch, Becomes, Unresolved, TypeOK, Supervisor, IdleState
    <2>4. sup'.state = "starting" /\ sup'.child = born + 1 /\ sup'.at = sup.at /\ sup'.force = sup.force /\ sup' \in Supervisor
      BY <1>b, <1>c, <1>10, <2>1, <2>2, <2>3, <1>0 DEF Supervisor
    <2>5. UNCHANGED <<waiters, update, steam, quitting, mixed>>
      BY <1>7, <1>10, <2>1 DEF OnEnded, Resolve, Launch, Becomes, Unresolved, TypeOK, Supervisor, IdleState
    <2>6. proc' \in [Proc -> {"none", "spawning", "up", "over"}] /\ born' \in 0..launches'
      BY <1>0, <1>1, <1>2, <1>7, <1>10, <2>1, <2>3, <2>4, <2>5 DEF TypeOK, OwedAdopt
    <2>7. TypeOK'
      BY SMTT(30), <1>0, <1>1, <1>2, <1>7, <1>10, <2>1, <2>3, <2>4, <2>5, <2>6 DEF TypeOK, IdleState, Asks, Pending
    <2>8. Credit'
      BY <1>0, <1>1, <1>2, <1>7, <1>10, <2>1, <2>3, <2>4, <2>5, <2>6, <1>3, <1>6 DEF TypeOK, Supervisor, Numbered,
           Credit, OwedRestart, OwedEnd, OwedAdopt, Over, IdleState
    <2>9. Numbered' BY <1>0, <1>1, <1>2, <1>7, <1>10, <2>1, <2>3, <2>4, <2>5, <2>6 DEF TypeOK, Numbered
    <2>10. Spawning'
      BY <1>0, <1>1, <1>2, <1>7, <1>10, <2>1, <2>3, <2>4, <2>5, <2>6, <1>4 DEF TypeOK, Supervisor, Spawning
    <2>11. Supervised'
      BY <1>0, <1>1, <1>2, <1>7, <1>10, <2>1, <2>3, <2>4, <2>5, <2>6, <1>4, <1>5 DEF TypeOK, Supervisor, Supervised,
           Readable, Alive, Numbered
    <2>12. Updating'
      BY <1>0, <1>1, <1>2, <1>7, <1>10, <2>1, <2>3, <2>4, <2>5, <2>6, <1>4, <1>5 DEF TypeOK, Supervised, Updating,
           Readable, Alive
    <2>13. Excused' BY <1>0, <1>1, <1>2, <1>7, <1>10, <2>1, <2>3, <2>4, <2>5, <2>6 DEF TypeOK, Excused, Pending, Asks
    <2>14. Adopting' BY <1>0, <1>1, <1>2, <1>7, <1>10, <2>1, <2>3, <2>4, <2>5, <2>6 DEF TypeOK, Adopting
    <2>. QED BY <2>7, <2>8, <2>9, <2>10, <2>11, <2>12, <2>13, <2>14
  <1>11. CASE sup.state # "stopping" /\ ~(sup.restarts < MaxRestarts)
    <2>1. sup' = [s EXCEPT !.state = "crashed"]
      BY <1>a, <1>11 DEF OnEnded, Resolve, Launch, Becomes
    <2>2. proc' = ps /\ born' = born /\ file' = 0
      BY <1>7, <1>11 DEF OnEnded, Resolve, Launch, Becomes, Unresolved, TypeOK, Supervisor, IdleState
    <2>3. sup'.state = "crashed" /\ sup'.child = 0 /\ sup'.at = sup.at /\ sup'.force = sup.force /\ sup' \in Supervisor
      BY <1>b, <1>c, <1>11, <2>1, <2>2, <1>0 DEF Supervisor
    <2>4. UNCHANGED <<waiters, update, steam, quitting, mixed>>
      BY <1>7, <1>11 DEF OnEnded, Resolve, Launch, Becomes, Unresolved, TypeOK, Supervisor, IdleState
    <2>5. TypeOK' BY <1>0, <1>1, <1>2, <1>7, <1>11, <2>2, <2>3, <2>4 DEF TypeOK, IdleState, Asks, Pending
    <2>6. Credit'
      BY <1>0, <1>1, <1>2, <1>7, <1>11, <2>2, <2>3, <2>4, <1>3, <1>6 DEF TypeOK, Supervisor, Numbered, Credit,
           OwedRestart, OwedEnd, OwedAdopt, Over, IdleState
    <2>7. Numbered' BY <1>0, <1>1, <1>2, <1>7, <1>11, <2>2, <2>3, <2>4 DEF TypeOK, Numbered
    <2>8. Spawning' BY <1>0, <1>1, <1>2, <1>7, <1>11, <2>2, <2>3, <2>4, <1>4 DEF TypeOK, Supervisor, Spawning
    <2>9. Supervised'
      BY <1>0, <1>1, <1>2, <1>7, <1>11, <2>2, <2>3, <2>4, <1>4, <1>5 DEF TypeOK, Supervisor, Supervised, Readable,
           Alive, Numbered
    <2>10. Updating'
      BY <1>0, <1>1, <1>2, <1>7, <1>11, <2>2, <2>3, <2>4, <1>4, <1>5 DEF TypeOK, Supervised, Updating, Readable, Alive
    <2>11. Excused' BY <1>0, <1>1, <1>2, <1>7, <1>11, <2>2, <2>3, <2>4 DEF TypeOK, Excused, Pending, Asks
    <2>12. Adopting' BY <1>0, <1>1, <1>2, <1>7, <1>11, <2>2, <2>3, <2>4 DEF TypeOK, Adopting
    <2>. QED BY <2>5, <2>6, <2>7, <2>8, <2>9, <2>10, <2>11, <2>12
  <1>. QED BY <1>8, <1>9, <1>10, <1>11

LEMMA SpawnFailsKeeps == ASSUME IInv, NEW p \in Proc, SpawnFails(p) PROVE IInv'
  <1>1. app = "on" /\ sup.child = p /\ p # 0 /\ proc[p] = "spawning" BY DEF IInv, Spawning, SpawnFails, Proc
  <1>2. PICK ps : ps = [proc EXCEPT ![p] = "over"] OBVIOUS
  <1>3. OnEnded(ps) BY <1>2 DEF SpawnFails
  <1>4. Reports(ps) BY <1>1, <1>2 DEF SpawnFails, Reports
  <1>. QED BY <1>1, <1>3, <1>4, EndedKeeps DEF SpawnFails, NoKill

LEMMA EndEventKeeps == ASSUME IInv, EndEvent PROVE IInv'
  <1>1. PICK ps : ps = proc OBVIOUS
  <1>2. OnEnded(ps) BY <1>1 DEF EndEvent
  <1>3. Reports(ps) BY <1>1 DEF EndEvent, Reports
  <1>. QED BY <1>2, <1>3, EndedKeeps DEF EndEvent, NoKill

LEMMA KillCheckKeeps == ASSUME IInv, NEW p \in Proc, NEW b \in BOOLEAN, KillCheck(p, b) PROVE IInv'
  <1>1. CASE ~b /\ sup.child = p
    <2>1. PICK ps : ps = proc OBVIOUS
    <2>2. OnEnded(ps) BY <1>1, <2>1 DEF KillCheck
    <2>3. Reports(ps) BY <1>1, <2>1 DEF KillCheck, Reports, IInv, Adopting
    <2>4. p # 0 BY DEF Proc
    <2>. QED BY <1>1, <2>2, <2>3, <2>4, EndedKeeps DEF KillCheck
  <1>2. CASE b \/ sup.child # p
    <2>1. /\ UNCHANGED <<sup, proc, born, waiters, update, steam, quitting, mixed, file, asked>>
          /\ unread' = unread \/ unread' = unread \cup {"kill"}
      BY <1>2 DEF KillCheck, Becomes, Unresolved
    <2>2. /\ checking' = checking \ {p} /\ UNCHANGED <<told, adopted, adopting, app, saved, sessions, launches>>
          /\ killed' = killed \cup {p} \/ killed' = killed
      BY DEF KillCheck, NoLaunch
    <2>a. /\ unread' \subseteq {"kill", "launch"} /\ killed' \subseteq Proc /\ checking' \subseteq adopted
      BY <2>1, <2>2 DEF IInv, TypeOK
    <2>3. TypeOK' BY <2>1, <2>2, <2>a DEF IInv, TypeOK, IdleState
    <2>4. Credit' BY <2>1, <2>2 DEF IInv, Credit, OwedRestart, OwedEnd, OwedAdopt, Over
    <2>5. Numbered' BY <2>1, <2>2 DEF IInv, Numbered
    <2>6. Spawning' BY <2>1, <2>2 DEF IInv, Spawning
    <2>7. Supervised' BY <2>1, <2>2 DEF IInv, Supervised, Readable, Alive
    <2>8. Updating' BY <2>1, <2>2 DEF IInv, Updating, Readable, Alive
    <2>9. Excused' BY <2>1, <2>2 DEF IInv, Excused, Pending
    <2>10. Adopting' BY <2>1, <2>2 DEF IInv, Adopting
    <2>. QED BY <2>3, <2>4, <2>5, <2>6, <2>7, <2>8, <2>9, <2>10 DEF IInv
  <1>. QED BY <1>1, <1>2

\* finishStop: nobody waits any more, and what may follow it finds no server.
LEMMA ResolvedKeeps ==
    ASSUME IInv, app = "on", NEW s \in Supervisor, NEW waiting \in SUBSET {"stop", "restart", "update", "quit"},
           NEW outcome, NEW ps, ps = proc, Resolve(s, waiting, outcome, ps),
           waiting = waiters \/ update = "no",
           s.child = sup.child, s.child = 0 <=> s.state \in {"stopped", "crashed"},
           s.state = sup.state \/ (s.state = "running" /\ proc[sup.child] # "spawning" /\ sup.at = "saving"),
           outcome = "stopped" /\ waiting \cap {"restart", "update"} # {} => sup.child = 0 /\ (Readable => Alive = {}),
           launches' \in 0..MaxLaunches, launches <= launches',
           outcome = "stopped" /\ "restart" \in waiting => born + 1 + OwedAdopt <= launches',
           asked' \in BOOLEAN,
           UNCHANGED <<adopted, checking, adopting, app, killed, file, saved, told, unread, sessions>>
    PROVE  IInv'
  <1>1. /\ sup.child \in Proc \cup {0} /\ proc \in [Proc -> {"none", "spawning", "up", "over"}] /\ born \in 0..launches
        /\ waiters' = {} /\ quitting' \in BOOLEAN
        /\ update' = (IF outcome = "stopped" /\ "update" \in waiting THEN "running"
                      ELSE IF "update" \in waiting THEN "no" ELSE update)
        /\ steam' = (steam \/ (outcome = "stopped" /\ "update" \in waiting))
        /\ mixed' = (mixed \/ (outcome = "stopped" /\ "update" \in waiting /\ "restart" \in waiting))
    BY DEF IInv, TypeOK, Supervisor, Resolve
  <1>2. Readable' = Readable BY DEF Readable
  <1>3. CASE outcome = "stopped" /\ "restart" \in waiting
    <2>1. /\ sup' = [[[s EXCEPT !.at = "no", !.force = FALSE] EXCEPT !.restarts = 0]
                      EXCEPT !.state = "starting", !.child = born']
          /\ born' = born + 1 /\ proc' = [proc EXCEPT ![born + 1] = "spawning"]
      BY <1>3 DEF Resolve, Launch
    <2>2. /\ born + 1 \in Proc /\ proc[born + 1] = "none" /\ born + 1 \in 0..launches' /\ born \in Nat
          /\ \A p \in adopted : p \in Proc /\ p <= born
      BY <1>1, <1>3 DEF IInv, TypeOK, Numbered, OwedAdopt, Proc, Adopting
    <2>3. /\ sup' \in Supervisor /\ sup'.state = "starting" /\ sup'.child = born + 1
          /\ sup'.at = "no" /\ ~sup'.force
      BY <2>1, <2>2, NoneRestarts DEF Supervisor
    <2>4. sup.child = 0 /\ (Readable => \A p \in Proc : proc[p] \notin {"spawning", "up"}) BY <1>3 DEF Alive
    <2>5. \A p \in Proc : proc[p] # "spawning" BY <2>4 DEF IInv, Spawning, Proc
    <2>6. /\ born + 1 \notin checking
          /\ adopting.pid # 0 => adopting.pid \in Proc /\ adopting.pid # born + 1
      BY <2>2 DEF IInv, TypeOK, Numbered, Adopting
    <2>7. TypeOK' BY <1>1, <2>1, <2>2, <2>3 DEF IInv, TypeOK, IdleState
    <2>8. Credit'
      BY <1>1, <1>3, <2>1, <2>2, <2>3, <2>6 DEF IInv, TypeOK, Credit, OwedRestart, OwedEnd, OwedAdopt, Over
    <2>9. Numbered' BY <1>1, <2>1, <2>2 DEF IInv, TypeOK, Numbered, Proc
    <2>10. Spawning' BY <1>1, <2>1, <2>2, <2>3, <2>5 DEF Spawning
    <2>11. Supervised' BY <1>1, <1>2, <2>1, <2>2, <2>3, <2>4, <2>6 DEF Supervised, Alive
    <2>12. Updating'
      <3>1. steam /\ ~mixed /\ Readable => FALSE BY <1>3 DEF IInv, Updating
      <3>. QED BY <1>1, <1>2, <1>3, <3>1 DEF Updating
    <2>13. Excused' BY <2>3 DEF Excused
    <2>14. Adopting'
      <3>1. \A p \in adopted' : p <= born' BY <2>1, <2>2 DEF Proc
      <3>. QED BY <1>1, <2>1, <2>2, <2>3, <2>6, <3>1 DEF IInv, Adopting
    <2>. QED BY <2>7, <2>8, <2>9, <2>10, <2>11, <2>12, <2>13, <2>14 DEF IInv
  <1>4. CASE ~(outcome = "stopped" /\ "restart" \in waiting)
    <2>1. sup' = [s EXCEPT !.at = "no", !.force = FALSE] /\ born' = born /\ proc' = proc
      BY <1>4 DEF Resolve, Becomes
    <2>2. sup' \in Supervisor /\ sup'.state = s.state /\ sup'.child = sup.child /\ sup'.at = "no" /\ ~sup'.force
      BY <2>1 DEF Supervisor
    <2>3. TypeOK' BY <1>1, <2>1, <2>2 DEF IInv, TypeOK, IdleState
    <2>4. Credit' BY <1>1, <2>1, <2>2 DEF IInv, TypeOK, Credit, OwedRestart, OwedEnd, OwedAdopt, Over
    <2>5. Numbered' BY <1>1, <2>1 DEF IInv, TypeOK, Numbered
    <2>6. Spawning' BY <1>1, <2>1, <2>2 DEF IInv, Spawning
    <2>7. Supervised' BY <1>1, <1>2, <2>1, <2>2 DEF IInv, Supervised, Alive
    <2>8. Updating' BY <1>1, <1>2, <1>4, <2>1, <2>2 DEF IInv, Updating, Alive
    <2>9. Excused' BY <2>2 DEF Excused
    <2>10. Adopting' BY <1>1, <2>1, <2>2 DEF IInv, Adopting
    <2>. QED BY <2>3, <2>4, <2>5, <2>6, <2>7, <2>8, <2>9, <2>10 DEF IInv
  <1>. QED BY <1>3, <1>4

LEMMA TokenReadKeeps == ASSUME IInv, NEW b \in BOOLEAN, TokenRead(b) PROVE IInv'
  <1>. DEFINE S == [sup EXCEPT !.at = "no"]
  <1>1. /\ app = "on" /\ sup.at = "token" /\ asked' \in BOOLEAN /\ launches' = launches
        /\ UNCHANGED <<adopted, adopting, app, file, saved, unread, sessions>>
    BY DEF TokenRead, CleanStep, NoLaunch, Asks, IInv, TypeOK, Pending
  <1>2. launches \in 0..MaxLaunches /\ waiters \in SUBSET {"stop", "restart", "update", "quit"} /\ sup \in Supervisor
    BY DEF IInv, TypeOK
  <1>3. PICK ps : ps = proc OBVIOUS
  <1>4. PICK w : w = waiters OBVIOUS
  <1>5. PICK s : s = S OBVIOUS
  <1>6. s \in Supervisor /\ s.child = sup.child /\ s.state = sup.state BY <1>2, <1>5 DEF Supervisor
  <1>a. sup.child = 0 <=> sup.state \in {"stopped", "crashed"} BY DEF IInv, TypeOK, IdleState
  <1>b. launches' \in 0..MaxLaunches /\ launches <= launches' BY <1>1, <1>2
  <1>7. CASE sup.child = 0
    <2>1. Resolve(s, w, "stopped", ps) /\ UNCHANGED <<killed, checking, told>>
      BY <1>a, <1>3, <1>4, <1>5, <1>7 DEF TokenRead, NoKill
    <2>2. Readable => Alive = {} BY <1>1, <1>7 DEF IInv, Supervised
    <2>3. "restart" \in w => born + 1 + OwedAdopt <= launches'
      BY <1>1, <1>4 DEF IInv, TypeOK, Credit, OwedRestart, OwedEnd, OwedAdopt
    <2>. QED BY <1>1, <1>2, <1>3, <1>4, <1>6, <1>7, <1>a, <1>b, <2>1, <2>2, <2>3, ResolvedKeeps
  <1>8. CASE sup.child # 0 /\ ~(sup.state = "running" /\ (sup.force \/ b))
    <2>1. PICK o \in {"failed", "unavailable"} : Resolve(s, w, o, ps) /\ UNCHANGED <<killed, checking, told>>
      BY <1>3, <1>4, <1>5, <1>8 DEF TokenRead, NoKill
    <2>2. o # "stopped" BY <2>1
    <2>. QED BY <1>1, <1>2, <1>3, <1>4, <1>6, <1>8, <1>a, <1>b, <2>1, <2>2, ResolvedKeeps
  <1>9. CASE sup.state = "running" /\ (sup.force \/ b)
    <2>1. /\ sup' = (IF sup.force THEN [s EXCEPT !.state = "stopping", !.at = "no"]
                     ELSE [s EXCEPT !.state = "stopping", !.at = "saving"])
          /\ UNCHANGED <<proc, born, waiters, update, steam, quitting, mixed>>
      BY <1>a, <1>5, <1>9 DEF TokenRead, ForceStop, Becomes, Unresolved
    <2>2. /\ sup' \in Supervisor /\ sup'.state = "stopping" /\ sup'.child = sup.child
          /\ sup'.at = (IF sup.force THEN "no" ELSE "saving") /\ sup'.force = sup.force
      BY <1>2, <1>5, <2>1 DEF Supervisor
    <2>3. /\ told' \in {told, told \cup {sup.child}} /\ killed' \in {killed, killed \cup {sup.child}}
          /\ checking' = checking \/ (sup.child \in adopted /\ sup.force /\ checking' = checking \cup {sup.child})
      BY <1>a, <1>9 DEF TokenRead, ForceStop, Kill, NoKill
    <2>4. sup.child \in Proc /\ sup.child \notin checking /\ proc[sup.child] # "spawning"
      BY <1>2, <1>a, <1>9 DEF IInv, Adopting, Spawning, Supervisor
    <2>a. told' \subseteq Proc /\ killed' \subseteq Proc /\ checking' \subseteq adopted BY <2>3, <2>4 DEF IInv, TypeOK
    <2>b. Pending(sup') /\ asked' = asked
      <3>1. asked' = (Pending(sup') /\ asked) /\ asked \in BOOLEAN BY DEF TokenRead, Asks, IInv, TypeOK
      <3>. QED BY <2>2, <3>1 DEF Pending
    <2>c. UNCHANGED <<proc, born, waiters, update, steam, quitting, mixed>> BY <2>1
    <2>5. TypeOK' BY <1>1, <1>2, <1>9, <1>a, <2>2, <2>4, <2>a, <2>c DEF IInv, TypeOK, IdleState
    <2>6. Credit' BY <1>1, <1>9, <2>1, <2>2 DEF IInv, TypeOK, Credit, OwedRestart, OwedEnd, OwedAdopt, Over
    <2>7. Numbered' BY <1>1, <2>1 DEF IInv, TypeOK, Numbered
    <2>8. Spawning' BY <1>1, <1>9, <2>1, <2>2 DEF IInv, Spawning
    <2>9. Supervised' BY <1>1, <2>1, <2>2 DEF IInv, Supervised, Readable, Alive
    <2>10. Updating' BY <1>1, <2>1, <2>2 DEF IInv, Updating, Readable, Alive
    <2>11. Excused' BY <1>1, <2>1, <2>2, <2>b DEF IInv, Excused
    <2>12. Adopting' BY <1>1, <2>1, <2>2, <2>3, <2>4 DEF IInv, Adopting
    <2>. QED BY <2>5, <2>6, <2>7, <2>8, <2>9, <2>10, <2>11, <2>12 DEF IInv
  <1>. QED BY <1>7, <1>8, <1>9 DEF IInv, TypeOK, IdleState

LEMMA SaveFailsKeeps == ASSUME IInv, SaveFails PROVE IInv'
  <1>1. /\ app = "on" /\ sup.at = "saving" /\ asked' \in BOOLEAN /\ launches' = launches
        /\ UNCHANGED <<adopted, checking, adopting, app, killed, file, saved, told, unread, sessions>>
    BY DEF SaveFails, CleanStep, NoLaunch, NoKill, Asks, IInv, TypeOK, Pending
  <1>2. launches \in 0..MaxLaunches /\ waiters \in SUBSET {"stop", "restart", "update", "quit"} /\ sup \in Supervisor
    BY DEF IInv, TypeOK
  <1>3. PICK ps : ps = proc OBVIOUS
  <1>4. PICK w : w = waiters OBVIOUS
  <1>5. PICK s : s = [sup EXCEPT !.state = "running"] OBVIOUS
  <1>6. s \in Supervisor /\ s.child = sup.child /\ s.state = "running" BY <1>2, <1>5 DEF Supervisor
  <1>7. sup.child \in Proc /\ proc[sup.child] # "spawning"
    BY <1>1, <1>2 DEF IInv, TypeOK, IdleState, Spawning, Supervisor
  <1>8. Resolve(s, w, "failed", ps) BY <1>3, <1>4, <1>5 DEF SaveFails
  <1>9. launches' \in 0..MaxLaunches /\ launches <= launches' BY <1>1, <1>2
  <1>10. s.child = 0 <=> s.state \in {"stopped", "crashed"} BY <1>6, <1>7 DEF Proc
  <1>. QED BY <1>1, <1>2, <1>3, <1>4, <1>6, <1>7, <1>8, <1>9, <1>10, ResolvedKeeps

LEMMA StopForKeeps ==
    ASSUME IInv, NEW what \in {"stop", "restart", "update", "quit"}, NEW any \in BOOLEAN, Asked, update = "no",
           StopFor(what, any), launches' \in 0..MaxLaunches, launches <= launches',
           what = "restart" => ~Leftover /\ launches + 1 <= launches',
           what = "update" => sup.state = "running"
    PROVE  IInv'
  <1>1. /\ app = "on" /\ UNCHANGED <<adopted, adopting, app, file, saved, unread, sessions>>
        /\ asked' = (Pending(sup') /\ (asked \/ any)) /\ asked' \in BOOLEAN
    BY DEF Asked, StopFor, Asks, Pending, IInv, TypeOK
  <1>2. launches \in 0..MaxLaunches /\ waiters \in SUBSET {"stop", "restart", "update", "quit"} /\ sup \in Supervisor
    BY DEF IInv, TypeOK
  <1>3. CASE ~Pending(sup) /\ IdleState
    <2>1. PICK ps : ps = proc OBVIOUS
    <2>2. PICK s : s = sup OBVIOUS
    <2>3. Resolve(s, {what}, "stopped", ps) /\ UNCHANGED <<killed, checking, told>>
      BY <1>3, <2>1, <2>2 DEF StopFor, NoKill
    <2>4. sup.child = 0 /\ (what = "restart" => file \notin Alive) BY <1>3 DEF IInv, TypeOK, IdleState, Leftover
    <2>5. what = "restart" => (Readable => Alive = {}) /\ born + 1 + OwedAdopt <= launches'
      BY <1>2, <2>4 DEF IInv, TypeOK, Supervised, Credit, OwedRestart, OwedEnd, OwedAdopt
    <2>6. what # "update" BY <1>3 DEF IdleState
    <2>7. {what} \in SUBSET {"stop", "restart", "update", "quit"} /\ s \in Supervisor BY <1>2, <2>2
    <2>8. s.child = 0 <=> s.state \in {"stopped", "crashed"} BY <2>2 DEF IInv, TypeOK, IdleState
    <2>9. {what} \cap {"restart", "update"} # {} => what = "restart" BY <2>6
    <2>. QED BY <1>1, <2>1, <2>2, <2>3, <2>4, <2>5, <2>7, <2>8, <2>9, ResolvedKeeps
  <1>4. CASE Pending(sup) \/ ~IdleState
    <2>1. /\ waiters' = (IF Pending(sup) THEN waiters \cup {what} ELSE {what})
          /\ update' = (IF what = "update" THEN "stopping" ELSE update)
          /\ UNCHANGED <<steam, quitting, mixed, proc, born>>
      BY <1>4 DEF StopFor, Waits, ForceStop, Becomes
    <2>2. /\ sup.at \in {"saving", "shutdown", "waiting"} => sup.state = "stopping"
          /\ sup.child = 0 <=> sup.state \in {"stopped", "crashed"}
          /\ checking \subseteq adopted /\ adopted \subseteq Proc /\ told \subseteq Proc /\ killed \subseteq Proc
      BY DEF IInv, TypeOK, IdleState
    <2>3. CASE \/ Pending(sup) /\ any /\ sup.state = "stopping"
               \/ ~Pending(sup) /\ (any \/ sup.state = "starting")
      <3>1. sup' = [sup EXCEPT !.state = "stopping", !.at = "no"] /\ Kill(sup.child)
        BY <1>4, <2>3 DEF StopFor, ForceStop, Becomes
      <3>2. sup.state \in {"starting", "running", "stopping"} /\ sup.child \in Proc
        BY <1>2, <1>4, <2>2, <2>3 DEF Supervisor, Pending, IdleState
      <3>3. /\ sup' \in Supervisor /\ sup'.state = "stopping" /\ sup'.child = sup.child
            /\ sup'.at = "no" /\ sup'.force = sup.force /\ Pending(sup')
        BY <1>2, <3>1 DEF Supervisor, Pending
      <3>4. /\ told' \subseteq Proc /\ killed' \subseteq Proc /\ checking' \subseteq adopted
        BY <2>2, <3>1, <3>2 DEF Kill
      <3>5. TypeOK' BY <1>1, <2>1, <2>2, <3>2, <3>3, <3>4 DEF IInv, TypeOK, IdleState, Supervisor
      <3>6. Credit' BY <1>1, <1>2, <2>1, <3>2, <3>3 DEF IInv, TypeOK, Credit, OwedRestart, OwedEnd, OwedAdopt, Over
      <3>7. Numbered' BY <1>1, <2>1 DEF IInv, TypeOK, Numbered
      <3>8. Spawning' BY <1>1, <2>1, <3>2, <3>3 DEF IInv, Spawning
      <3>9. Supervised' BY <1>1, <2>1, <3>2, <3>3 DEF IInv, Supervised, Readable, Alive, Proc
      <3>10. Updating' BY <1>1, <2>1, <3>3 DEF IInv, Updating, Readable, Alive
      <3>11. Excused' BY <1>1, <2>1, <3>3 DEF IInv, Excused
      <3>12. Adopting' BY <1>1, <2>1, <3>3, <3>4 DEF IInv, TypeOK, Adopting
      <3>. QED BY <3>5, <3>6, <3>7, <3>8, <3>9, <3>10, <3>11, <3>12 DEF IInv
    <2>4. CASE ~(\/ Pending(sup) /\ any /\ sup.state = "stopping"
                 \/ ~Pending(sup) /\ (any \/ sup.state = "starting"))
      <3>1. /\ sup' = (IF Pending(sup) THEN [sup EXCEPT !.force = @ \/ any] ELSE [sup EXCEPT !.at = "token"])
            /\ UNCHANGED <<killed, checking, told>>
        BY <1>4, <2>4 DEF StopFor, Becomes, NoKill
      <3>2. ~Pending(sup) => sup.state = "running" /\ sup.at = "no"
        BY <1>2, <1>4, <2>2, <2>4 DEF Supervisor, Pending, IdleState
      <3>3. /\ sup' \in Supervisor /\ sup'.state = sup.state /\ sup'.child = sup.child
            /\ sup'.at = (IF Pending(sup) THEN sup.at ELSE "token") /\ Pending(sup')
            /\ sup'.force = (sup.force \/ (any /\ Pending(sup)))
        BY <1>2, <3>1 DEF Supervisor, Pending
      <3>5. TypeOK' BY <1>1, <2>1, <2>2, <3>1, <3>2, <3>3 DEF IInv, TypeOK, IdleState
      <3>6. Credit' BY <1>1, <1>2, <2>1, <3>2, <3>3 DEF IInv, TypeOK, Credit, OwedRestart, OwedEnd, OwedAdopt, Over
      <3>7. Numbered' BY <1>1, <2>1 DEF IInv, TypeOK, Numbered
      <3>8. Spawning' BY <1>1, <2>1, <3>2, <3>3 DEF IInv, Spawning
      <3>9. Supervised' BY <1>1, <2>1, <2>2, <3>2, <3>3 DEF IInv, Supervised, Readable, Alive, Proc
      <3>10. Updating' BY <1>1, <2>1, <3>3 DEF IInv, Updating, Readable, Alive
      <3>11. Excused' BY <1>1, <2>1, <3>2, <3>3 DEF IInv, Excused, Pending
      <3>12. Adopting' BY <1>1, <2>1, <3>1, <3>2, <3>3 DEF IInv, Adopting
      <3>. QED BY <3>5, <3>6, <3>7, <3>8, <3>9, <3>10, <3>11, <3>12 DEF IInv
    <2>. QED BY <2>3, <2>4
  <1>. QED BY <1>3, <1>4

LEMMA UpdateKeeps == ASSUME IInv, NEW any \in BOOLEAN, Update(any) PROVE IInv'
  <1>1. launches \in 0..MaxLaunches /\ launches' = launches BY DEF IInv, TypeOK, Update, NoLaunch
  <1>2. CASE sup.state = "running"
    <2>1. Asked /\ update = "no" /\ StopFor("update", any) BY <1>2 DEF Update
    <2>2. launches' \in 0..MaxLaunches /\ launches <= launches' BY <1>1
    <2>. QED BY <1>2, <2>1, <2>2, StopForKeeps
  <1>3. CASE sup.state # "running"
    <2>1. /\ app = "on" /\ update = "no" /\ update' = "running" /\ steam' = TRUE
          /\ mixed' = (mixed \/ "restart" \in waiters)
          /\ UNCHANGED <<sup, waiters, quitting, proc, born, asked, killed, checking, told, adopted, adopting,
                         app, file, saved, unread, sessions, launches>>
      BY <1>3 DEF Update, Asked, NoKill, NoLaunch
    <2>2. sup.child = 0 /\ file \notin Alive
      BY <1>3 DEF IInv, TypeOK, Supervisor, Update, MayUpdate, IdleState, Leftover
    <2>3. TypeOK' BY <2>1 DEF IInv, TypeOK, IdleState
    <2>4. Credit' BY <2>1 DEF IInv, Credit, OwedRestart, OwedEnd, OwedAdopt, Over
    <2>5. Numbered' /\ Spawning' BY <2>1 DEF IInv, Numbered, Spawning
    <2>6. Supervised' BY <2>1 DEF IInv, Supervised, Readable, Alive
    <2>7. Updating'
      <3>1. Readable => Alive = {} BY <2>2 DEF IInv, Supervised
      <3>2. Alive' = Alive /\ Readable' = Readable BY <2>1 DEF Alive, Readable
      <3>. QED BY <2>1, <2>2, <3>1, <3>2 DEF IInv, TypeOK, Updating
    <2>8. Excused' /\ Adopting' BY <2>1 DEF IInv, Excused, Adopting, Pending
    <2>. QED BY <2>3, <2>4, <2>5, <2>6, <2>7, <2>8 DEF IInv
  <1>. QED BY <1>2, <1>3

LEMMA AskKeeps == ASSUME IInv, NEW any \in BOOLEAN, Stop(any) \/ Restart(any) \/ StopAndQuit PROVE IInv'
  <1>1. launches \in 0..MaxLaunches BY DEF IInv, TypeOK
  <1>2. CASE Restart(any)
    <2>1. Asked /\ update = "no" /\ ~Leftover /\ StopFor("restart", any) /\ launches < MaxLaunches /\ launches' = launches + 1
      BY <1>2 DEF Restart, MayLaunch
    <2>2. launches' \in 0..MaxLaunches /\ launches + 1 <= launches' /\ launches <= launches'
      BY <1>1, <2>1, BoundsAssumption
    <2>. QED BY <2>1, <2>2, StopForKeeps
  <1>3. CASE Stop(any)
    <2>1. Asked /\ update = "no" /\ StopFor("stop", any) /\ launches' = launches BY <1>3 DEF Stop, NoLaunch
    <2>. QED BY <1>1, <2>1, StopForKeeps
  <1>4. CASE StopAndQuit
    <2>1. PICK no \in BOOLEAN : no = FALSE OBVIOUS
    <2>2. Asked /\ update = "no" /\ StopFor("quit", no) /\ launches' = launches
      BY <1>4, <2>1 DEF StopAndQuit, NoLaunch
    <2>. QED BY <1>1, <2>1, <2>2, StopForKeeps
  <1>. QED BY <1>2, <1>3, <1>4

LEMMA SpawnedKeeps == ASSUME IInv, NEW p \in Proc, Spawned(p) PROVE IInv'
  <1>1. TypeOK'
    <2>1. sup' = (IF sup.child = p /\ sup.state = "starting" THEN [sup EXCEPT !.state = "running"] ELSE sup)
      BY DEF Spawned, Becomes
    <2>2. /\ sup' \in Supervisor /\ sup'.child = sup.child /\ sup'.at = sup.at
          /\ sup'.state = sup.state \/ (sup.state = "starting" /\ sup'.state = "running")
      BY <2>1 DEF IInv, TypeOK, Supervisor
    <2>3. sup.child = 0 <=> sup.state \in {"stopped", "crashed"} BY DEF IInv, TypeOK, IdleState
    <2>. QED BY <2>2, <2>3 DEF IInv, Spawned, Recorded, Becomes, Unresolved, NoKill, NoLaunch, TypeOK, IdleState
  <1>2. Credit'
    BY DEF IInv, Spawned, Recorded, Becomes, Unresolved, NoKill, NoLaunch, TypeOK, Supervisor, Credit, OwedRestart,
         OwedEnd, OwedAdopt, Over, IdleState, NoLeftover, Fresh, Proc
  <1>3. Numbered'
    BY DEF IInv, Spawned, Recorded, Becomes, Unresolved, NoKill, NoLaunch, TypeOK, Supervisor, Numbered, NoLeftover,
         Proc, Credit, OwedRestart, OwedEnd, OwedAdopt, Over, IdleState
  <1>4. Spawning'
    BY DEF IInv, Spawned, Recorded, Becomes, Unresolved, NoKill, NoLaunch, TypeOK, Supervisor, Spawning, IdleState,
         NoLeftover, Fresh, Proc
  <1>5. Supervised'
    BY DEF IInv, Spawned, Recorded, Becomes, Unresolved, NoKill, NoLaunch, TypeOK, Supervisor, Spawning, Supervised,
         Readable, Alive, IdleState, NoLeftover, Fresh, Numbered, Adopting, Proc
  <1>6. Updating'
    BY DEF IInv, Spawned, Recorded, Becomes, Unresolved, NoKill, NoLaunch, TypeOK, Supervisor, Spawning, Supervised,
         Updating, Readable, Alive, IdleState, Fresh, Proc
  <1>7. Excused'
    BY DEF IInv, Spawned, Recorded, Becomes, Unresolved, NoKill, NoLaunch, TypeOK, Supervisor, Spawning, Excused,
         Pending, IdleState, Fresh, Proc
  <1>8. Adopting'
    BY DEF IInv, Spawned, Recorded, Becomes, Unresolved, NoKill, NoLaunch, TypeOK, Supervisor, Spawning, Adopting,
         IdleState, NoLeftover, Fresh, Numbered, Alive, Proc
  <1>. QED BY <1>1, <1>2, <1>3, <1>4, <1>5, <1>6, <1>7, <1>8 DEF IInv

LEMMA SavedKeeps == ASSUME IInv, Saved PROVE IInv'
  <1>1. TypeOK'
    BY DEF IInv, Saved, CleanStep, NoLaunch, Unresolved, Becomes, NoKill, Asks, TypeOK, Supervisor, IdleState,
         NoLeftover, Fresh, Proc, Pending
  <1>2. Credit'
    BY DEF IInv, Saved, CleanStep, NoLaunch, Unresolved, Becomes, NoKill, Asks, TypeOK, Supervisor, Credit,
         OwedRestart, OwedEnd, OwedAdopt, Over, IdleState, NoLeftover, Fresh, Proc, Pending
  <1>3. Numbered'
    BY DEF IInv, Saved, CleanStep, NoLaunch, Unresolved, Becomes, NoKill, Asks, TypeOK, Supervisor, Numbered,
         NoLeftover, Proc, Credit, OwedRestart, OwedEnd, OwedAdopt, Over, IdleState, Pending
  <1>4. Spawning'
    BY DEF IInv, Saved, CleanStep, NoLaunch, Unresolved, Becomes, NoKill, Asks, TypeOK, Supervisor, Spawning,
         IdleState, NoLeftover, Fresh, Proc, Pending
  <1>5. Supervised'
    BY DEF IInv, Saved, CleanStep, NoLaunch, Unresolved, Becomes, NoKill, Asks, TypeOK, Supervisor, Spawning,
         Supervised, Readable, Alive, IdleState, NoLeftover, Fresh, Numbered, Adopting, Proc, Pending
  <1>6. Updating'
    BY DEF IInv, Saved, CleanStep, NoLaunch, Unresolved, Becomes, NoKill, Asks, TypeOK, Supervisor, Spawning,
         Supervised, Updating, Readable, Alive, IdleState, Fresh, Proc, Pending
  <1>7. Excused'
    BY DEF IInv, Saved, CleanStep, NoLaunch, Unresolved, Becomes, NoKill, Asks, TypeOK, Supervisor, Spawning,
         Excused, Pending, IdleState, Fresh, Proc
  <1>8. Adopting'
    BY DEF IInv, Saved, CleanStep, NoLaunch, Unresolved, Becomes, NoKill, Asks, TypeOK, Supervisor, Spawning,
         Adopting, IdleState, NoLeftover, Fresh, Numbered, Alive, Proc, Pending
  <1>. QED BY <1>1, <1>2, <1>3, <1>4, <1>5, <1>6, <1>7, <1>8 DEF IInv

LEMMA ShutDownAnsweredKeeps == ASSUME IInv, NEW b \in BOOLEAN, ShutDownAnswered(b) PROVE IInv'
  <1>1. TypeOK'
    BY DEF IInv, ShutDownAnswered, AfterShutdown, CleanStep, NoLaunch, Unresolved, Becomes, NoKill, Asks, TypeOK,
         Supervisor, IdleState, NoLeftover, Fresh, Proc, Pending
  <1>2. Credit'
    BY DEF IInv, ShutDownAnswered, AfterShutdown, CleanStep, NoLaunch, Unresolved, Becomes, NoKill, Asks, TypeOK,
         Supervisor, Credit, OwedRestart, OwedEnd, OwedAdopt, Over, IdleState, NoLeftover, Fresh, Proc, Pending
  <1>3. Numbered'
    BY DEF IInv, ShutDownAnswered, AfterShutdown, CleanStep, NoLaunch, Unresolved, Becomes, NoKill, Asks, TypeOK,
         Supervisor, Numbered, NoLeftover, Proc, Credit, OwedRestart, OwedEnd, OwedAdopt, Over, IdleState, Pending
  <1>4. Spawning'
    BY DEF IInv, ShutDownAnswered, AfterShutdown, CleanStep, NoLaunch, Unresolved, Becomes, NoKill, Asks, TypeOK,
         Supervisor, Spawning, IdleState, NoLeftover, Fresh, Proc, Pending
  <1>5. Supervised'
    BY DEF IInv, ShutDownAnswered, AfterShutdown, CleanStep, NoLaunch, Unresolved, Becomes, NoKill, Asks, TypeOK,
         Supervisor, Spawning, Supervised, Readable, Alive, IdleState, NoLeftover, Fresh, Numbered, Adopting, Proc,
         Pending
  <1>6. Updating'
    BY DEF IInv, ShutDownAnswered, AfterShutdown, CleanStep, NoLaunch, Unresolved, Becomes, NoKill, Asks, TypeOK,
         Supervisor, Spawning, Supervised, Updating, Readable, Alive, IdleState, Fresh, Proc, Pending
  <1>7. Excused'
    BY DEF IInv, ShutDownAnswered, AfterShutdown, CleanStep, NoLaunch, Unresolved, Becomes, NoKill, Asks, TypeOK,
         Supervisor, Spawning, Excused, Pending, IdleState, Fresh, Proc
  <1>8. Adopting'
    BY DEF IInv, ShutDownAnswered, AfterShutdown, CleanStep, NoLaunch, Unresolved, Becomes, NoKill, Asks, TypeOK,
         Supervisor, Spawning, Adopting, IdleState, NoLeftover, Fresh, Numbered, Alive, Proc, Pending
  <1>. QED BY <1>1, <1>2, <1>3, <1>4, <1>5, <1>6, <1>7, <1>8 DEF IInv

LEMMA TimerFiresKeeps == ASSUME IInv, TimerFires PROVE IInv'
  <1>1. TypeOK'
    BY SMTT(30) DEF IInv, TimerFires, CleanStep, NoLaunch, Unresolved, Becomes, Kill, Asks, TypeOK, Supervisor,
         IdleState, NoLeftover, Fresh, Proc, Pending
  <1>2. Credit'
    BY DEF IInv, TimerFires, CleanStep, NoLaunch, Unresolved, Becomes, Kill, Asks, TypeOK, Supervisor, Credit,
         OwedRestart, OwedEnd, OwedAdopt, Over, IdleState, NoLeftover, Fresh, Proc, Pending
  <1>3. Numbered'
    BY DEF IInv, TimerFires, CleanStep, NoLaunch, Unresolved, Becomes, Kill, Asks, TypeOK, Supervisor, Numbered,
         NoLeftover, Proc, Credit, OwedRestart, OwedEnd, OwedAdopt, Over, IdleState, Pending
  <1>4. Spawning'
    BY DEF IInv, TimerFires, CleanStep, NoLaunch, Unresolved, Becomes, Kill, Asks, TypeOK, Supervisor, Spawning,
         IdleState, NoLeftover, Fresh, Proc, Pending
  <1>5. Supervised'
    BY DEF IInv, TimerFires, CleanStep, NoLaunch, Unresolved, Becomes, Kill, Asks, TypeOK, Supervisor, Spawning,
         Supervised, Readable, Alive, IdleState, NoLeftover, Fresh, Numbered, Adopting, Proc, Pending
  <1>6. Updating'
    BY DEF IInv, TimerFires, CleanStep, NoLaunch, Unresolved, Becomes, Kill, Asks, TypeOK, Supervisor, Spawning,
         Supervised, Updating, Readable, Alive, IdleState, Fresh, Proc, Pending
  <1>7. Excused'
    BY DEF IInv, TimerFires, CleanStep, NoLaunch, Unresolved, Becomes, Kill, Asks, TypeOK, Supervisor, Spawning,
         Excused, Pending, IdleState, Fresh, Proc
  <1>8. Adopting'
    BY DEF IInv, TimerFires, CleanStep, NoLaunch, Unresolved, Becomes, Kill, Asks, TypeOK, Supervisor, Spawning,
         Adopting, IdleState, NoLeftover, Fresh, Numbered, Alive, Proc, Pending
  <1>. QED BY <1>1, <1>2, <1>3, <1>4, <1>5, <1>6, <1>7, <1>8 DEF IInv

LEMMA ForgetKeeps == ASSUME IInv, Forget PROVE IInv'
  <1>1. /\ sup' \in Supervisor /\ sup'.state = sup.state /\ sup'.child = sup.child
        /\ sup'.at = sup.at /\ sup'.force = sup.force
    <2>1. sup.restarts - 1 \in 0..MaxRestarts BY BoundsAssumption DEF IInv, TypeOK, Supervisor, Forget
    <2>. QED BY <2>1 DEF IInv, TypeOK, Supervisor, Forget
  <1>2. TypeOK' BY <1>1 DEF IInv, TypeOK, IdleState, Forget
  <1>3. Credit' BY <1>1 DEF IInv, Forget, Credit, OwedRestart, OwedEnd, OwedAdopt, Over
  <1>4. Numbered' /\ Spawning' BY <1>1 DEF IInv, TypeOK, Forget, Numbered, Spawning, NoLeftover
  <1>5. Supervised' /\ Updating' BY <1>1 DEF IInv, Forget, Supervised, Updating, Readable, Alive
  <1>6. Excused' /\ Adopting' BY <1>1 DEF IInv, Forget, Excused, Pending, Adopting
  <1>. QED BY <1>2, <1>3, <1>4, <1>5, <1>6 DEF IInv

LEMMA StartKeeps == ASSUME IInv, Start PROVE IInv'
  <1>1. /\ born + 1 \in Proc /\ proc[born + 1] = "none" /\ born + 1 \in 0..launches'
        /\ born + 1 + OwedAdopt + OwedRestart <= launches' /\ launches' \in 0..MaxLaunches
        /\ born \in Nat /\ \A p \in checking : p <= born
    <2>1. born \in Nat /\ launches \in 0..MaxLaunches /\ launches < MaxLaunches /\ launches' = launches + 1
      BY BoundsAssumption DEF IInv, TypeOK, Proc, Start, MayLaunch
    <2>2. OwedAdopt \in Nat /\ OwedRestart \in Nat /\ OwedEnd \in Nat BY DEF OwedAdopt, OwedRestart, OwedEnd
    <2>3. born + OwedRestart + OwedEnd + OwedAdopt <= launches BY DEF IInv, Credit
    <2>4. born + 1 + OwedAdopt + OwedRestart <= launches' BY <2>1, <2>2, <2>3
    <2>5. born + 1 \in Proc /\ born + 1 \in 0..launches' BY <2>1, <2>2, <2>4, BoundsAssumption DEF Proc
    <2>6. proc[born + 1] = "none"
      <3>1. Numbered /\ born < born + 1 BY <2>1 DEF IInv
      <3>. QED BY <2>5, <3>1 DEF Numbered
    <2>7. \A p \in checking : p <= born BY DEF IInv, TypeOK, Adopting
    <2>. QED BY <2>1, <2>4, <2>5, <2>6, <2>7, BoundsAssumption
  <1>2. proc' = [proc EXCEPT ![born + 1] = "spawning"] /\ born' = born + 1
    BY DEF Start, Launch
  <1>3. /\ sup' \in Supervisor /\ sup'.state = "starting" /\ sup'.child = born + 1
        /\ sup'.at = sup.at /\ sup'.force = sup.force
    <2>1. sup' = [[sup EXCEPT !.restarts = 0] EXCEPT !.state = "starting", !.child = born'] BY DEF Start, Launch
    <2>2. sup \in Supervisor BY DEF IInv, TypeOK
    <2>. QED BY <1>1, <1>2, <2>1, <2>2, NoneRestarts DEF Supervisor
  <1>4. /\ app = "on" /\ update = "no" /\ sup.child = 0 /\ file \notin Alive
        /\ UNCHANGED <<waiters, adopted, checking, adopting, update, quitting, app, killed, file, steam,
                       saved, told, asked, mixed, unread, sessions>>
    BY DEF IInv, TypeOK, Start, Asked, Leftover, Unresolved, NoKill
  <1>a. \A p \in Proc : proc[p] # "spawning" BY <1>4 DEF IInv, Spawning, Proc
  <1>b. /\ born + 1 \notin checking /\ \A p \in adopted' : p <= born + 1
        /\ adopting.pid # 0 => adopting.pid \in Proc /\ adopting.pid # born + 1
    <2>1. born + 1 \notin checking BY <1>1
    <2>2. \A p \in adopted' : p \in Proc /\ p <= born BY <1>4 DEF IInv, TypeOK, Adopting
    <2>3. \A p \in adopted' : p <= born + 1 BY <1>1, <2>2 DEF Proc
    <2>4. adopting.pid # 0 => adopting.pid \in Proc /\ adopting.pid <= born BY DEF IInv, TypeOK, Numbered
    <2>. QED BY <1>1, <2>1, <2>3, <2>4 DEF Proc
  <1>5. TypeOK' BY <1>1, <1>2, <1>3, <1>4 DEF IInv, TypeOK, IdleState, Start
  <1>6. Credit' BY <1>1, <1>2, <1>3, <1>4 DEF IInv, TypeOK, Numbered, Credit, OwedRestart, OwedEnd, OwedAdopt, Over
  <1>7. Numbered' BY <1>1, <1>2, <1>4 DEF IInv, TypeOK, Numbered, Proc
  <1>c. proc \in [Proc -> {"none", "spawning", "up", "over"}] BY DEF IInv, TypeOK
  <1>e. sup.at \in {"no", "token"} BY DEF Start, IdleState, IInv, TypeOK, Supervisor
  <1>8. Spawning' BY <1>1, <1>2, <1>3, <1>4, <1>a, <1>c, <1>e DEF Spawning
  <1>d. Readable => \A p \in Proc : proc[p] \notin {"spawning", "up"}
    BY <1>4 DEF IInv, Supervised, Alive
  <1>9. Supervised' BY <1>1, <1>2, <1>3, <1>4, <1>b, <1>c, <1>d DEF Supervised, Readable, Alive
  <1>10. Updating' BY <1>1, <1>2, <1>3, <1>4 DEF IInv, TypeOK, Updating, Readable, Alive
  <1>11. Excused' BY <1>1, <1>2, <1>3, <1>4 DEF IInv, TypeOK, Excused, Pending, IdleState
  <1>12. Adopting' BY <1>1, <1>2, <1>3, <1>4, <1>b DEF IInv, TypeOK, Adopting
  <1>. QED BY <1>5, <1>6, <1>7, <1>8, <1>9, <1>10, <1>11, <1>12 DEF IInv

LEMMA UpdateEndsKeeps == ASSUME IInv, UpdateEnds PROVE IInv'
  <1>1. TypeOK' BY DEF IInv, UpdateEnds, TypeOK, IdleState
  <1>2. Credit' /\ Numbered' BY DEF IInv, UpdateEnds, Credit, Numbered, OwedRestart, OwedEnd, OwedAdopt, Over
  <1>3. Spawning' /\ Supervised' BY DEF IInv, UpdateEnds, Spawning, Supervised, Readable, Alive
  <1>4. Updating' /\ Excused' /\ Adopting'
    BY DEF IInv, UpdateEnds, TypeOK, Updating, Excused, Adopting, Pending
  <1>. QED BY <1>1, <1>2, <1>3, <1>4 DEF IInv

LEMMA QuitKeeps == ASSUME IInv, Quit PROVE IInv'
  <1>1. TypeOK' BY NoneRestarts DEF IInv, Quit, TypeOK, IdleState, Fresh, NoLeftover
  <1>2. Credit' BY DEF IInv, Quit, Fresh, NoLeftover, Credit, OwedRestart, OwedEnd, OwedAdopt, Over, TypeOK
  <1>3. Numbered' BY DEF IInv, Quit, Fresh, NoLeftover, Numbered, TypeOK
  <1>4. Spawning' BY DEF IInv, Quit, Fresh, NoLeftover, Spawning
  <1>5. Supervised' BY DEF IInv, TypeOK, Quit, Fresh, NoLeftover, Supervised, Readable, Alive, Proc
  <1>6. Updating' BY DEF IInv, Quit, Fresh, Updating
  <1>7. Excused' BY DEF IInv, Quit, Fresh, Excused, Pending
  <1>8. Adopting' BY DEF IInv, Quit, Fresh, NoLeftover, Adopting
  <1>. QED BY <1>1, <1>2, <1>3, <1>4, <1>5, <1>6, <1>7, <1>8 DEF IInv

LEMMA AppStartsKeeps == ASSUME IInv, AppStarts PROVE IInv'
  <1>1. /\ adopting'.pid = (IF file \in Alive THEN file ELSE 0) /\ adopting'.ours = FALSE
        /\ adopting' \in [pid : Proc \cup {0}, ours : BOOLEAN] /\ app = "off" /\ app' = "on"
    BY DEF IInv, TypeOK, AppStarts, NoLeftover, Alive
  <1>2. UNCHANGED <<sup, waiters, adopted, checking, update, quitting, worldVars, historyVars, launches>>
    BY DEF AppStarts
  <1>3. sessions' \in 0..MaxSessions BY BoundsAssumption DEF AppStarts, IInv, TypeOK
  <1>4. adopting'.pid # 0 => adopting'.pid \in Proc /\ proc[adopting'.pid] = "up" /\ adopting'.pid <= born
    BY <1>1 DEF IInv, TypeOK, Alive, Spawning, Numbered, Proc
  <1>5. born \in Nat /\ sup = Fresh /\ waiters = {} /\ adopting = NoLeftover /\ adopted = {}
    BY <1>1 DEF IInv, Spawning, TypeOK, Adopting
  <1>6. TypeOK' BY <1>1, <1>2, <1>3 DEF IInv, TypeOK, IdleState
  <1>7. Credit' BY <1>2, <1>4, <1>5 DEF IInv, Credit, OwedRestart, OwedEnd, OwedAdopt, Over, Fresh, NoLeftover
  <1>8. Numbered' BY <1>2, <1>4, <1>5 DEF IInv, Numbered
  <1>9. Spawning' BY <1>1, <1>2, <1>5 DEF IInv, Spawning, Fresh
  <1>10. Supervised' BY <1>1, <1>2, <1>4, <1>5 DEF IInv, Supervised, Readable, Alive, Fresh
  <1>11. Updating' /\ Excused' BY <1>2 DEF IInv, Updating, Excused, Pending, Readable, Alive
  <1>12. Adopting' BY <1>1, <1>2, <1>4, <1>5 DEF IInv, Adopting, Fresh
  <1>. QED BY <1>6, <1>7, <1>8, <1>9, <1>10, <1>11, <1>12 DEF IInv

LEMMA AdoptReadsKeeps == ASSUME IInv, NEW b \in BOOLEAN, AdoptReads(b) PROVE IInv'
  <1>1. /\ adopting' = [adopting EXCEPT !.ours = TRUE] \/ adopting' = NoLeftover
        /\ unread' = unread \/ unread' = unread \cup {"launch"}
        /\ adopting.pid # 0
        /\ UNCHANGED <<sup, adopted, waiters, checking, mainVars, worldVars, saved, told, asked, mixed, launches, sessions>>
    BY DEF AdoptReads, Adopts
  <1>2. /\ adopting'.pid = adopting.pid \/ adopting'.pid = 0
        /\ adopting' \in [pid : Proc \cup {0}, ours : BOOLEAN]
        /\ unread' \subseteq {"kill", "launch"} /\ (Readable' => Readable)
    <2>1. adopting \in [pid : Proc \cup {0}, ours : BOOLEAN] BY DEF IInv, TypeOK
    <2>2. /\ adopting'.pid = adopting.pid \/ adopting'.pid = 0
          /\ adopting' \in [pid : Proc \cup {0}, ours : BOOLEAN]
      <3>1. CASE adopting' = NoLeftover BY <3>1 DEF NoLeftover
      <3>2. CASE adopting' = [adopting EXCEPT !.ours = TRUE] BY <2>1, <3>2
      <3>. QED BY <1>1, <3>1, <3>2
    <2>3. unread' \subseteq {"kill", "launch"} /\ (Readable' => Readable) BY <1>1 DEF IInv, TypeOK, Readable
    <2>. QED BY <2>2, <2>3
  <1>3. TypeOK' BY <1>1, <1>2 DEF IInv, TypeOK, IdleState
  <1>4. Credit' BY <1>1, <1>2 DEF IInv, TypeOK, Credit, OwedRestart, OwedEnd, OwedAdopt, Over
  <1>5. Numbered' BY <1>1, <1>2 DEF IInv, TypeOK, Numbered
  <1>6. Spawning' BY <1>1 DEF IInv, Spawning, NoLeftover, AdoptReads
  <1>7. Supervised' BY <1>1, <1>2 DEF IInv, Supervised, Alive, Proc
  <1>8. Updating' BY <1>1, <1>2 DEF IInv, Updating, Alive
  <1>9. Excused' /\ Adopting'
    <2>1. adopting'.ours => adopting'.pid # 0 BY <1>1 DEF NoLeftover, IInv, TypeOK
    <2>. QED BY <1>1, <1>2, <2>1 DEF IInv, Excused, Adopting, Pending
  <1>. QED BY <1>3, <1>4, <1>5, <1>6, <1>7, <1>8, <1>9 DEF IInv

LEMMA AdoptEndsKeeps == ASSUME IInv, AdoptEnds PROVE IInv'
  <1>1. /\ adopting.pid \in Proc /\ adopting' = NoLeftover /\ app = "on"
        /\ UNCHANGED <<waiters, checking, mainVars, worldVars, saved, told, asked, mixed, unread, launches, sessions>>
    <2>1. adopting.pid \in Proc BY DEF AdoptEnds, IInv, TypeOK, Adopting
    <2>. QED BY <2>1 DEF AdoptEnds, Adopts
  <1>2. NoLeftover \in [pid : Proc \cup {0}, ours : BOOLEAN] /\ NoLeftover.pid = 0 /\ NoLeftover.ours = FALSE
    BY DEF NoLeftover
  <1>3. CASE IdleState /\ update = "no"
    <2>1. /\ sup' \in Supervisor /\ sup'.state = "running" /\ sup'.child = adopting.pid
          /\ sup'.at = sup.at /\ sup'.force = sup.force /\ adopted' = adopted \cup {adopting.pid}
      <3>1. /\ sup' = [sup EXCEPT !.state = "running", !.child = adopting.pid, !.restarts = 0]
            /\ adopted' = adopted \cup {adopting.pid}
        BY <1>3 DEF AdoptEnds
      <3>2. sup \in Supervisor BY DEF IInv, TypeOK
      <3>. QED BY <1>1, <3>1, <3>2, NoneRestarts DEF Supervisor
    <2>2. sup.child = 0 /\ sup.at \in {"no", "token"} /\ adopting.pid \notin checking /\ adopting.pid <= born
      BY <1>1, <1>3 DEF IInv, TypeOK, Supervisor, IdleState, Adopting, Numbered, Proc
    <2>3. proc[adopting.pid] \in {"up", "over"} /\ \A p \in Proc : proc[p] # "spawning"
      <3>1. proc[adopting.pid] \in {"up", "over"} BY <1>1 DEF IInv, Adopting, Proc
      <3>2. \A p \in Proc : proc[p] # "spawning" BY <2>2 DEF IInv, Spawning, Proc
      <3>. QED BY <3>1, <3>2
    <2>0. adopting.pid # 0 BY <1>1 DEF Proc
    <2>4. TypeOK' BY <1>1, <1>2, <2>0, <2>1, <2>2 DEF IInv, TypeOK, IdleState
    <2>5. Credit' BY <1>1, <1>2, <2>1, <2>2 DEF IInv, TypeOK, Credit, OwedRestart, OwedEnd, OwedAdopt, Over, Proc
    <2>6. Numbered' BY <1>1, <1>2 DEF IInv, TypeOK, Numbered
    <2>7. Spawning' BY <1>1, <2>1, <2>3 DEF IInv, Spawning
    <2>8. Supervised' BY <1>1, <1>2, <2>1, <2>2, <2>3 DEF IInv, TypeOK, Supervised, Readable, Alive, Proc
    <2>9. Updating' BY <1>1, <1>3, <2>1 DEF IInv, Updating, Readable
    <2>10. Excused' BY <1>1, <2>1, <2>2, <1>3 DEF IInv, Excused, Pending, IdleState
    <2>11. Adopting' BY <1>1, <1>2, <2>1, <2>2 DEF IInv, TypeOK, Adopting
    <2>. QED BY <2>4, <2>5, <2>6, <2>7, <2>8, <2>9, <2>10, <2>11 DEF IInv
  <1>4. CASE ~(IdleState /\ update = "no")
    <2>1. UNCHANGED <<sup, adopted>> BY <1>4 DEF AdoptEnds
    <2>2. TypeOK' BY <1>1, <1>2, <2>1 DEF IInv, TypeOK, IdleState
    <2>3. Credit' BY <1>1, <1>2, <2>1 DEF IInv, TypeOK, Credit, OwedRestart, OwedEnd, OwedAdopt, Over
    <2>4. Numbered' BY <1>1, <1>2, <2>1 DEF IInv, TypeOK, Numbered
    <2>5. Spawning' BY <1>1, <1>2, <2>1 DEF IInv, Spawning
    <2>6. Supervised' BY <1>1, <1>2, <2>1 DEF IInv, Supervised, Readable, Alive, Proc
    <2>7. Updating' BY <1>1, <2>1 DEF IInv, Updating, Readable, Alive
    <2>8. Excused' /\ Adopting' BY <1>1, <1>2, <2>1 DEF IInv, Excused, Adopting, Pending
    <2>. QED BY <2>2, <2>3, <2>4, <2>5, <2>6, <2>7, <2>8 DEF IInv
  <1>. QED BY <1>3, <1>4

LEMMA ProcEndsKeeps == ASSUME IInv, NEW p \in Proc, ProcEnds(p) PROVE IInv'
  <1>1. /\ proc[p] = "up" /\ proc' = [proc EXCEPT ![p] = "over"] /\ file' \in {file, 0} /\ (file # p => file' = file)
        /\ killed' = killed \ {p} /\ told' = told \ {p} /\ saved' = saved \ {p}
        /\ adopted' = adopted \ {p} /\ checking' = checking \ {p}
        /\ UNCHANGED <<sup, waiters, adopting, mainVars, born, steam, asked, mixed, unread, sessions>>
    BY DEF ProcEnds
  <1>2. /\ launches' = launches \/ (launches < MaxLaunches /\ launches' = launches + 1)
        /\ launches' = launches => p = sup.child /\ sup.state = "stopping" /\ sup.at # "saving"
    BY DEF ProcEnds, NoLaunch, MayLaunch, IInv, TypeOK
  <1>3. launches' \in 0..MaxLaunches /\ born \in 0..launches' /\ launches \in Nat /\ born \in Nat
    BY <1>2, BoundsAssumption DEF IInv, TypeOK
  <1>4. adopting.pid = p => sup.child # p
    BY DEF IInv, Adopting, Proc
  <1>5. TypeOK' BY <1>1, <1>3 DEF IInv, TypeOK, IdleState
  <1>6. Credit' BY <1>1, <1>2, <1>3, <1>4 DEF IInv, TypeOK, Supervisor, Credit, OwedRestart, OwedEnd, OwedAdopt, Over
  <1>7. Numbered' BY <1>1 DEF IInv, TypeOK, Numbered
  <1>8. Spawning' BY <1>1 DEF IInv, TypeOK, Spawning
  <1>9. Supervised' BY <1>1 DEF IInv, TypeOK, Supervised, Readable, Alive, Proc
  <1>10. Updating' BY <1>1 DEF IInv, TypeOK, Updating, Readable, Alive
  <1>11. Excused' BY <1>1 DEF IInv, TypeOK, Excused, Pending
  <1>12. Adopting' BY <1>1 DEF IInv, TypeOK, Adopting
  <1>. QED BY <1>5, <1>6, <1>7, <1>8, <1>9, <1>10, <1>11, <1>12 DEF IInv

LEMMA Inductive == IInv /\ [Next]_vars => IInv'
  <1>. SUFFICES ASSUME IInv, [Next]_vars PROVE IInv'
    OBVIOUS
  <1>1. CASE AppStep
      BY <1>1, EndEventKeeps, TokenReadKeeps, SavedKeeps, SaveFailsKeeps, TimerFiresKeeps, AdoptEndsKeeps,
           AdoptReadsKeeps,
       ShutDownAnsweredKeeps, KillCheckKeeps, SpawnedKeeps, SpawnFailsKeeps DEF AppStep
  <1>2. CASE Ask
    <2>1. ASSUME NEW any \in BOOLEAN, Stop(any) \/ Restart(any) \/ Update(any) PROVE IInv'
      BY <2>1, AskKeeps, UpdateKeeps
    <2>2. CASE Start BY <2>2, StartKeeps
    <2>3. CASE StopAndQuit
      <3>1. PICK any \in BOOLEAN : TRUE OBVIOUS
      <3>. QED BY <2>3, <3>1, AskKeeps
    <2>. QED BY <1>2, <2>1, <2>2, <2>3 DEF Ask
  <1>3. CASE Forget BY <1>3, ForgetKeeps
  <1>4. CASE UpdateEnds BY <1>4, UpdateEndsKeeps
  <1>5. CASE Quit BY <1>5, QuitKeeps
  <1>6. CASE AppStarts BY <1>6, AppStartsKeeps
  <1>7. ASSUME NEW p \in Proc, ProcEnds(p) PROVE IInv' BY <1>7, ProcEndsKeeps
  <1>8. CASE UNCHANGED vars
    <2>1. TypeOK' BY <1>8 DEF IInv, TypeOK, IdleState
    <2>2. Credit' /\ Numbered' BY <1>8 DEF IInv, Credit, Numbered, OwedRestart, OwedEnd, OwedAdopt, Over
    <2>3. Spawning' /\ Supervised' BY <1>8 DEF IInv, Spawning, Supervised, Readable, Alive
    <2>4. Updating' BY <1>8 DEF IInv, Updating, Readable, Alive
    <2>5. Excused' /\ Adopting' BY <1>8 DEF IInv, Excused, Adopting, Pending
    <2>. QED BY <2>1, <2>2, <2>3, <2>4, <2>5 DEF IInv
  <1>. QED BY <1>1, <1>2, <1>3, <1>4, <1>5, <1>6, <1>7, <1>8 DEF Next

LEMMA Initially == Init => IInv
  <1>. SUFFICES ASSUME Init PROVE IInv
    OBVIOUS
  <1>1. TypeOK
    <2>1. 0 \in 0..MaxLaunches /\ 1 \in 0..MaxSessions BY BoundsAssumption
    <2>2. NoLeftover \in [pid : Proc \cup {0}, ours : BOOLEAN] BY DEF NoLeftover
    <2>3. proc \in [Proc -> {"none", "spawning", "up", "over"}] /\ born \in 0..launches BY DEF Init
    <2>4. sup.child = 0 /\ sup.state = "stopped" /\ sup.at = "no" /\ sup = Fresh BY DEF Init, Fresh
    <2>. QED BY <2>1, <2>2, <2>3, <2>4, NoneRestarts DEF Init, TypeOK, IdleState
  <1>2. Credit BY DEF Init, Credit, OwedRestart, OwedEnd, OwedAdopt, Over, Fresh, NoLeftover
  <1>3. Numbered /\ Spawning BY DEF Init, Numbered, Spawning, Fresh, NoLeftover, Proc
  <1>4. Supervised /\ Updating BY DEF Init, Supervised, Updating, Readable, Alive, Fresh, NoLeftover
  <1>5. Excused /\ Adopting BY DEF Init, Excused, Adopting, Fresh, NoLeftover
  <1>. QED BY <1>1, <1>2, <1>3, <1>4, <1>5 DEF IInv

LEMMA Invariant == Spec => []IInv
  BY Initially, Inductive, PTL DEF Spec

\* Type correctness, over every launch, stop, update, crash and session.
THEOREM TypeCorrect == Spec => []TypeOK
  <1>1. IInv => TypeOK BY DEF IInv
  <1>. QED BY Invariant, <1>1, PTL

\* There is never a second server, as long as kill() could read the command line (leftoverServer.ts).
THEOREM OneServer == Spec => []NeverTwo
  <1>1. ASSUME IInv PROVE NeverTwo
    <2>1. SUFFICES ASSUME Readable PROVE Cardinality(Alive) <= 1 BY DEF NeverTwo, Readable
    <2>2. PICK p : Alive \subseteq {p}
      <3>1. CASE sup.child = 0 BY <1>1, <2>1, <3>1 DEF IInv, Supervised
      <3>2. CASE sup.child # 0 BY <1>1, <2>1, <3>2 DEF IInv, Supervised
      <3>. QED BY <3>1, <3>2
    <2>3. Alive = {} \/ Alive = {p} BY <2>2
    <2>4. Cardinality({}) = 0 /\ Cardinality({p}) = 1 BY FS_EmptySet, FS_Singleton
    <2>. QED BY <2>3, <2>4
  <1>. QED BY Invariant, <1>1, PTL

\* The pid file names the server that the app does not supervise, so that the next session finds it (pidFile.ts).
THEOREM PidFileNames == Spec => []PidFileTells
  <1>1. ASSUME IInv PROVE PidFileTells
    <2>1. SUFFICES ASSUME Readable, app = "off" \/ IdleState PROVE Alive \subseteq {file}
      BY DEF PidFileTells, Readable
    <2>2. sup.child = 0 BY <1>1, <2>1 DEF IInv, TypeOK, Spawning, Fresh
    <2>. QED BY <1>1, <2>1, <2>2 DEF IInv, Supervised
  <1>. QED BY Invariant, <1>1, PTL

\* SteamCMD has the folder for itself unless a restart was awaited or the app quit (updater.ts).
THEOREM UpdatedAlone == Spec => []UpdatesAlone
  <1>1. IInv => UpdatesAlone BY DEF IInv, Updating, UpdatesAlone, Readable
  <1>. QED BY Invariant, <1>1, PTL

\* What a step tells to end was saved, or the step is of a stop in which "Stop anyway" was pressed (supervisor.ts).
Spared == \A p \in told' \ told : proc[p] = "up" => p \in saved' \/ asked \/ asked'

LEMMA StopForSpares ==
    ASSUME IInv, NEW what, NEW any \in BOOLEAN, StopFor(what, any) PROVE Spared
  <1>1. CASE \/ Pending(sup) /\ any /\ sup.state = "stopping"
             \/ ~Pending(sup) /\ ~IdleState /\ (any \/ sup.state = "starting")
    <2>1. sup' = [sup EXCEPT !.state = "stopping", !.at = "no"] /\ told' = told \cup {sup.child}
      BY <1>1 DEF StopFor, ForceStop, Becomes, Kill
    <2>2. asked' = (Pending(sup') /\ (asked \/ any)) BY DEF StopFor, Asks
    <2>3. Pending(sup') BY <2>1 DEF Pending, IInv, TypeOK, Supervisor
    <2>4. any \/ proc[sup.child] = "spawning" BY <1>1 DEF IInv, Spawning
    <2>. QED BY <2>1, <2>2, <2>3, <2>4 DEF Spared
  <1>2. CASE ~(\/ Pending(sup) /\ any /\ sup.state = "stopping"
               \/ ~Pending(sup) /\ ~IdleState /\ (any \/ sup.state = "starting"))
    BY <1>2 DEF StopFor, NoKill, Spared
  <1>. QED BY <1>1, <1>2

LEMMA StepSpares == ASSUME IInv, [Next]_vars PROVE Spared
  <1>1. CASE TimerFires
    <2>1. told' = told \cup {sup.child} /\ sup.at = "waiting" /\ saved' = saved BY <1>1 DEF TimerFires, Kill
    <2>. QED BY <2>1 DEF IInv, Excused, Spared
  <1>2. ASSUME NEW b \in BOOLEAN, TokenRead(b) PROVE Spared
    <2>1. CASE sup.child # 0 /\ sup.state = "running" /\ sup.force
      <3>1. sup' = [[sup EXCEPT !.at = "no"] EXCEPT !.state = "stopping", !.at = "no"]
            /\ asked' = (Pending(sup') /\ (asked \/ FALSE))
        BY <1>2, <2>1 DEF TokenRead, ForceStop, Becomes, Asks
      <3>. QED BY <2>1, <3>1 DEF IInv, Excused, Spared
    <2>2. CASE ~(sup.child # 0 /\ sup.state = "running" /\ sup.force)
      <3>1. sup.state = "running" => sup.child # 0 BY DEF IInv, TypeOK, IdleState
      <3>2. told' = told BY <1>2, <2>2, <3>1 DEF TokenRead, NoKill
      <3>. QED BY <3>2 DEF Spared
    <2>. QED BY <2>1, <2>2
  <1>3. CASE Saved BY <1>3 DEF Saved, Spared
  <1>4. CASE \/ EndEvent \/ SaveFails \/ AdoptEnds \/ Forget \/ UpdateEnds \/ Quit \/ AppStarts \/ Start
             \/ UNCHANGED vars
    BY <1>4 DEF EndEvent, SaveFails, AdoptEnds, Adopts, Forget, UpdateEnds, Quit, AppStarts, Start, NoKill, Spared
  <1>5. ASSUME NEW b \in BOOLEAN, AdoptReads(b) \/ ShutDownAnswered(b) PROVE Spared
    BY <1>5 DEF AdoptReads, Adopts, ShutDownAnswered, NoKill, Spared
  <1>6. ASSUME NEW p \in Proc, NEW b \in BOOLEAN, KillCheck(p, b) \/ Spawned(p) \/ SpawnFails(p) \/ ProcEnds(p) PROVE Spared
    BY <1>6 DEF KillCheck, Spawned, SpawnFails, ProcEnds, NoKill, Spared
  <1>7. ASSUME NEW any \in BOOLEAN, Stop(any) \/ Restart(any) PROVE Spared
    BY <1>7, StopForSpares DEF Stop, Restart
  <1>8. CASE StopAndQuit
    <2>1. PICK no \in BOOLEAN : no = FALSE OBVIOUS
    <2>2. StopFor("quit", no) BY <1>8, <2>1 DEF StopAndQuit
    <2>. QED BY <2>1, <2>2, StopForSpares
  <1>9. ASSUME NEW any \in BOOLEAN, Update(any) PROVE Spared
    <2>1. CASE sup.state = "running" BY <1>9, <2>1, StopForSpares DEF Update
    <2>2. CASE sup.state # "running" BY <1>9, <2>2 DEF Update, NoKill, Spared
    <2>. QED BY <2>1, <2>2
  <1>10. ASSUME NEW p \in Proc, ProcEnds(p) PROVE Spared BY <1>6, <1>10
  <1>11. CASE AppStep
    BY <1>1, <1>2, <1>3, <1>4, <1>5, <1>6, <1>11 DEF AppStep
  <1>12. CASE Ask
    BY <1>4, <1>7, <1>8, <1>9, <1>12 DEF Ask
  <1>. QED BY <1>4, <1>10, <1>11, <1>12 DEF Next

\* Nothing ends a server that runs before the game is saved, unless "Stop anyway" was pressed in this stop.
THEOREM SaveComesFirst == Spec => SavedFirst
  <1>1. IInv /\ [Next]_vars => Spared BY StepSpares
  <1>2. IInv /\ [Next]_vars => [Spared]_vars BY <1>1
  <1>. QED BY Invariant, <1>2, PTL DEF Spec, SavedFirst, Spared
=============================================================================
