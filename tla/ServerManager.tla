----------------------------- MODULE ServerManager -----------------------------
(***************************************************************************)
(* The Windows app that runs the game server (server-manager: the          *)
(* supervisor, its wiring in main.ts, the pid file, SteamCMD updates).     *)
(* Quit leaves the server running, the next launch takes it over; Stop,    *)
(* Restart, Update and "Stop server and quit" first save the game through  *)
(* its API.  What awaits the same stop goes on in one step when it is over.*)
(*                                                                         *)
(* A process is never numbered like an earlier one, and a call of the API  *)
(* reaches the process it was made for.  stopRequested is state = stopping,*)
(* and the promise "stopping" is pending in Pending; the stages of a clean *)
(* stop that is out of date (child # proc, forced) are not kept.           *)
(***************************************************************************)
EXTENDS Naturals, FiniteSets

CONSTANTS
    MaxRestarts, \* MAX_RESTARTS
    MaxLaunches, MaxSessions, MaxUnread \* bounds

ASSUME BoundsAssumption ==
    {MaxRestarts, MaxLaunches, MaxSessions, MaxUnread} \subseteq Nat /\ MaxSessions # 0

VARIABLES
    sup,      \* the supervisor: its state, child, the stage of a clean stop, forceRequested, restarts
    waiters,  \* what awaits the stop
    adopted, checking, \* processes taken over; those whose kill() still checks the command line
    adopting, \* the leftover this session is looking at
    update, quitting, app,
    proc, born, killed, \* the processes, and how many there were
    file,     \* the pid file (a pid that is not alive counts as none)
    steam,    \* SteamCMD runs
    saved, told, asked, \* history: processes saved, told to end; "Stop anyway" pressed in this stop
    mixed,    \* history: a restart awaited a stop when SteamCMD began, or the app quit while it ran
    unread,   \* history: a command line could not be read, by a kill() or by a launch
    launches, sessions
supVars == <<sup, waiters, adopted, checking, adopting>>
mainVars == <<update, quitting, app>>
worldVars == <<proc, born, killed, file, steam>>
historyVars == <<saved, told, asked, mixed, unread>>
vars == <<supVars, mainVars, worldVars, historyVars, launches, sessions>>

Proc == 1..MaxLaunches
Fresh == [state |-> "stopped", child |-> 0, at |-> "no", force |-> FALSE, restarts |-> 0]
NoLeftover == [pid |-> 0, ours |-> FALSE]

Init ==
    /\ sup = Fresh /\ waiters = {} /\ adopted = {} /\ checking = {} /\ adopting = NoLeftover
    /\ update = "no" /\ quitting = FALSE /\ app = "on"
    /\ proc = [p \in Proc |-> "none"] /\ born = 0 /\ killed = {} /\ file = 0 /\ steam = FALSE
    /\ saved = {} /\ told = {} /\ asked = FALSE /\ mixed = FALSE /\ unread = {}
    /\ launches = 0 /\ sessions = 1

Alive == {p \in Proc : proc[p] \in {"spawning", "up"}}
IdleState == sup.state \in {"stopped", "crashed"}
Pending(s) == s.at = "token" \/ s.state = "stopping"
\* "Stop anyway" counts for the stop it is pressed in.
Asks(any) == asked' = (Pending(sup') /\ (asked \/ any))

\* Whatever may lead to a launch takes one of the bound.
MayLaunch == launches < MaxLaunches /\ launches' = launches + 1
NoLaunch == UNCHANGED launches

-----------------------------------------------------------------------------
(* The supervisor.                                                         *)

Becomes(s, ps) == sup' = s /\ proc' = ps /\ UNCHANGED born
Launch(s, ps) ==
    /\ born' = born + 1
    /\ sup' = [s EXCEPT !.state = "starting", !.child = born']
    /\ proc' = [ps EXCEPT ![born'] = "spawning"]

\* finishStop, and what awaited it: start, SteamCMD, app.quit.
Resolve(s, waiting, outcome, ps) ==
    LET going == IF outcome = "stopped" THEN waiting ELSE {}
        over == [s EXCEPT !.at = "no", !.force = FALSE]
    IN /\ waiters' = {}
       /\ update' = IF "update" \in going THEN "running" ELSE IF "update" \in waiting THEN "no" ELSE update
       /\ steam' = (steam \/ "update" \in going)
       /\ quitting' = (quitting \/ "quit" \in going)
       /\ mixed' = (mixed \/ {"update", "restart"} \subseteq going)
       /\ IF "restart" \in going THEN Launch([over EXCEPT !.restarts = 0], ps) ELSE Becomes(over, ps)
Unresolved == UNCHANGED <<waiters, update, steam, quitting, mixed>>

\* kill(): at once, or after a check if the process was adopted.
Kill(p) ==
    /\ told' = told \cup {p}
    /\ IF p \in adopted THEN checking' = checking \cup {p} /\ UNCHANGED killed
       ELSE killed' = killed \cup {p} /\ UNCHANGED checking
NoKill == UNCHANGED <<killed, checking, told>>

ForceStop(s) ==
    Becomes([s EXCEPT !.state = "stopping", !.at = "no"], proc) /\ Kill(s.child)

\* onEnded: as asked, or on its own: again, but not too often.
OnEnded(ps) ==
    LET s == [sup EXCEPT !.child = 0, !.at = IF @ = "token" THEN @ ELSE "no"] IN
    IF s.state = "stopping"
    THEN Resolve([s EXCEPT !.state = "stopped"], waiters, "stopped", ps) /\ file' = 0
    ELSE /\ Unresolved
         /\ IF s.restarts < MaxRestarts
            THEN Launch([s EXCEPT !.restarts = @ + 1], ps) /\ UNCHANGED file
            ELSE Becomes([s EXCEPT !.state = "crashed"], ps) /\ file' = 0

Recorded(p) == p
Spawned(p) ==
    /\ app = "on" /\ proc[p] = "spawning"
    /\ file' = Recorded(p)
    /\ Becomes(IF sup.child = p /\ sup.state = "starting" THEN [sup EXCEPT !.state = "running"] ELSE sup,
               [proc EXCEPT ![p] = "up"])
    /\ Unresolved /\ NoKill /\ NoLaunch
    /\ UNCHANGED <<adopted, adopting, app, saved, asked, unread, sessions>>

SpawnFails(p) ==
    /\ app = "on" /\ proc[p] = "spawning" /\ MayLaunch
    /\ OnEnded([proc EXCEPT ![p] = "over"]) /\ NoKill /\ Asks(FALSE)
    /\ UNCHANGED <<adopted, adopting, app, saved, unread, sessions>>

\* A handle reports the end of its process (an adopted one's is polled).
EndEvent ==
    /\ app = "on" /\ sup.child # 0 /\ proc[sup.child] = "over"
    /\ OnEnded(proc) /\ NoKill /\ Asks(FALSE) /\ NoLaunch
    /\ UNCHANGED <<adopted, adopting, app, saved, unread, sessions>>

\* The check before an adopted process is ended.  What is not known to be the server is reported gone.
KillCheck(p, readable) ==
    /\ app = "on" /\ p \in checking /\ proc[p] = "up"
    /\ checking' = checking \ {p} /\ UNCHANGED <<told, adopted, adopting, app, saved, sessions>> /\ NoLaunch
    /\ IF readable
       THEN killed' = killed \cup {p} /\ Becomes(sup, proc) /\ Unresolved /\ UNCHANGED <<file, asked, unread>>
       ELSE /\ Cardinality(unread) < MaxUnread /\ unread' = unread \cup {"kill"}
            /\ UNCHANGED killed
            /\ IF sup.child = p THEN OnEnded(proc) /\ Asks(FALSE)
               ELSE Becomes(sup, proc) /\ Unresolved /\ UNCHANGED <<file, asked>>

-----------------------------------------------------------------------------
(* The clean stop.                                                         *)

CleanStep ==
    /\ app = "on" /\ NoLaunch
    /\ UNCHANGED <<adopted, adopting, app, file, unread, sessions>>

\* The token was read; the server may have ended or crashed meanwhile, and "Stop anyway" been pressed.
TokenRead(available) ==
    /\ sup.at = "token" /\ CleanStep
    /\ UNCHANGED saved
    /\ LET s == [sup EXCEPT !.at = "no"] IN
       CASE sup.child = 0 -> Resolve(s, waiters, "stopped", proc) /\ NoKill
         [] sup.child # 0 /\ sup.state # "running" -> Resolve(s, waiters, "failed", proc) /\ NoKill
         [] sup.state = "running" /\ sup.force -> ForceStop(s) /\ Unresolved
         [] OTHER ->
              IF available THEN Becomes([s EXCEPT !.state = "stopping", !.at = "saving"], proc) /\ Unresolved /\ NoKill
              ELSE Resolve(s, waiters, "unavailable", proc) /\ NoKill
    /\ Asks(FALSE)

\* Mutant: the server is shut down whether or not it could be saved.
SaveFailsGoesOn ==
    /\ sup.at = "saving" /\ CleanStep
    /\ Becomes([sup EXCEPT !.at = "shutdown"], proc) /\ Unresolved
    /\ told' = told \cup {sup.child}
    /\ UNCHANGED <<killed, checking, saved>> /\ Asks(FALSE)
\* A save that failed, or whose answer was lost: the server runs on.
SaveFails ==
    /\ sup.at = "saving" /\ CleanStep
    /\ Resolve([sup EXCEPT !.state = "running"], waiters, "failed", proc)
    /\ NoKill /\ UNCHANGED saved /\ Asks(FALSE)
Saved ==
    /\ sup.at = "saving" /\ CleanStep
    /\ Becomes([sup EXCEPT !.at = "shutdown"], proc) /\ Unresolved
    /\ saved' = saved \cup {sup.child} /\ told' = told \cup {sup.child}
    /\ UNCHANGED <<killed, checking>> /\ Asks(FALSE)

\* Mutant: nothing waits for the process when Shutdown failed.
AfterShutdownFailed(ok) == IF ok THEN "waiting" ELSE "no"
AfterShutdown(ok) == "waiting"
ShutDownAnswered(ok) ==
    /\ sup.at = "shutdown" /\ CleanStep
    /\ Becomes([sup EXCEPT !.at = AfterShutdown(ok)], proc) /\ Unresolved
    /\ NoKill /\ UNCHANGED saved /\ Asks(FALSE)

\* SHUTDOWN_TIMEOUT_MS later.
TimerFires ==
    /\ sup.at = "waiting" /\ CleanStep
    /\ Becomes([sup EXCEPT !.at = "no"], proc) /\ Unresolved
    /\ Kill(sup.child) /\ UNCHANGED saved /\ Asks(FALSE)

\* A restart leaves RESTART_WINDOW_MS.
Forget ==
    /\ app = "on" /\ sup.restarts > 0 /\ sup' = [sup EXCEPT !.restarts = @ - 1]
    /\ UNCHANGED <<waiters, adopted, checking, adopting, mainVars, worldVars, historyVars, launches, sessions>>

-----------------------------------------------------------------------------
(* The window and the tray (main.ts).                                      *)

Asked == app = "on" /\ ~quitting /\ UNCHANGED <<adopted, adopting, app, file, saved, unread, sessions>>
\* Mutant: what an earlier session left running does not count.
LeftoverIgnored == FALSE
\* leftover(): a server of an earlier session that is not supervised.
Leftover == IdleState /\ file \in Alive

Waits(what) ==
    update' = (IF what = "update" THEN "stopping" ELSE update) /\ UNCHANGED <<steam, quitting, mixed>>
\* stop(), and what is to follow it; nothing, if nothing runs.
StopFor(what, any) ==
    /\ IF Pending(sup)
       THEN /\ waiters' = waiters \cup {what} /\ Waits(what)
            /\ IF any /\ sup.state = "stopping" THEN ForceStop(sup)
               ELSE Becomes([sup EXCEPT !.force = @ \/ any], proc) /\ NoKill
       ELSE IF IdleState THEN Resolve(sup, {what}, "stopped", proc) /\ NoKill
       ELSE /\ waiters' = {what} /\ Waits(what)
            /\ IF any \/ sup.state = "starting" THEN ForceStop(sup)
               ELSE Becomes([sup EXCEPT !.at = "token"], proc) /\ NoKill
    /\ Asks(any)

Start ==
    /\ Asked /\ update = "no" /\ ~Leftover /\ IdleState /\ MayLaunch
    /\ Launch([sup EXCEPT !.restarts = 0], proc)
    /\ Unresolved /\ NoKill /\ UNCHANGED asked
Stop(any) == Asked /\ update = "no" /\ StopFor("stop", any) /\ NoLaunch
Restart(any) == Asked /\ update = "no" /\ ~Leftover /\ MayLaunch /\ StopFor("restart", any)
StopAndQuit == Asked /\ update = "no" /\ ~Leftover /\ StopFor("quit", FALSE) /\ NoLaunch

\* Mutant: an update need not wait for a server that is starting.
MayUpdateStarting == sup.state # "stopping"
MayUpdate == sup.state \notin {"starting", "stopping"}
Update(any) ==
    /\ Asked /\ update = "no" /\ ~Leftover /\ MayUpdate /\ NoLaunch
    /\ IF sup.state = "running" THEN StopFor("update", any)
       ELSE /\ update' = "running" /\ steam' = TRUE
            /\ mixed' = (mixed \/ "restart" \in waiters)
            /\ UNCHANGED <<sup, waiters, quitting, proc, born, asked>> /\ NoKill
UpdateEnds ==
    /\ steam /\ steam' = FALSE /\ update' = (IF update = "running" THEN "no" ELSE update)
    /\ UNCHANGED <<supVars, quitting, app, proc, born, killed, file, historyVars, launches, sessions>>

-----------------------------------------------------------------------------
(* The app goes and comes back; a process ends.                            *)

\* Quit: the server stays.  (A spawn has been reported before the app can go.)
Quit ==
    /\ app = "on" /\ \A p \in Proc : proc[p] # "spawning"
    /\ app' = "off" /\ sup' = Fresh /\ waiters' = {} /\ adopted' = {} /\ checking' = {} /\ adopting' = NoLeftover
    /\ update' = "no" /\ quitting' = FALSE
    /\ mixed' = (mixed \/ steam) /\ asked' = FALSE
    /\ UNCHANGED <<worldVars, saved, told, unread, launches, sessions>>

AppStarts ==
    /\ app = "off" /\ sessions < MaxSessions /\ sessions' = sessions + 1
    /\ app' = "on" /\ adopting' = [NoLeftover EXCEPT !.pid = IF file \in Alive THEN file ELSE 0]
    /\ UNCHANGED <<sup, waiters, adopted, checking, update, quitting, worldVars, historyVars, launches>>

Adopts == UNCHANGED <<waiters, checking, mainVars, worldVars, saved, told, asked, mixed, launches, sessions>>
\* Mutant: a server that is still there is left alone.
TakesNone(readable) == FALSE
Takes(readable) == readable /\ adopting.pid \in Alive
\* findLeftover: the command line is read; if it is the server's, it is supervised again.
AdoptReads(readable) ==
    /\ app = "on" /\ adopting.pid # 0 /\ ~adopting.ours
    /\ adopting' = IF Takes(readable) THEN [adopting EXCEPT !.ours = TRUE] ELSE NoLeftover
    /\ IF readable THEN UNCHANGED unread
       ELSE Cardinality(unread) < MaxUnread /\ unread' = unread \cup {"launch"}
    /\ UNCHANGED <<sup, adopted>> /\ Adopts
AdoptEnds ==
    /\ app = "on" /\ adopting.ours /\ adopting' = NoLeftover
    /\ IF IdleState /\ update = "no"
       THEN /\ sup' = [sup EXCEPT !.state = "running", !.child = adopting.pid, !.restarts = 0]
            /\ adopted' = adopted \cup {adopting.pid}
       ELSE UNCHANGED <<sup, adopted>>
    /\ UNCHANGED unread /\ Adopts

\* On its own, or told to; only in a stop is it certain that nothing is launched for it.  (What was
\* said of the process is forgotten; a check of its command line is its handle's report.)
ProcEnds(p) ==
    /\ proc[p] = "up" /\ proc' = [proc EXCEPT ![p] = "over"]
    /\ file' = IF file = p THEN 0 ELSE file
    /\ killed' = killed \ {p} /\ told' = told \ {p} /\ saved' = saved \ {p}
    /\ adopted' = adopted \ {p} /\ checking' = checking \ {p}
    /\ IF p = sup.child /\ sup.state = "stopping" /\ sup.at # "saving" THEN NoLaunch ELSE MayLaunch
    /\ UNCHANGED <<sup, waiters, adopting, mainVars, born, steam, asked, mixed, unread, sessions>>

-----------------------------------------------------------------------------
AppStep ==
    \/ EndEvent \/ TokenRead(TRUE) \/ TokenRead(FALSE) \/ Saved \/ SaveFails
    \/ TimerFires \/ AdoptEnds
    \/ \E b \in BOOLEAN : AdoptReads(b) \/ ShutDownAnswered(b)
    \/ \E p \in Proc, b \in BOOLEAN : KillCheck(p, b)
    \/ \E p \in Proc : Spawned(p) \/ SpawnFails(p)
Ask == Start \/ StopAndQuit \/ \E any \in BOOLEAN : Stop(any) \/ Restart(any) \/ Update(any)
KilledEnds == \E p \in killed : ProcEnds(p)

Next ==
    \/ AppStep \/ Ask \/ Forget \/ UpdateEnds \/ Quit \/ AppStarts
    \/ \E p \in Proc : ProcEnds(p)

Spec == Init /\ [][Next]_vars
\* The event loop goes on, calls come back, and a process that is ended by the system ends.
LiveSpec == Spec /\ WF_vars(AppStep) /\ WF_vars(KilledEnds)

-----------------------------------------------------------------------------
Supervisor ==
    [state : {"stopped", "starting", "running", "stopping", "crashed"}, child : Proc \cup {0},
     at : {"no", "token", "saving", "shutdown", "waiting"}, force : BOOLEAN, restarts : 0..MaxRestarts]
TypeOK ==
    /\ sup \in Supervisor
    /\ sup.child = 0 <=> IdleState
    /\ sup.at \in {"saving", "shutdown", "waiting"} => sup.state = "stopping"
    /\ waiters \subseteq {"stop", "restart", "update", "quit"}
    /\ adopted \subseteq Proc /\ checking \subseteq adopted
    /\ adopting \in [pid : Proc \cup {0}, ours : BOOLEAN]
    /\ update \in {"no", "stopping", "running"} /\ quitting \in BOOLEAN /\ app \in {"on", "off"}
    /\ proc \in [Proc -> {"none", "spawning", "up", "over"}] /\ born \in 0..launches
    /\ killed \subseteq Proc /\ file \in Proc \cup {0} /\ steam \in BOOLEAN
    /\ saved \subseteq Proc /\ told \subseteq Proc /\ asked \in BOOLEAN /\ mixed \in BOOLEAN
    /\ unread \subseteq {"kill", "launch"} /\ launches \in 0..MaxLaunches /\ sessions \in 0..MaxSessions

\* There is never a second server (leftoverServer.ts), over crashes, restarts, updates and sessions,
\* as long as kill() could read the command line.
NeverTwo == "kill" \notin unread => Cardinality(Alive) <= 1

\* The pid file names the server that outlives the app, or that the app does not supervise.
PidFileTells ==
    "kill" \notin unread /\ (app = "off" \/ IdleState) => Alive \subseteq {file}

\* Nothing ends a server that runs before the game is saved, unless "Stop anyway" was pressed in this stop.
SavedFirst ==
    [][\A p \in told' \ told : proc[p] = "up" => p \in saved' \/ asked \/ asked']_vars

\* SteamCMD never runs beside the server it updates (updater.ts leaves that to its caller), unless a
\* restart was still awaited or the app quit during the update.
UpdatesAlone == steam /\ ~mixed /\ "kill" \notin unread => Alive = {}

\* Whoever awaits a stop gets an answer, whatever the game and its API do.
StopResolves == waiters # {} ~> waiters = {}

\* A server an earlier session left running is supervised again, or has ended.
LeftoverTaken ==
    \A p \in Proc :
        (app = "on" /\ file = p /\ p \in Alive) ~>
            (sup.child = p \/ p \notin Alive \/ app = "off" \/ unread # {})
=============================================================================
