---------------------------- MODULE AlertEvaluator ----------------------------
(***************************************************************************)
(* The alert rules of one server (alertEvaluatorWorker.ts,                 *)
(* serverAlertEvaluator.ts, alertStateMachine.ts).  Every tick evaluates   *)
(* the rules from the last readings and the persisted states, keeps within *)
(* the hourly quota of events, and stores states and events in one         *)
(* transaction; only then does the memory of the evaluator advance.        *)
(*                                                                         *)
(* Plain subjects are the circuits of one power rule: they are not         *)
(* evaluated while the game is paused or the server out of reach.  Link    *)
(* subjects are server_unreachable and agent_offline.  A tick is a unit of *)
(* time; times are kept as ages.                                           *)
(***************************************************************************)
EXTENDS AlertState, FiniteSets

CONSTANTS
    Plain, Link,          \* sets of numbers, in the order of evaluation
    For, Clear, Repeat,   \* the timing of the rules, in ticks
    Window, MaxEvents,    \* EVENT_QUOTA_WINDOW_MS, MAX_ALERT_EVENTS_PER_SERVER_PER_HOUR
    MaxTracked,           \* MAX_CIRCUIT_SUBJECTS_PER_RULE
    Faults, MaxTroubles     \* kinds of trouble, and a bound on how often

Subject == Plain \cup Link
Timing == [for |-> For, clear |-> Clear, repeat |-> Repeat]

ASSUME NumbersAssumption ==
    /\ {For, Clear, Repeat} \subseteq 0 .. Longest /\ {Window, MaxEvents, MaxTracked} \subseteq Nat \ {0}
    /\ MaxTroubles \in Nat
ASSUME SubjectsAssumption ==
    IsFiniteSet(Subject) /\ Subject \subseteq Nat \ {0} /\ Plain \cap Link = {}

VARIABLES
    states,        \* alerts.alert_state: [subject -> state], NoState when it has no row
    stateRows,     \* the subjects that have one: a row may say ok
    events,        \* alerts.alert_events to the end of the window: pairs of an age and a subject
    ruleOn,        \* the power rule is enabled
    wasSuppressed, \* the evaluator's memory of the last tick
    calm,          \* "no", or the readings have settled: "bad", "good"
    told,          \* history: the last event but reminders says that it is firing
    paced,         \* history: those of them that the quota can refuse
    observed,      \* history: [subject -> evaluated ticks without a gap that said the same]
    troubles
alertVars == <<states, stateRows, events, ruleOn, wasSuppressed, calm, told, paced, observed, troubles>>
historyVars == <<told, paced, observed>>

HasRow(s) == s \in stateRows

AlertsInit ==
    /\ states = [s \in Subject |-> NoState] /\ stateRows = {}
    /\ events = {} /\ paced = {}
    /\ ruleOn = TRUE /\ wasSuppressed = FALSE /\ calm = "no" /\ troubles = 0
    /\ told = [s \in Subject |-> FALSE]
    /\ observed = [s \in Subject |-> [of |-> FALSE, ticks |-> 0]]

-----------------------------------------------------------------------------
Shifted(log) == {<<e[1] + 1, e[2]>> : e \in {f \in log : f[1] < Window}}
Now(set) == {<<0, s>> : s \in set}

-----------------------------------------------------------------------------
\* serverAlertEvaluator.ts.  An input: muted, suppressed (muted, paused or unreachable),
\* fresh (the circuits were read lately), and what the reading says of each subject.
Says == {"true", "false", "unknown"}
Circuit == {"true", "false", "gone"}
Input(muted, dark, fresh, circuit, link) ==
    [muted |-> muted, dark |-> dark, fresh |-> fresh, circuit |-> circuit, link |-> link]
AllOf(set, x) == [s \in set |-> x]
\* (Where nothing would look at a part of the reading, one value of it stands for all.)
Inputs ==
    {Input(TRUE, FALSE, FALSE, AllOf(Plain, "false"), AllOf(Link, "unknown"))}
    \cup {Input(FALSE, dark, FALSE, AllOf(Plain, "false"), l) : dark \in BOOLEAN, l \in [Link -> Says]}
    \cup {Input(FALSE, FALSE, TRUE, c, l) : c \in [Plain -> Circuit], l \in [Link -> Says]}
Settled(condition) == Input(FALSE, FALSE, TRUE, AllOf(Plain, condition), AllOf(Link, "false"))
Suppressed(in) == in.muted \/ in.dark

\* The states the rules continue from.
Effective(in) ==
    [s \in Subject |->
       LET st == Later(states[s])
       IN  IF wasSuppressed /\ ~Suppressed(in) /\ s \in Plain /\ ruleOn THEN Resumed(st) ELSE st]

\* A circuit that has no row yet joins while the rule tracks fewer than the most.
Lowest(set, n) == {s \in set : Cardinality({q \in set : q < s}) < n}
Circuits(in) ==
    LET tracked == {s \in Plain : HasRow(s)}
        present == {s \in Plain : in.fresh /\ in.circuit[s] # "gone"}
        room == MaxTracked - Cardinality(tracked)
    IN  tracked \cup Lowest(present \ tracked, IF room > 0 THEN room ELSE 0)
Condition(in, s) ==
    CASE s \in Link -> in.link[s]
      [] ~in.fresh -> "unknown"
      [] in.circuit[s] = "gone" -> "false"
      [] OTHER -> in.circuit[s]
Evaluated(in) ==
    (IF in.muted THEN {} ELSE Link)
    \cup (IF Suppressed(in) \/ ~ruleOn THEN {} ELSE Circuits(in))
Stepped(in) ==
    [s \in Subject |-> IF s \in Evaluated(in) THEN Step(Effective(in)[s], Condition(in, s), Timing)
                       ELSE Result(Effective(in)[s], "none")]

\* withinEventQuota: what always goes, then fires, then reminders, while there is room.
Room == LET n == Cardinality(Shifted(events)) IN IF n >= MaxEvents THEN 0 ELSE MaxEvents - n
Of(res, transition) == {s \in Subject : res[s].transition = transition}
Always(res) == {s \in Subject : res[s].transition # "none" /\ (s \in Link \/ res[s].transition = "resolved")}
KeptRemindersFirst(res) == \* mutant
    LET renotified == Lowest(Of(res, "renotify") \ Link, Room)
    IN  Always(res) \cup renotified \cup Lowest(Of(res, "fired") \ Link, Room - Cardinality(renotified))
Kept(res) ==
    LET fired == Lowest(Of(res, "fired") \ Link, Room)
    IN  Always(res) \cup fired \cup Lowest(Of(res, "renotify") \ Link, Room - Cardinality(fired))
\* A fire that does not fit is stored as pending since the same time.
StoredFired(res, s) == res[s].state \* mutant: its state advances
Stored(res, s) ==
    IF res[s].transition = "fired" /\ s \notin Kept(res)
    THEN [NoState EXCEPT !.phase = "pending", !.since = res[s].state.since, !.last = TRUE]
    ELSE res[s].state

\* The tracked circuits that a fresh reading no longer has, and that are back to ok.
Forgotten(in, res) ==
    {s \in Evaluated(in) \cap Plain : in.fresh /\ in.circuit[s] = "gone" /\ res[s].state.phase = "ok"}

Write(in, res) ==
    LET kept == Kept(res)
    IN  /\ states' = [s \in Subject |-> Stored(res, s)]
        /\ stateRows' = (stateRows \cup {s \in Subject : Stored(res, s) # NoState}) \ Forgotten(in, res)
        /\ events' = Shifted(events) \cup Now(kept)
        /\ paced' = Shifted(paced) \cup Now({s \in kept \ Link : res[s].transition # "resolved"})
        /\ told' = [s \in Subject |-> CASE s \in kept /\ res[s].transition = "fired" -> TRUE
                                        [] s \in kept /\ res[s].transition = "resolved" -> FALSE
                                        [] OTHER -> told[s]]
Writes(in) == \E res \in {Stepped(in)} : Write(in, res)

NothingWritten ==
    /\ states' = [s \in Subject |-> Later(states[s])] /\ stateRows' = stateRows
    /\ events' = Shifted(events) /\ paced' = Shifted(paced) /\ told' = told

Advance(in) == wasSuppressed' = Suppressed(in)

\* What has been observed of a plain subject: a gap or another answer starts it again.
Observe(in, ok) ==
    observed' = [s \in Subject |->
        LET o == observed[s]
            says == IF s \notin Plain \/ ~ok THEN "unknown" ELSE Condition(in, s)
            held == IF says = "unknown" THEN o.of ELSE says = "true"
        IN  IF s \in Plain /\ (Suppressed(in) \/ ~ruleOn) THEN [of |-> o.of, ticks |-> 0]
            ELSE IF held = o.of THEN [o EXCEPT !.ticks = IF @ > Longest THEN @ ELSE @ + 1]
            ELSE [of |-> held, ticks |-> 1]]

-----------------------------------------------------------------------------
Trouble(kind) == kind \in Faults /\ troubles < MaxTroubles /\ troubles' = troubles + 1

Readings == CASE calm = "bad" -> {Settled("true")} [] calm = "good" -> {Settled("false")} [] OTHER -> Inputs

\* A tick that goes well.
Evaluate ==
    /\ \E in \in Readings : Writes(in) /\ Advance(in) /\ Observe(in, TRUE)
    /\ UNCHANGED <<ruleOn, calm, troubles>>

\* The database fails before anything is stored: "no state change".
EvaluateFails ==
    /\ Trouble("write") /\ NothingWritten
    /\ \E in \in Readings : Observe(in, FALSE)
    /\ UNCHANGED <<ruleOn, wasSuppressed, calm>>

\* The transaction commits and its answer is lost: the memory does not advance.
EvaluateUnsure ==
    /\ Trouble("unsure")
    /\ \E in \in Readings : Writes(in) /\ Observe(in, TRUE)
    /\ UNCHANGED <<ruleOn, wasSuppressed, calm>>

\* Another evaluator starts: a restart, or another leader.
Restart ==
    /\ Trouble("restart") /\ wasSuppressed' = FALSE /\ NothingWritten
    /\ \E in \in Readings : Observe(in, FALSE)
    /\ UNCHANGED <<ruleOn, calm>>

\* updateRule: a rule is disabled or enabled; its states stay.
SetRule ==
    /\ calm = "no" /\ Trouble("rule") /\ ruleOn' = ~ruleOn
    /\ UNCHANGED <<states, stateRows, events, wasSuppressed, calm, historyVars>>

\* (For the liveness properties.)  From now on the rule is on and the game says the same.
Settle ==
    /\ calm = "no" /\ ruleOn /\ calm' \in {"bad", "good"}
    /\ UNCHANGED <<states, stateRows, events, ruleOn, wasSuppressed, troubles, historyVars>>

AlertsNext == Evaluate \/ EvaluateFails \/ EvaluateUnsure \/ Restart \/ SetRule \/ Settle

AlertsSpec == AlertsInit /\ [][AlertsNext]_alertVars

\* The worker's timer goes on (which matters once the game says the same).
AlertsFairSpec == AlertsSpec /\ WF_alertVars(calm # "no" /\ Evaluate)

-----------------------------------------------------------------------------
AlertsTypeOK ==
    /\ states \in [Subject -> State] /\ stateRows \subseteq Subject
    /\ events \subseteq (0 .. Window) \X Subject /\ paced \subseteq events
    /\ {ruleOn, wasSuppressed} \subseteq BOOLEAN /\ told \in [Subject -> BOOLEAN]

\* "Discord never keeps showing an alert that is over" (withinEventQuota), and no alert fires
\* twice: the log's last word on a subject is its state. And in no window do the events it paces
\* exceed MAX_ALERT_EVENTS_PER_SERVER_PER_HOUR, so an alert the log has no room for is not told of.
LogIsKept ==
    /\ \A s \in Subject : told[s] <=> states[s].phase = "firing"
    /\ Cardinality(paced) <= MaxEvents

\* "a gap never counts as time" (serverAlertEvaluator.ts): an alert fires after For, and
\* resolves after Clear, of observing that and nothing else.
GapNeverCounts ==
    [][troubles = 0 => \A s \in Plain : told[s] # told'[s] =>
         observed'[s].ticks > (IF told'[s] THEN For ELSE Clear)]_alertVars

\* What goes on long enough is told of, "as soon as there is room" (withinEventQuota), however
\* full the log was; and what is over is said to be over.
AlertsAreTold ==
    /\ calm = "bad" ~> \A s \in Plain : told[s]
    /\ calm = "good" ~> \A s \in Subject : ~told[s]
=============================================================================
