----------------------------- MODULE AlertState -----------------------------
(***************************************************************************)
(* The state machine of one alert (alertStateMachine.ts): ok, pending and  *)
(* firing.  Times are kept as ages, in ticks of the evaluator.             *)
(***************************************************************************)
EXTENDS Integers

CONSTANT Longest \* ages beyond every threshold are alike

ASSUME LongestAssumption == Longest \in Nat

None == -1 \* null
Age == None .. Longest
State == [phase : {"ok", "pending", "firing"}, since : Age, clearSince : Age,
          notified : Age, last : BOOLEAN]
NoState == [phase |-> "ok", since |-> None, clearSince |-> None, notified |-> None, last |-> FALSE]

OlderForever(age) == IF age = None THEN age ELSE age + 1 \* mutant
Older(age) == IF age = None \/ age = Longest THEN age ELSE age + 1
Later(st) == [st EXCEPT !.since = Older(@), !.clearSince = Older(@), !.notified = Older(@)]

\* step: the new state and the transition ("none" for nothing).  A timing is
\* [for, clear, repeat]; a condition is "true", "false" or "unknown".
Elapsed(age) == IF age = None THEN 0 ELSE age
Result(st, transition) == [state |-> st, transition |-> transition]
Fires(since) == Result([phase |-> "firing", since |-> since, clearSince |-> None,
                        notified |-> 0, last |-> TRUE], "fired")
Step(st, condition, timing) ==
    LET held == IF condition = "unknown" THEN st.last ELSE condition = "true"
    IN  CASE st.phase = "ok" /\ held ->
               IF timing.for = 0 THEN Fires(0)
               ELSE Result([NoState EXCEPT !.phase = "pending", !.since = 0, !.last = TRUE], "none")
          [] st.phase = "pending" /\ held ->
               IF Elapsed(st.since) >= timing.for THEN Fires(st.since)
               ELSE Result([st EXCEPT !.last = TRUE], "none")
          [] st.phase \in {"ok", "pending"} /\ ~held -> Result(NoState, "none")
          [] st.phase = "firing" /\ held ->
               LET due == st.notified = None \/ st.notified >= timing.repeat
               IN  Result([st EXCEPT !.clearSince = None, !.last = TRUE,
                                     !.notified = IF due THEN 0 ELSE @],
                          IF due THEN "renotify" ELSE "none")
          [] OTHER ->
               LET since == IF st.clearSince = None THEN 0 ELSE st.clearSince
               IN  IF since >= timing.clear THEN Result(NoState, "resolved")
                   ELSE Result([st EXCEPT !.clearSince = since, !.last = FALSE], "none")

\* resumeAfterSuppression.
ResumedFiring(st) == IF st.phase = "pending" THEN NoState ELSE st \* mutant: half a clear survives
Resumed(st) ==
    CASE st.phase = "ok" -> st
      [] st.phase = "pending" -> NoState
      [] OTHER -> [st EXCEPT !.clearSince = None]
=============================================================================
