------------------------------ MODULE PushQueue ------------------------------
(***************************************************************************)
(* How an agent's snapshots reach the backend: the sample loop fills a     *)
(* bounded queue that drops its oldest (agentRunner.ts, queue.ts), the     *)
(* pusher sends the head until it is answered (pusher.ts), and the backend *)
(* takes one upload of an agent at a time (POST /snapshots, agentApi.ts).  *)
(* Snapshots are numbered in the order they are taken.                     *)
(***************************************************************************)
EXTENDS Naturals, SequencesExt

CONSTANTS
    Room,      \* QUEUE_MAX_SNAPSHOTS
    MaxSamples, MaxFaults \* bounds

ASSUME BoundsAssumption == Room \in Nat \ {0} /\ MaxSamples \in Nat /\ MaxFaults \in Nat

VARIABLES
    taken,            \* the number of the last snapshot
    queue,
    pc,               \* the pusher: "looking", "waiting", "posting", "sleeping", "stopped"
    stopped,          \* the signal that ends all loops of the agent
    uploads,          \* requests the backend still has; while pc = "posting" the last is the one awaited
    valid, attached,  \* the credential; the server's runtime takes snapshots
    ingested,         \* history: what was ingested, in order
    refused, dropped, \* history: refused for good, dropped for room
    faults
agentVars == <<taken, queue, pc, stopped>>
backendVars == <<uploads, valid, attached, ingested>>
historyVars == <<refused, dropped>>
pushVars == <<agentVars, backendVars, historyVars, faults>>

\* Every snapshot's upload: where it is, and whether it counts as under way ("uploading").
Upload == [n : Nat, at : {"sent", "reading", "attaching", "ingested", "gone",
                          "ok", "busy", "failed", "bad", "denied"}, open : BOOLEAN]
Answers == {"ok", "busy", "failed", "bad", "denied"}

PushInit ==
    /\ taken = 0 /\ queue = <<>> /\ pc = "looking" /\ stopped = FALSE
    /\ uploads = <<>> /\ valid = TRUE /\ attached \in BOOLEAN /\ ingested = <<>>
    /\ refused = {} /\ dropped = {} /\ faults = 0

Fault == faults < MaxFaults /\ faults' = faults + 1

-----------------------------------------------------------------------------
(* The agent: the sample loop and the pusher.                               *)

\* Mutant: the loop is woken when more than one is queued.
WakesForMany(q) == Len(q) > 1
Wakes(q) == TRUE

\* The queue with one more: the oldest goes if there is no room.
Queued(n) == IF Len(queue) = Room THEN Append(Tail(queue), n) ELSE Append(queue, n)

\* A snapshot is queued, and a waiting pusher is woken.
Sample ==
    /\ ~stopped /\ taken < MaxSamples
    /\ taken' = taken + 1
    /\ queue' = Queued(taken')
    /\ dropped' = dropped \cup ((Range(queue) \cup {taken'}) \ Range(queue'))
    /\ pc' = IF pc = "waiting" /\ Wakes(queue') THEN "looking" ELSE pc
    /\ UNCHANGED <<stopped, backendVars, refused, faults>>

LookInQueue ==
    /\ pc = "looking"
    /\ IF stopped THEN pc' = "stopped" /\ UNCHANGED uploads
       ELSE IF queue = <<>> THEN pc' = "waiting" /\ UNCHANGED uploads
       ELSE /\ pc' = "posting"
            /\ uploads' = Append(uploads, [n |-> Head(queue), at |-> "sent", open |-> FALSE])
    /\ UNCHANGED <<taken, queue, stopped, valid, attached, ingested, historyVars, faults>>

Awaited == Last(uploads)
Others == Front(uploads)

\* Mutant: the head goes, whichever it is by now.
AfterAnswerAny(n) == Tail(queue)
\* The head may have been dropped for room while its request was in flight.
AfterAnswer(n) == IF queue # <<>> /\ Head(queue) = n THEN Tail(queue) ELSE queue

\* Taken, or refused in a way that no retry mends: the next one.
Answered ==
    /\ pc = "posting" /\ Awaited.at \in {"ok", "bad"}
    /\ uploads' = Others /\ queue' = AfterAnswer(Awaited.n) /\ pc' = "looking"
    /\ refused' = IF Awaited.at = "bad" THEN refused \cup {Awaited.n} ELSE refused
    /\ UNCHANGED <<taken, stopped, valid, attached, ingested, dropped, faults>>

\* 429, 5xx, a broken connection: again after a pause.
TryLater ==
    /\ pc = "posting" /\ Awaited.at \in {"busy", "failed", "gone"}
    /\ uploads' = Others /\ pc' = "sleeping"
    /\ UNCHANGED <<taken, queue, stopped, valid, attached, ingested, historyVars, faults>>

\* No answer in time; the request may still be on its way, and the backend may go on with it.
TimesOut ==
    /\ pc = "posting" /\ Fault
    /\ uploads' = IF Awaited.at \in Answers THEN Others ELSE uploads
    /\ pc' = "sleeping"
    /\ UNCHANGED <<taken, queue, stopped, valid, attached, ingested, historyVars>>

\* 401: every loop of the agent stops.
Rejected ==
    /\ pc = "posting" /\ Awaited.at = "denied"
    /\ uploads' = Others /\ stopped' = TRUE /\ pc' = "stopped"
    /\ UNCHANGED <<taken, queue, valid, attached, ingested, historyVars, faults>>

SleepEnds ==
    /\ pc = "sleeping" /\ pc' = "looking"
    /\ UNCHANGED <<taken, queue, stopped, backendVars, historyVars, faults>>

\* The agent is told to stop: waits end, a request in flight is given up.
Stop ==
    /\ ~stopped /\ stopped' = TRUE
    /\ pc' = "stopped"
    /\ UNCHANGED <<taken, queue, backendVars, historyVars, faults>>

-----------------------------------------------------------------------------
(* The backend: POST /snapshots of this agent.                              *)

Waits(k) == pc = "posting" /\ k = Len(uploads)
\* The answer reaches the agent if it still waits for it.
Finish(k, answer) ==
    uploads' = IF Waits(k) THEN [uploads EXCEPT ![k].at = answer, ![k].open = FALSE]
               ELSE RemoveAt(uploads, k)
At(k, place) == uploads[k].at = place
Moves(k, place) == uploads' = [uploads EXCEPT ![k].at = place]

Uploading == \E k \in DOMAIN uploads : uploads[k].open

\* Authentication, then one upload at a time, then the rate (a fault, as the agent keeps to it).
AdmitUpload(k) ==
    /\ At(k, "sent")
    /\ \/ ~valid /\ Finish(k, "denied") /\ UNCHANGED faults
       \/ valid /\ Uploading /\ Finish(k, "busy") /\ UNCHANGED faults
       \/ valid /\ ~Uploading /\ Finish(k, "failed") /\ Fault
       \/ /\ valid /\ ~Uploading
          /\ uploads' = [uploads EXCEPT ![k].at = "reading", ![k].open = TRUE]
          /\ UNCHANGED faults
    /\ UNCHANGED <<agentVars, valid, attached, ingested, historyVars>>

\* A body over the cap, or one the schema refuses.
RefuseBody(k) ==
    /\ At(k, "reading") /\ Fault /\ Finish(k, "bad")
    /\ UNCHANGED <<agentVars, valid, attached, ingested, historyVars>>

HandleUpload(k) ==
    /\ At(k, "reading")
    /\ \/ /\ attached /\ Moves(k, "ingested")
          /\ ingested' = Append(ingested, uploads[k].n) /\ UNCHANGED faults
       \/ ~attached /\ Moves(k, "attaching") /\ UNCHANGED <<ingested, faults>>
       \/ Finish(k, "failed") /\ Fault /\ UNCHANGED ingested \* not ready
    /\ UNCHANGED <<agentVars, valid, attached, historyVars>>

\* The runtime is built, one attempt after another (a lock per server); 503 if that failed.
Attach(k) ==
    /\ At(k, "attaching") /\ \A j \in 1..(k - 1) : ~At(j, "attaching")
    /\ \/ /\ attached' = TRUE /\ Moves(k, "ingested")
          /\ ingested' = Append(ingested, uploads[k].n) /\ UNCHANGED faults
       \/ Fault /\ Finish(k, "failed") /\ UNCHANGED <<attached, ingested>>
    /\ UNCHANGED <<agentVars, valid, historyVars>>

\* Answered once the open commands were counted, or that failed.
Reply(k) ==
    /\ At(k, "ingested")
    /\ \/ Finish(k, "ok") /\ UNCHANGED faults
       \/ Finish(k, "failed") /\ Fault
    /\ UNCHANGED <<agentVars, valid, attached, ingested, historyVars>>

\* A request nobody waits for: it never arrived, or its connection is closed; the handler goes on.
CloseUpload(k) ==
    /\ ~Waits(k)
    /\ uploads' = CASE uploads[k].at \in {"sent", "reading"} -> RemoveAt(uploads, k)
                    [] uploads[k].at \in {"attaching", "ingested"} -> [uploads EXCEPT ![k].open = FALSE]
                    [] OTHER -> RemoveAt(uploads, k)
    /\ UNCHANGED <<agentVars, valid, attached, ingested, historyVars, faults>>

RevokeAgent ==
    /\ valid /\ valid' = FALSE
    /\ UNCHANGED <<agentVars, uploads, attached, ingested, historyVars, faults>>

\* The backend starts again and what it was doing is gone.
BackendRestarts ==
    /\ Fault /\ attached' \in BOOLEAN
    /\ uploads' = IF pc = "posting" THEN <<[Awaited EXCEPT !.at = "gone", !.open = FALSE]>> ELSE <<>>
    /\ UNCHANGED <<agentVars, valid, ingested, historyVars>>

BackendStep(k) == AdmitUpload(k) \/ HandleUpload(k) \/ Attach(k) \/ Reply(k) \/ CloseUpload(k)
AgentStep == LookInQueue \/ Answered \/ TryLater \/ Rejected \/ SleepEnds

PushNext ==
    \/ Sample \/ AgentStep \/ TimesOut \/ Stop \/ RevokeAgent \/ BackendRestarts
    \/ \E k \in DOMAIN uploads : BackendStep(k) \/ RefuseBody(k)

PushSpec == PushInit /\ [][PushNext]_pushVars
\* The agent's loops go on, every request has a timeout, and the backend handles what it has.
PushLiveSpec ==
    /\ PushSpec /\ WF_pushVars(AgentStep)
    /\ WF_pushVars(\E k \in DOMAIN uploads : BackendStep(k))
    /\ WF_pushVars(\E k \in DOMAIN uploads : CloseUpload(k))

-----------------------------------------------------------------------------
Came == Range(ingested)

PushTypeOK ==
    /\ taken \in Nat /\ faults \in Nat
    /\ queue \in Seq(1..taken) /\ Len(queue) <= Room
    /\ pc \in {"looking", "waiting", "posting", "sleeping", "stopped"} /\ stopped \in BOOLEAN
    /\ uploads \in Seq(Upload) /\ (pc = "posting" => uploads # <<>>)
    /\ valid \in BOOLEAN /\ attached \in BOOLEAN /\ ingested \in Seq(1..taken)
    /\ refused \subseteq 1..taken /\ dropped \subseteq 1..taken

\* A snapshot leaves the queue only when the backend has it, refused it, or there was no room.
Accounted == \A n \in 1..taken : n \in Range(queue) \cup Came \cup refused \cup dropped

\* The queue holds the newest snapshots, oldest first; what is dropped for room is older than all of them.
OldestFirst ==
    /\ \A i, j \in DOMAIN queue : i < j => queue[i] < queue[j]
    /\ \A n \in dropped, m \in Range(queue) : n < m

\* At most one upload of the agent is read at a time, however many it gave up on.
OneIsRead == \A j, k \in DOMAIN uploads : At(j, "reading") /\ At(k, "reading") => j = k

\* What is queued reaches the backend, unless it is dropped, refused, or the agent stops.
QueueDrains == []<>(queue = <<>> \/ stopped)
=============================================================================
