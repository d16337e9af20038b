-------------------------- MODULE AgentTrafficProofs --------------------------
(***************************************************************************)
(* Theorems about what an agent exchanges with the backend: its uploads of *)
(* snapshots (PushQueue), for any room, number of snapshots and faults,    *)
(* and its polls for commands (LongPoll), for any number of connections,   *)
(* commands and credentials.                                               *)
(***************************************************************************)
EXTENDS LongPoll, PushQueue, FiniteSetTheorems, SequenceTheorems, TLAPS

-----------------------------------------------------------------------------
(* The uploads.                                                            *)

USE BoundsAssumption

\* The uploads: of snapshots that were taken; what is answered ok came; at most one is open, and what is
\* read is.
Fine(u, came, top) ==
    /\ u \in Seq(Upload)
    /\ \A k \in 1..Len(u) : /\ u[k].n \in 1..top
                            /\ u[k].at \in {"ingested", "ok"} => u[k].n \in came
                            /\ u[k].at = "reading" => u[k].open
    /\ \A j, k \in 1..Len(u) : u[j].open /\ u[k].open => j = k

PushInv == PushTypeOK /\ Fine(uploads, Came, taken) /\ Accounted /\ OldestFirst

-----------------------------------------------------------------------------
(* What the changes of the uploads keep.                                    *)

LEMMA RemoveAtProperties ==
    ASSUME NEW S, NEW s \in Seq(S), NEW k \in 1..Len(s)
    PROVE  /\ RemoveAt(s, k) \in Seq(S) /\ Len(RemoveAt(s, k)) = Len(s) - 1
           /\ \A i \in 1..(Len(s) - 1) : RemoveAt(s, k)[i] = s[IF i < k THEN i ELSE i + 1]
  <1>. DEFINE l == SubSeq(s, 1, k - 1)
              r == SubSeq(s, k + 1, Len(s))
  <1>1. Len(s) \in Nat /\ k \in 1..Len(s) /\ \A i \in 1..Len(s) : s[i] \in S BY LenProperties, ElementOfSeq
  <1>2. /\ l \in Seq(S) /\ Len(l) = k - 1
        /\ \A i \in 1..(k - 1) : l[i] = s[i]
    <2>1. \A i \in 1..(k - 1) : s[i] \in S BY <1>1
    <2>. QED BY <1>1, <2>1, SubSeqProperties
  <1>3. /\ r \in Seq(S) /\ Len(r) = Len(s) - k
        /\ \A i \in 1..(Len(s) - k) : r[i] = s[k + i]
    <2>1. \A i \in (k + 1)..Len(s) : s[i] \in S BY <1>1
    <2>2. /\ r \in Seq(S) /\ Len(r) = IF k + 1 <= Len(s) THEN Len(s) - (k + 1) + 1 ELSE 0
          /\ \A i \in 1..(Len(s) - (k + 1) + 1) : r[i] = s[k + 1 + i - 1]
      BY <1>1, <2>1, SubSeqProperties
    <2>. QED BY <1>1, <2>2
  <1>. HIDE DEF l, r
  <1>4. /\ l \o r \in Seq(S) /\ Len(l \o r) = Len(s) - 1
        /\ \A i \in 1..(Len(s) - 1) : (l \o r)[i] = IF i <= k - 1 THEN l[i] ELSE r[i - (k - 1)]
    BY <1>1, <1>2, <1>3, ConcatProperties
  <1>5. ASSUME NEW i \in 1..(Len(s) - 1) PROVE (l \o r)[i] = s[IF i < k THEN i ELSE i + 1]
    <2>1. CASE i < k
      <3>1. i \in 1..(k - 1) /\ i <= k - 1 BY <1>1, <2>1
      <3>. QED BY <1>2, <1>4, <2>1, <3>1
    <2>2. CASE ~(i < k)
      <3>1. i - (k - 1) \in 1..(Len(s) - k) /\ k + (i - (k - 1)) = i + 1
        <4>1. i \in Int /\ i >= k /\ i <= Len(s) - 1 BY <1>1, <2>2
        <4>. QED BY <1>1, <4>1
      <3>2. (l \o r)[i] = r[i - (k - 1)] BY <1>1, <1>4, <2>2
      <3>3. r[i - (k - 1)] = s[k + (i - (k - 1))] BY <1>3, <3>1
      <3>. QED BY <1>1, <2>2, <3>1, <3>2, <3>3
    <2>. QED BY <2>1, <2>2
  <1>6. RemoveAt(s, k) = l \o r BY DEF RemoveAt, l, r
  <1>. QED BY <1>4, <1>5, <1>6

LEMMA RemoveFine ==
    ASSUME NEW u, NEW came, NEW top \in Nat, Fine(u, came, top), NEW k \in 1..Len(u)
    PROVE  Fine(RemoveAt(u, k), came, top) /\ Len(RemoveAt(u, k)) = Len(u) - 1
  <1>. DEFINE w == RemoveAt(u, k)
              from(i) == IF i < k THEN i ELSE i + 1
  <1>1. u \in Seq(Upload) /\ Len(u) \in Nat BY LenProperties DEF Fine
  <1>2. w \in Seq(Upload) /\ Len(w) = Len(u) - 1 /\ \A i \in 1..Len(w) : w[i] = u[from(i)]
    BY <1>1, RemoveAtProperties
  <1>3. \A i \in 1..Len(w) : from(i) \in 1..Len(u) BY <1>1, <1>2
  <1>4. \A i, j \in 1..Len(w) : from(i) = from(j) => i = j BY <1>1, <1>2
  <1>. HIDE DEF w, from
  <1>. QED BY <1>2, <1>3, <1>4 DEF Fine, w

LEMMA FrontFine ==
    ASSUME NEW u, NEW came, NEW top \in Nat, Fine(u, came, top), u # <<>>
    PROVE  Fine(Front(u), came, top) /\ Last(u) = u[Len(u)] /\ Len(u) \in 1..Len(u)
  <1>1. u \in Seq(Upload) /\ Len(u) \in Nat \ {0} /\ \A i \in 1..Len(u) : u[i] \in Upload
    BY EmptySeq, ElementOfSeq DEF Fine
  <1>2. /\ Front(u) \in Seq(Upload) /\ Len(Front(u)) = Len(u) - 1
        /\ \A i \in 1..(Len(u) - 1) : Front(u)[i] = u[i]
    <2>. DEFINE m == Len(u) - 1
    <2>1. m \in Int /\ m >= 0 /\ \A i \in 1..m : u[i] \in Upload BY <1>1
    <2>. HIDE DEF m
    <2>2. /\ SubSeq(u, 1, m) \in Seq(Upload) /\ Len(SubSeq(u, 1, m)) = IF 1 <= m THEN m - 1 + 1 ELSE 0
          /\ \A i \in 1..(m - 1 + 1) : SubSeq(u, 1, m)[i] = u[1 + i - 1]
      BY <2>1, SubSeqProperties
    <2>3. Len(SubSeq(u, 1, m)) = m /\ \A i \in 1..m : SubSeq(u, 1, m)[i] = u[i] BY <2>1, <2>2
    <2>. QED BY <2>2, <2>3 DEF Front, m
  <1>. QED BY <1>1, <1>2 DEF Fine, Last

\* An upload moves on: it is answered, handled or closed.
LEMMA MovesFine ==
    ASSUME NEW u, NEW came, NEW top \in Nat, Fine(u, came, top), NEW k \in 1..Len(u), NEW e \in Upload,
           e.n = u[k].n, e.at \in {"ingested", "ok"} => e.n \in came, e.at = "reading" => e.open,
           e.open => u[k].open \/ \A j \in 1..Len(u) : ~u[j].open
    PROVE  Fine([u EXCEPT ![k] = e], came, top) /\ Len([u EXCEPT ![k] = e]) = Len(u)
  <1>. DEFINE w == [u EXCEPT ![k] = e]
  <1>1. u \in Seq(Upload) BY DEF Fine
  <1>2. w \in Seq(Upload) /\ Len(w) = Len(u) /\ \A j \in 1..Len(u) : w[j] = IF j = k THEN e ELSE u[j]
    BY <1>1, ExceptSeq
  <1>. HIDE DEF w
  <1>. QED BY <1>2 DEF Fine, w

\* As MovesFine, for the forms the actions have.
LEMMA AnsweredFine ==
    ASSUME NEW u, NEW came, NEW top \in Nat, Fine(u, came, top)
    PROVE  \A k \in 1..Len(u), answer \in Answers :
              (answer = "ok" => u[k].n \in came) =>
                 /\ Fine([u EXCEPT ![k].at = answer, ![k].open = FALSE], came, top)
                 /\ Len([u EXCEPT ![k].at = answer, ![k].open = FALSE]) = Len(u)
  <1>. TAKE k \in 1..Len(u), answer \in Answers
  <1>. HAVE answer = "ok" => u[k].n \in came
  <1>. DEFINE e == [u[k] EXCEPT !.at = answer, !.open = FALSE]
  <1>1. u \in Seq(Upload) /\ u[k] \in Upload BY ElementOfSeq DEF Fine
  <1>2. e \in Upload /\ e.n = u[k].n /\ e.at = answer /\ ~e.open BY <1>1 DEF Upload, Answers
  <1>3. [u EXCEPT ![k].at = answer, ![k].open = FALSE] = [u EXCEPT ![k] = e] BY <1>1
  <1>. HIDE DEF e
  <1>4. (e.at \in {"ingested", "ok"} => e.n \in came) /\ e.at # "reading" BY <1>2 DEF Answers
  <1>5. Fine([u EXCEPT ![k] = e], came, top) /\ Len([u EXCEPT ![k] = e]) = Len(u)
    BY <1>2, <1>4, MovesFine
  <1>. QED BY <1>3, <1>5

LEMMA AdmittedFine ==
    ASSUME NEW u, NEW came, NEW top \in Nat, Fine(u, came, top), NEW k \in 1..Len(u),
           \A j \in 1..Len(u) : ~u[j].open
    PROVE  /\ Fine([u EXCEPT ![k].at = "reading", ![k].open = TRUE], came, top)
           /\ Len([u EXCEPT ![k].at = "reading", ![k].open = TRUE]) = Len(u)
  <1>. DEFINE e == [u[k] EXCEPT !.at = "reading", !.open = TRUE]
  <1>1. u \in Seq(Upload) /\ u[k] \in Upload BY ElementOfSeq DEF Fine
  <1>2. e \in Upload /\ e.n = u[k].n /\ e.at = "reading" /\ e.open BY <1>1 DEF Upload
  <1>3. [u EXCEPT ![k].at = "reading", ![k].open = TRUE] = [u EXCEPT ![k] = e] BY <1>1
  <1>. HIDE DEF e
  <1>4. e.at \notin {"ingested", "ok"} BY <1>2
  <1>5. Fine([u EXCEPT ![k] = e], came, top) /\ Len([u EXCEPT ![k] = e]) = Len(u)
    BY <1>2, <1>4, MovesFine
  <1>. QED BY <1>3, <1>5

LEMMA HandledFine ==
    ASSUME NEW u, NEW came, NEW top \in Nat, Fine(u, came, top)
    PROVE  \A k \in 1..Len(u), place \in {"attaching", "ingested"} :
              (place = "ingested" => u[k].n \in came) =>
                 Fine([u EXCEPT ![k].at = place], came, top) /\ Len([u EXCEPT ![k].at = place]) = Len(u)
  <1>. TAKE k \in 1..Len(u), place \in {"attaching", "ingested"}
  <1>. HAVE place = "ingested" => u[k].n \in came
  <1>. DEFINE e == [u[k] EXCEPT !.at = place]
  <1>1. u \in Seq(Upload) /\ u[k] \in Upload BY ElementOfSeq DEF Fine
  <1>2. e \in Upload /\ e.n = u[k].n /\ e.at = place /\ e.open = u[k].open BY <1>1 DEF Upload
  <1>3. [u EXCEPT ![k].at = place] = [u EXCEPT ![k] = e] BY <1>1
  <1>. HIDE DEF e
  <1>4. (e.at \in {"ingested", "ok"} => e.n \in came) /\ e.at # "reading" /\ (e.open => u[k].open)
    BY <1>2
  <1>5. Fine([u EXCEPT ![k] = e], came, top) /\ Len([u EXCEPT ![k] = e]) = Len(u)
    BY <1>2, <1>4, MovesFine
  <1>. QED BY <1>3, <1>5

LEMMA ClosedFine ==
    ASSUME NEW u, NEW came, NEW top \in Nat, Fine(u, came, top)
    PROVE  \A k \in 1..Len(u) : u[k].at # "reading" =>
              Fine([u EXCEPT ![k].open = FALSE], came, top) /\ Len([u EXCEPT ![k].open = FALSE]) = Len(u)
  <1>. TAKE k \in 1..Len(u)
  <1>. HAVE u[k].at # "reading"
  <1>. DEFINE e == [u[k] EXCEPT !.open = FALSE]
  <1>1. u \in Seq(Upload) /\ u[k] \in Upload BY ElementOfSeq DEF Fine
  <1>2. e \in Upload /\ e.n = u[k].n /\ e.at = u[k].at /\ ~e.open BY <1>1 DEF Upload
  <1>3. [u EXCEPT ![k].open = FALSE] = [u EXCEPT ![k] = e] BY <1>1
  <1>. HIDE DEF e
  <1>4. (e.at \in {"ingested", "ok"} => e.n \in came) /\ e.at # "reading" BY <1>2 DEF Fine
  <1>5. Fine([u EXCEPT ![k] = e], came, top) /\ Len([u EXCEPT ![k] = e]) = Len(u)
    BY <1>2, <1>4, MovesFine
  <1>. QED BY <1>3, <1>5

LEMMA SentFine ==
    ASSUME NEW u, NEW came, NEW top \in Nat, Fine(u, came, top), NEW n \in 1..top
    PROVE  /\ Fine(Append(u, [n |-> n, at |-> "sent", open |-> FALSE]), came, top)
           /\ Append(u, [n |-> n, at |-> "sent", open |-> FALSE]) # <<>>
  <1>. DEFINE e == [n |-> n, at |-> "sent", open |-> FALSE]
  <1>1. e \in Upload /\ u \in Seq(Upload) /\ Len(u) \in Nat BY LenProperties DEF Upload, Fine
  <1>2. /\ Append(u, e) \in Seq(Upload) /\ Append(u, e) # <<>> /\ Len(Append(u, e)) = Len(u) + 1
        /\ \A i \in 1..Len(u) : Append(u, e)[i] = u[i]
        /\ Append(u, e)[Len(u) + 1] = e
    BY <1>1, AppendProperties
  <1>3. e.n = n /\ e.at = "sent" /\ ~e.open OBVIOUS
  <1>. HIDE DEF e
  <1>. QED BY <1>1, <1>2, <1>3 DEF Fine, e

LEMMA GrowsFine ==
    ASSUME NEW u, NEW came, NEW top \in Nat, Fine(u, came, top), NEW more, came \subseteq more,
           NEW higher \in Nat, top <= higher
    PROVE  Fine(u, more, higher)
  BY DEF Fine

-----------------------------------------------------------------------------
(* The steps that leave the queue alone.                                    *)

LEMMA QueueStays ==
    ASSUME PushInv, UNCHANGED <<taken, queue, historyVars>>, Fine(uploads', Came', taken),
           ingested' \in Seq(1..taken), Came \subseteq Came',
           pc' \in {"looking", "waiting", "posting", "sleeping", "stopped"},
           pc' = "posting" => uploads' # <<>>,
           stopped' \in BOOLEAN, valid' \in BOOLEAN, attached' \in BOOLEAN, faults' \in Nat
    PROVE  PushInv'
  <1>1. PushTypeOK' BY DEF PushInv, PushTypeOK, Fine, historyVars
  <1>2. Fine(uploads', Came', taken') OBVIOUS
  <1>3. Accounted' BY DEF PushInv, Accounted, historyVars
  <1>4. OldestFirst' BY DEF PushInv, OldestFirst, historyVars
  <1>. QED BY <1>1, <1>2, <1>3, <1>4 DEF PushInv

LEMMA AwaitedIsLast ==
    ASSUME PushInv, pc = "posting"
    PROVE  /\ Len(uploads) \in 1..Len(uploads) /\ Awaited = uploads[Len(uploads)]
           /\ Fine(Others, Came, taken)
  <1>1. uploads # <<>> /\ taken \in Nat BY DEF PushInv, PushTypeOK
  <1>. QED BY <1>1, FrontFine DEF PushInv, Awaited, Others

LEMMA FinishFine ==
    ASSUME PushInv, NEW k \in DOMAIN uploads, NEW answer \in Answers,
           answer = "ok" => uploads[k].n \in Came, Finish(k, answer)
    PROVE  Fine(uploads', Came, taken) /\ (pc = "posting" => uploads' # <<>>)
  <1>1. /\ uploads \in Seq(Upload) /\ Len(uploads) \in Nat /\ k \in 1..Len(uploads) /\ taken \in Nat
    BY LenProperties DEF PushInv, PushTypeOK
  <1>2. CASE Waits(k)
    <2>1. uploads' = [uploads EXCEPT ![k].at = answer, ![k].open = FALSE] BY <1>2 DEF Finish
    <2>2. /\ Fine([uploads EXCEPT ![k].at = answer, ![k].open = FALSE], Came, taken)
          /\ Len([uploads EXCEPT ![k].at = answer, ![k].open = FALSE]) = Len(uploads)
      <3>1. Fine(uploads, Came, taken) /\ taken \in Nat BY <1>1 DEF PushInv
      <3>2. \A n \in 1..Len(uploads), a \in Answers :
                (a = "ok" => uploads[n].n \in Came) =>
                   /\ Fine([uploads EXCEPT ![n].at = a, ![n].open = FALSE], Came, taken)
                   /\ Len([uploads EXCEPT ![n].at = a, ![n].open = FALSE]) = Len(uploads)
        BY <1>1, <3>1, AnsweredFine
      <3>. QED BY <1>1, <3>2
    <2>. QED BY <1>1, <2>1, <2>2
  <1>3. CASE ~Waits(k)
    <2>1. uploads' = RemoveAt(uploads, k) BY <1>3 DEF Finish
    <2>2. Fine(uploads', Came, taken) /\ Len(uploads') = Len(uploads) - 1
      BY <1>1, <2>1, RemoveFine DEF PushInv
    <2>3. pc = "posting" => k # Len(uploads) BY <1>3 DEF Waits
    <2>. QED BY <1>1, <2>2, <2>3
  <1>. QED BY <1>2, <1>3

LEMMA LookKeeps == ASSUME PushInv, LookInQueue PROVE PushInv'
  <1>1. UNCHANGED <<taken, queue, historyVars, ingested, stopped, valid, attached, faults>> BY DEF LookInQueue, historyVars
  <1>2. CASE UNCHANGED uploads /\ pc' # "posting"
    BY <1>1, <1>2, QueueStays DEF PushInv, PushTypeOK, LookInQueue, Came
  <1>3. CASE /\ pc' = "posting" /\ queue # <<>>
             /\ uploads' = Append(uploads, [n |-> Head(queue), at |-> "sent", open |-> FALSE])
    <2>1. Head(queue) \in 1..taken /\ taken \in Nat BY <1>3, HeadTailProperties DEF PushInv, PushTypeOK
    <2>2. Fine(uploads', Came, taken) /\ uploads' # <<>> BY <1>3, <2>1, SentFine DEF PushInv
    <2>. QED BY <1>1, <1>3, <2>2, QueueStays DEF PushInv, PushTypeOK, Came
  <1>. QED BY <1>2, <1>3 DEF LookInQueue

LEMMA GivesUpKeeps ==
    ASSUME PushInv, TryLater \/ TimesOut \/ Rejected PROVE PushInv'
  <1>1. pc = "posting" /\ pc' # "posting" /\ (uploads' = Others \/ uploads' = uploads)
        /\ UNCHANGED <<taken, queue, historyVars, ingested, valid, attached>>
    BY DEF TryLater, TimesOut, Rejected, historyVars
  <1>2. pc' \in {"sleeping", "stopped"} /\ stopped' \in BOOLEAN /\ faults' \in Nat
    <2>1. faults \in Nat /\ stopped \in BOOLEAN BY DEF PushInv, PushTypeOK
    <2>2. CASE TryLater BY <2>1, <2>2 DEF TryLater
    <2>3. CASE TimesOut BY <2>1, <2>3 DEF TimesOut, Fault
    <2>4. CASE Rejected BY <2>1, <2>4 DEF Rejected
    <2>. QED BY <2>2, <2>3, <2>4
  <1>3. Fine(uploads', Came, taken) BY <1>1, AwaitedIsLast DEF PushInv
  <1>. QED BY <1>1, <1>2, <1>3, QueueStays DEF PushInv, PushTypeOK, Came

LEMMA LoopsKeep ==
    ASSUME PushInv, SleepEnds \/ Stop \/ RevokeAgent PROVE PushInv'
  <1>1. /\ UNCHANGED <<taken, queue, historyVars, ingested, uploads, attached, faults>>
        /\ pc' = "posting" => pc = "posting"
        /\ pc' \in {"looking", "stopped", pc} /\ stopped' \in BOOLEAN /\ valid' \in BOOLEAN
    BY DEF PushInv, PushTypeOK, SleepEnds, Stop, RevokeAgent, historyVars, backendVars, agentVars
  <1>. QED BY <1>1, QueueStays DEF PushInv, PushTypeOK, Came

LEMMA RestartKeeps == ASSUME PushInv, BackendRestarts PROVE PushInv'
  <1>1. /\ UNCHANGED <<taken, queue, historyVars, ingested, pc, stopped, valid>>
        /\ faults' \in Nat /\ attached' \in BOOLEAN
    BY DEF PushInv, PushTypeOK, BackendRestarts, Fault, historyVars, agentVars
  <1>2. Fine(uploads', Came, taken) /\ (pc' = "posting" => uploads' # <<>>)
    <2>1. CASE pc = "posting"
      <3>. DEFINE e == [Awaited EXCEPT !.at = "gone", !.open = FALSE]
      <3>1. Awaited \in Upload /\ Awaited.n \in 1..taken
        BY <2>1, AwaitedIsLast, ElementOfSeq DEF PushInv, Fine
      <3>2. uploads' = <<e>> /\ e \in Upload /\ e.n \in 1..taken /\ e.at = "gone" /\ ~e.open
        BY <2>1, <3>1 DEF BackendRestarts, Upload
      <3>. HIDE DEF e
      <3>3. uploads' \in Seq(Upload) /\ Len(uploads') = 1 /\ uploads'[1] = e BY <3>2
      <3>. QED BY <3>2, <3>3 DEF Fine
    <2>2. CASE pc # "posting"
      BY <1>1, <2>2 DEF BackendRestarts, Fine
    <2>. QED BY <2>1, <2>2
  <1>. QED BY <1>1, <1>2, QueueStays DEF PushInv, PushTypeOK, Came

LEMMA AdmitKeeps == ASSUME PushInv, NEW k \in DOMAIN uploads, AdmitUpload(k) PROVE PushInv'
  <1>1. /\ UNCHANGED <<taken, queue, pc, stopped, historyVars, ingested, valid, attached>>
        /\ faults' \in Nat
    BY DEF PushInv, PushTypeOK, AdmitUpload, Fault, historyVars, agentVars
  <1>2. Fine(uploads', Came, taken) /\ (pc' = "posting" => uploads' # <<>>)
    <2>1. CASE Finish(k, "denied") \/ Finish(k, "busy") \/ Finish(k, "failed")
      BY <1>1, <2>1, FinishFine DEF Answers
    <2>2. CASE ~Uploading /\ uploads' = [uploads EXCEPT ![k].at = "reading", ![k].open = TRUE]
      <3>1. /\ uploads \in Seq(Upload) /\ Len(uploads) \in Nat /\ k \in 1..Len(uploads) /\ taken \in Nat
        BY LenProperties DEF PushInv, PushTypeOK
      <3>2. \A j \in 1..Len(uploads) : ~uploads[j].open BY <2>2, <3>1 DEF Uploading
      <3>3. Fine(uploads', Came, taken) /\ Len(uploads') = Len(uploads)
        BY <2>2, <3>1, <3>2, AdmittedFine DEF PushInv
      <3>. QED BY <3>1, <3>3
    <2>. QED BY <2>1, <2>2 DEF AdmitUpload
  <1>. QED BY <1>1, <1>2, QueueStays DEF PushInv, PushTypeOK, Came

LEMMA HandledHere ==
    ASSUME PushInv, NEW k \in DOMAIN uploads, NEW more, Came \subseteq more
    PROVE  /\ Moves(k, "attaching") => Fine(uploads', more, taken) /\ Len(uploads') = Len(uploads)
           /\ Moves(k, "ingested") /\ uploads[k].n \in more =>
                Fine(uploads', more, taken) /\ Len(uploads') = Len(uploads)
  <1>1. /\ taken \in Nat /\ k \in 1..Len(uploads) /\ Fine(uploads, Came, taken)
    BY LenProperties DEF PushInv, PushTypeOK
  <1>2. Fine(uploads, more, taken) BY <1>1, GrowsFine
  <1>3. \A n \in 1..Len(uploads), place \in {"attaching", "ingested"} :
           (place = "ingested" => uploads[n].n \in more) =>
              Fine([uploads EXCEPT ![n].at = place], more, taken)
              /\ Len([uploads EXCEPT ![n].at = place]) = Len(uploads)
    BY <1>1, <1>2, HandledFine
  <1>4. CASE Moves(k, "attaching") BY <1>1, <1>3, <1>4 DEF Moves
  <1>5. CASE Moves(k, "ingested") /\ uploads[k].n \in more BY <1>1, <1>3, <1>5 DEF Moves
  <1>. QED BY <1>4, <1>5

LEMMA IngestsMore ==
    ASSUME PushInv, NEW k \in DOMAIN uploads, ingested' = Append(ingested, uploads[k].n)
    PROVE  ingested' \in Seq(1..taken) /\ Came \subseteq Came' /\ uploads[k].n \in Came'
  <1>1. ingested \in Seq(1..taken) /\ Len(ingested) \in Nat /\ uploads[k].n \in 1..taken
    BY LenProperties DEF PushInv, PushTypeOK, Fine
  <1>2. /\ ingested' \in Seq(1..taken) /\ Len(ingested') = Len(ingested) + 1
        /\ \A i \in 1..Len(ingested) : ingested'[i] = ingested[i]
        /\ ingested'[Len(ingested) + 1] = uploads[k].n
    BY <1>1, AppendProperties
  <1>3. DOMAIN ingested = 1..Len(ingested) /\ DOMAIN ingested' = 1..(Len(ingested) + 1)
    BY <1>1, <1>2, LenProperties
  <1>. QED BY <1>1, <1>2, <1>3 DEF Came, Range

LEMMA HandleKeeps ==
    ASSUME PushInv, NEW k \in DOMAIN uploads, RefuseBody(k) \/ HandleUpload(k) \/ Attach(k) \/ Reply(k) PROVE PushInv'
  <1>1. /\ UNCHANGED <<taken, queue, pc, stopped, historyVars, valid>>
        /\ faults' \in Nat /\ attached' \in BOOLEAN
        /\ \/ UNCHANGED ingested /\ (Finish(k, "bad") \/ Finish(k, "failed") \/ Moves(k, "attaching"))
           \/ UNCHANGED ingested /\ uploads[k].at = "ingested" /\ Finish(k, "ok")
           \/ ingested' = Append(ingested, uploads[k].n) /\ Moves(k, "ingested")
    <2>. USE DEF PushInv, PushTypeOK, historyVars, agentVars, Fault
    <2>1. CASE RefuseBody(k) BY <2>1 DEF RefuseBody
    <2>2. CASE HandleUpload(k) BY <2>2 DEF HandleUpload
    <2>3. CASE Attach(k)
      <3>1. CASE attached' = TRUE /\ Moves(k, "ingested") /\ UNCHANGED faults
        BY <2>3, <3>1 DEF Attach
      <3>2. CASE Fault /\ Finish(k, "failed") /\ UNCHANGED <<attached, ingested>>
        BY <2>3, <3>2 DEF Attach
      <3>. QED BY <2>3, <3>1, <3>2 DEF Attach
    <2>4. CASE Reply(k) BY <2>4 DEF Reply, At
    <2>. QED BY <2>1, <2>2, <2>3, <2>4
  <1>2. /\ ingested' \in Seq(1..taken) /\ Came \subseteq Came' /\ Fine(uploads', Came', taken)
        /\ pc = "posting" => uploads' # <<>>
    <2>1. k \in 1..Len(uploads) /\ Len(uploads) \in Nat BY LenProperties DEF PushInv, PushTypeOK
    <2>2. CASE UNCHANGED ingested /\ (Finish(k, "bad") \/ Finish(k, "failed"))
      BY <2>2, FinishFine DEF Answers, PushInv, PushTypeOK, Came
    <2>3. CASE UNCHANGED ingested /\ uploads[k].at = "ingested" /\ Finish(k, "ok")
      <3>1. uploads[k].n \in Came BY <2>1, <2>3 DEF PushInv, Fine
      <3>. QED BY <2>3, <3>1, FinishFine DEF Answers, PushInv, PushTypeOK, Came
    <2>4. CASE UNCHANGED ingested /\ Moves(k, "attaching")
      <3>1. Came' = Came BY <2>4 DEF Came
      <3>2. Fine(uploads', Came, taken) /\ Len(uploads') = Len(uploads) BY <2>4, HandledHere
      <3>. QED BY <2>1, <2>4, <3>1, <3>2 DEF PushInv, PushTypeOK
    <2>5. CASE ingested' = Append(ingested, uploads[k].n) /\ Moves(k, "ingested")
      <3>1. ingested' \in Seq(1..taken) /\ Came \subseteq Came' /\ uploads[k].n \in Came' BY <2>5, IngestsMore
      <3>2. Fine(uploads', Came', taken) /\ Len(uploads') = Len(uploads) BY <2>5, <3>1, HandledHere
      <3>. QED BY <2>1, <3>1, <3>2
    <2>. QED BY <1>1, <2>2, <2>3, <2>4, <2>5
  <1>. QED BY <1>1, <1>2, QueueStays DEF PushInv, PushTypeOK

LEMMA CloseKeeps == ASSUME PushInv, NEW k \in DOMAIN uploads, CloseUpload(k) PROVE PushInv'
  <1>1. /\ UNCHANGED <<taken, queue, pc, stopped, historyVars, ingested, valid, attached, faults>> /\ ~Waits(k)
        /\ \/ uploads' = RemoveAt(uploads, k)
           \/ uploads[k].at # "reading" /\ uploads' = [uploads EXCEPT ![k].open = FALSE]
    BY DEF CloseUpload, historyVars, agentVars
  <1>2. k \in 1..Len(uploads) /\ Len(uploads) \in Nat /\ taken \in Nat /\ Fine(uploads, Came, taken)
    BY LenProperties DEF PushInv, PushTypeOK
  <1>3. Fine(uploads', Came, taken) /\ (pc = "posting" => uploads' # <<>>)
    <2>1. CASE uploads' = RemoveAt(uploads, k)
      <3>1. Fine(uploads', Came, taken) /\ Len(uploads') = Len(uploads) - 1 BY <1>2, <2>1, RemoveFine
      <3>2. pc = "posting" => k # Len(uploads) BY <1>1 DEF Waits
      <3>. QED BY <1>2, <3>1, <3>2
    <2>2. CASE uploads[k].at # "reading" /\ uploads' = [uploads EXCEPT ![k].open = FALSE]
      <3>1. \A n \in 1..Len(uploads) : uploads[n].at # "reading" =>
               Fine([uploads EXCEPT ![n].open = FALSE], Came, taken)
               /\ Len([uploads EXCEPT ![n].open = FALSE]) = Len(uploads)
        BY <1>2, ClosedFine
      <3>2. Fine(uploads', Came, taken) /\ Len(uploads') = Len(uploads) BY <1>2, <2>2, <3>1
      <3>. QED BY <1>2, <3>2
    <2>. QED BY <1>1, <2>1, <2>2
  <1>. QED BY <1>1, <1>3, QueueStays DEF PushInv, PushTypeOK, Came

-----------------------------------------------------------------------------
(* The steps that change the queue.                                         *)

Sorted(s) == \A i, j \in 1..Len(s) : i < j => s[i] < s[j]

LEMMA RangeIs == ASSUME NEW S, NEW s \in Seq(S) PROVE Range(s) = {s[i] : i \in 1..Len(s)}
  BY LenProperties DEF Range

LEMMA TailKeepsOrder ==
    ASSUME NEW S, NEW s \in Seq(S), s # <<>>
    PROVE  /\ Tail(s) \in Seq(S) /\ Len(Tail(s)) = Len(s) - 1 /\ Len(s) \in Nat \ {0}
           /\ \A i \in 1..(Len(s) - 1) : Tail(s)[i] = s[i + 1]
           /\ Range(s) = {s[1]} \cup Range(Tail(s)) /\ Head(s) = s[1]
           /\ Sorted(s) => Sorted(Tail(s)) /\ \A n \in Range(Tail(s)) : s[1] < n
  <1>1. /\ Tail(s) \in Seq(S) /\ Len(Tail(s)) = Len(s) - 1 /\ Len(s) \in Nat \ {0}
        /\ \A i \in 1..(Len(s) - 1) : Tail(s)[i] = s[i + 1]
    BY HeadTailProperties, EmptySeq
  <1>2. Range(Tail(s)) = {Tail(s)[i] : i \in 1..(Len(s) - 1)} /\ Range(s) = {s[i] : i \in 1..Len(s)}
    BY <1>1, RangeIs
  <1>3. Range(Tail(s)) = {s[i] : i \in 2..Len(s)}
    <2>1. ASSUME NEW i \in 1..(Len(s) - 1) PROVE Tail(s)[i] \in {s[j] : j \in 2..Len(s)}
      <3>1. i + 1 \in 2..Len(s) BY <1>1
      <3>. QED BY <1>1, <3>1
    <2>2. ASSUME NEW j \in 2..Len(s) PROVE s[j] \in {Tail(s)[i] : i \in 1..(Len(s) - 1)}
      <3>1. j - 1 \in 1..(Len(s) - 1) /\ (j - 1) + 1 = j BY <1>1
      <3>2. Tail(s)[j - 1] = s[j] BY <1>1, <3>1
      <3>. QED BY <3>1, <3>2
    <2>. QED BY <1>2, <2>1, <2>2
  <1>4. Range(s) = {s[1]} \cup Range(Tail(s))
    <2>1. \A i \in 1..Len(s) : i = 1 \/ i \in 2..Len(s) BY <1>1
    <2>. QED BY <1>1, <1>2, <1>3, <2>1
  <1>5. Sorted(s) => Sorted(Tail(s)) BY <1>1 DEF Sorted
  <1>6. Sorted(s) => \A n \in Range(Tail(s)) : s[1] < n BY <1>1, <1>3 DEF Sorted
  <1>. QED BY <1>1, <1>4, <1>5, <1>6

\* A larger number at the end.
LEMMA AppendKeepsOrder ==
    ASSUME NEW S, S \subseteq Nat, NEW s \in Seq(S), NEW n \in Nat, \A m \in S : m < n
    PROVE  /\ Append(s, n) \in Seq(S \cup {n}) /\ Len(Append(s, n)) = Len(s) + 1
           /\ Range(Append(s, n)) = Range(s) \cup {n}
           /\ Sorted(s) => Sorted(Append(s, n))
  <1>1. s \in Seq(S \cup {n}) /\ Len(s) \in Nat /\ \A i \in 1..Len(s) : s[i] \in S
    BY SeqMonotonic, LenProperties, ElementOfSeq
  <1>2. /\ Append(s, n) \in Seq(S \cup {n}) /\ Len(Append(s, n)) = Len(s) + 1
        /\ \A i \in 1..Len(s) : Append(s, n)[i] = s[i]
        /\ Append(s, n)[Len(s) + 1] = n
    BY <1>1, AppendProperties
  <1>3. Range(Append(s, n)) = Range(s) \cup {n}
    <2>1. Range(s) = {s[i] : i \in 1..Len(s)} BY RangeIs
    <2>2. Range(Append(s, n)) = {Append(s, n)[i] : i \in 1..(Len(s) + 1)} BY <1>2, RangeIs
    <2>3. 1..(Len(s) + 1) = 1..Len(s) \cup {Len(s) + 1} BY <1>1
    <2>. QED BY <1>2, <2>1, <2>2, <2>3
  <1>4. ASSUME Sorted(s), NEW i \in 1..(Len(s) + 1), NEW j \in 1..(Len(s) + 1), i < j
        PROVE  Append(s, n)[i] < Append(s, n)[j]
    <2>1. i \in 1..Len(s) /\ s[i] < n /\ Append(s, n)[i] = s[i]
      <3>1. i \in 1..Len(s) BY <1>1, <1>4
      <3>2. s[i] \in S BY <1>1, <3>1
      <3>. QED BY <1>2, <3>1, <3>2
    <2>2. CASE j \in 1..Len(s) BY <1>2, <1>4, <2>1, <2>2 DEF Sorted
    <2>3. CASE j = Len(s) + 1 BY <1>2, <2>1, <2>3
    <2>. QED BY <1>1, <2>2, <2>3
  <1>. QED BY <1>2, <1>3, <1>4 DEF Sorted

LEMMA OrderIs == ASSUME PushInv PROVE Sorted(queue) /\ \A n \in dropped, m \in Range(queue) : n < m
  <1>1. DOMAIN queue = 1..Len(queue) BY LenProperties DEF PushInv, PushTypeOK
  <1>. QED BY <1>1 DEF PushInv, OldestFirst, Sorted

LEMMA OrderAgain ==
    ASSUME NEW S, queue' \in Seq(S), Sorted(queue'), \A n \in dropped', m \in Range(queue') : n < m
    PROVE  OldestFirst'
  <1>1. DOMAIN queue' = 1..Len(queue') BY LenProperties
  <1>. QED BY <1>1 DEF OldestFirst, Sorted

LEMMA AnsweredKeeps == ASSUME PushInv, Answered PROVE PushInv'
  <1>. DEFINE n == Awaited.n
  <1>1. /\ pc = "posting" /\ uploads' = Others /\ queue' = AfterAnswer(n) /\ pc' = "looking"
        /\ UNCHANGED <<taken, stopped, valid, attached, ingested, dropped, faults>>
        /\ refused \subseteq refused' /\ (Awaited.at = "bad" => n \in refused')
        /\ refused' \subseteq refused \cup {n} /\ Awaited.at \in {"ok", "bad"}
    BY DEF Answered
  <1>2. Fine(uploads', Came, taken) /\ n \in 1..taken /\ n \in Came \cup refused'
    <2>1. /\ Fine(Others, Came, taken) /\ Awaited = uploads[Len(uploads)] /\ Len(uploads) \in 1..Len(uploads)
      BY <1>1, AwaitedIsLast
    <2>. QED BY <1>1, <2>1 DEF PushInv, Fine
  <1>. HIDE DEF n
  <1>3. /\ queue' \in Seq(1..taken) /\ Len(queue') <= Room /\ Sorted(queue')
        /\ Range(queue') \subseteq Range(queue) /\ Range(queue) \subseteq Range(queue') \cup {n}
    <2>1. queue \in Seq(1..taken) /\ Len(queue) <= Room /\ Sorted(queue) BY OrderIs DEF PushInv, PushTypeOK
    <2>2. CASE queue' = queue BY <2>1, <2>2
    <2>3. CASE queue # <<>> /\ Head(queue) = n /\ queue' = Tail(queue)
      BY <2>1, <2>3, TailKeepsOrder
    <2>. QED BY <1>1, <2>2, <2>3 DEF AfterAnswer
  <1>4. PushTypeOK' BY <1>1, <1>2, <1>3 DEF PushInv, PushTypeOK, Fine
  <1>5. Fine(uploads, Came, taken)' BY <1>1, <1>2 DEF Came
  <1>6. Accounted' BY <1>1, <1>2, <1>3 DEF PushInv, Accounted, Came
  <1>7. OldestFirst' BY <1>1, <1>3, OrderIs, OrderAgain
  <1>. QED BY <1>4, <1>5, <1>6, <1>7 DEF PushInv

LEMMA SampleKeeps == ASSUME PushInv, Sample PROVE PushInv'
  <1>1. /\ taken' = taken + 1 /\ queue' = Queued(taken + 1)
        /\ dropped' = dropped \cup ((Range(queue) \cup {taken + 1}) \ Range(queue'))
        /\ pc' \in {pc, "looking"} /\ UNCHANGED <<stopped, uploads, valid, attached, ingested, refused, faults>>
    BY DEF Sample, backendVars
  <1>2. /\ taken \in Nat /\ queue \in Seq(1..taken) /\ Len(queue) \in Nat /\ Len(queue) <= Room
        /\ Sorted(queue) /\ Range(queue) \subseteq 1..taken
        /\ \A n \in dropped, m \in Range(queue) : n < m
    <2>1. taken \in Nat /\ queue \in Seq(1..taken) /\ Len(queue) <= Room BY DEF PushInv, PushTypeOK
    <2>2. Range(queue) \subseteq 1..taken BY <2>1, RangeIs, ElementOfSeq
    <2>. QED BY <2>1, <2>2, LenProperties, OrderIs
  <1>3. /\ taken + 1 \in Nat /\ 1..taken \cup {taken + 1} = 1..(taken + 1) /\ 1..taken \subseteq Nat
        /\ \A m \in 1..taken : m < taken + 1
    BY <1>2
  <1>4. /\ queue' \in Seq(1..(taken + 1)) /\ Len(queue') <= Room /\ Sorted(queue')
        /\ taken + 1 \in Range(queue') /\ Range(queue') \subseteq Range(queue) \cup {taken + 1}
        /\ \A n \in Range(queue) \ Range(queue'), m \in Range(queue') : n < m
    <2>1. CASE Len(queue) # Room
      <3>1. queue' = Append(queue, taken + 1) BY <1>1, <2>1 DEF Queued
      <3>2. /\ queue' \in Seq(1..(taken + 1)) /\ Len(queue') = Len(queue) + 1 /\ Sorted(queue')
            /\ Range(queue') = Range(queue) \cup {taken + 1}
        <4>1. /\ Append(queue, taken + 1) \in Seq(1..taken \cup {taken + 1})
              /\ Len(Append(queue, taken + 1)) = Len(queue) + 1 /\ Sorted(Append(queue, taken + 1))
              /\ Range(Append(queue, taken + 1)) = Range(queue) \cup {taken + 1}
          BY <1>2, <1>3, AppendKeepsOrder
        <4>. QED BY <1>3, <3>1, <4>1
      <3>. QED BY <1>2, <2>1, <3>2
    <2>2. CASE Len(queue) = Room
      <3>1. queue' = Append(Tail(queue), taken + 1) BY <1>1, <2>2 DEF Queued
      <3>2. queue # <<>> BY <2>2, EmptySeq
      <3>3. /\ Tail(queue) \in Seq(1..taken) /\ Len(Tail(queue)) = Len(queue) - 1 /\ Sorted(Tail(queue))
            /\ Range(queue) = {queue[1]} \cup Range(Tail(queue))
            /\ \A m \in Range(Tail(queue)) : queue[1] < m
        BY <1>2, <3>2, TailKeepsOrder
      <3>4. /\ queue' \in Seq(1..(taken + 1)) /\ Len(queue') = Len(queue) /\ Sorted(queue')
            /\ Range(queue') = Range(Tail(queue)) \cup {taken + 1}
        <4>. DEFINE rest == Tail(queue)
        <4>1. rest \in Seq(1..taken) /\ Sorted(rest) BY <3>3
        <4>. HIDE DEF rest
        <4>2. /\ Append(rest, taken + 1) \in Seq(1..taken \cup {taken + 1})
              /\ Len(Append(rest, taken + 1)) = Len(rest) + 1 /\ Sorted(Append(rest, taken + 1))
              /\ Range(Append(rest, taken + 1)) = Range(rest) \cup {taken + 1}
          BY <1>3, <4>1, AppendKeepsOrder
        <4>. QED BY <1>2, <1>3, <3>1, <3>3, <4>2 DEF rest
      <3>5. queue[1] \in 1..taken BY <1>2, <3>3
      <3>6. queue[1] < taken + 1 BY <1>3, <3>5
      <3>. QED BY <1>2, <3>3, <3>4, <3>6
    <2>. QED BY <2>1, <2>2
  <1>5. dropped \subseteq 1..taken /\ dropped' = dropped \cup (Range(queue) \ Range(queue'))
    BY <1>1, <1>4 DEF PushInv, PushTypeOK
  <1>6. PushTypeOK'
    <2>1. dropped' \subseteq 1..(taken + 1) /\ refused' \subseteq 1..(taken + 1)
      BY <1>1, <1>2, <1>3, <1>5 DEF PushInv, PushTypeOK
    <2>2. ingested' \in Seq(1..(taken + 1)) BY <1>1, <1>3, SeqMonotonic DEF PushInv, PushTypeOK
    <2>. QED BY <1>1, <1>2, <1>4, <2>1, <2>2 DEF PushInv, PushTypeOK
  <1>7. Fine(uploads, Came, taken)'
    <2>1. Fine(uploads, Came, taken + 1) BY <1>2, GrowsFine DEF PushInv
    <2>. QED BY <1>1, <2>1 DEF Came
  <1>8. Accounted'
    <2>. SUFFICES ASSUME NEW n \in 1..(taken + 1), n \notin Range(queue'), n \notin Came, n \notin refused
                  PROVE  n \in dropped'
      BY <1>1 DEF Accounted, Came
    <2>1. n \in 1..taken BY <1>3, <1>4
    <2>. QED BY <1>1, <2>1 DEF PushInv, Accounted
  <1>9. OldestFirst'
    <2>1. \A n \in dropped', m \in Range(queue') : n < m
      <3>1. \A n \in dropped : n < taken + 1 BY <1>3, <1>5
      <3>. QED BY <1>2, <1>4, <1>5, <3>1
    <2>. QED BY <1>4, <2>1, OrderAgain
  <1>. QED BY <1>6, <1>7, <1>8, <1>9 DEF PushInv

-----------------------------------------------------------------------------
LEMMA PushInitially == PushInit => PushInv
  <1>. SUFFICES ASSUME PushInit PROVE PushInv OBVIOUS
  <1>1. uploads = <<>> /\ queue = <<>> /\ ingested = <<>> /\ taken = 0 /\ dropped = {} BY DEF PushInit
  <1>2. PushTypeOK
    <2>1. <<>> \in Seq(1..taken) /\ <<>> \in Seq(Upload) /\ Len(<<>>) = 0 BY EmptySeq
    <2>2. queue \in Seq(1..taken) /\ Len(queue) <= Room /\ uploads \in Seq(Upload) /\ ingested \in Seq(1..taken)
      BY <1>1, <2>1
    <2>3. taken \in Nat /\ faults \in Nat /\ refused \subseteq 1..taken /\ dropped \subseteq 1..taken BY DEF PushInit
    <2>4. pc = "looking" /\ stopped \in BOOLEAN /\ valid \in BOOLEAN /\ attached \in BOOLEAN BY DEF PushInit
    <2>. QED BY <2>2, <2>3, <2>4 DEF PushTypeOK
  <1>3. Fine(uploads, Came, taken) BY <1>1, EmptySeq DEF Fine
  <1>4. Accounted /\ OldestFirst BY <1>1 DEF Accounted, OldestFirst
  <1>. QED BY <1>2, <1>3, <1>4 DEF PushInv

LEMMA PushInductive == PushInv /\ [PushNext]_pushVars => PushInv'
  <1>. SUFFICES ASSUME PushInv, [PushNext]_pushVars PROVE PushInv' OBVIOUS
  <1>1. CASE AgentStep
    BY <1>1, LookKeeps, AnsweredKeeps, GivesUpKeeps, LoopsKeep DEF AgentStep
  <1>2. CASE Sample \/ TimesOut \/ Stop \/ RevokeAgent \/ BackendRestarts
    BY <1>2, SampleKeeps, GivesUpKeeps, LoopsKeep, RestartKeeps
  <1>3. ASSUME NEW k \in DOMAIN uploads, BackendStep(k) \/ RefuseBody(k) PROVE PushInv'
    BY <1>3, AdmitKeeps, HandleKeeps, CloseKeeps DEF BackendStep
  <1>4. CASE UNCHANGED pushVars
    <2>1. PushTypeOK' BY <1>4 DEF PushInv, PushTypeOK, pushVars, agentVars, backendVars, historyVars
    <2>2. Fine(uploads, Came, taken)'
      BY <1>4 DEF PushInv, pushVars, agentVars, backendVars, Came
    <2>3. Accounted' /\ OldestFirst'
      BY <1>4 DEF PushInv, Accounted, OldestFirst, Came, pushVars, agentVars, backendVars, historyVars
    <2>. QED BY <2>1, <2>2, <2>3 DEF PushInv
  <1>. QED BY <1>1, <1>2, <1>3, <1>4 DEF PushNext

LEMMA PushInvariant == PushSpec => []PushInv
  BY PushInitially, PushInductive, PTL DEF PushSpec

\* Every variable has its type: above all, the queue never holds more than there is room for.
THEOREM UploadsTyped == PushSpec => []PushTypeOK
  BY PushInvariant, PTL DEF PushInv

\* pusher.ts, queue.ts: a snapshot leaves the queue only when the backend has it, refused it, or there was no
\* room, however requests time out, answers are lost and the head is dropped while it is in flight.
THEOREM NoneIsLost == PushSpec => []Accounted
  BY PushInvariant, PTL DEF PushInv

\* queue.ts: the queue holds the newest snapshots in order; what is dropped for room is older.
THEOREM OldestGoFirst == PushSpec => []OldestFirst
  BY PushInvariant, PTL DEF PushInv

\* agentApi.ts: one upload of an agent is read at a time, however many requests it gave up on.
THEOREM OneUpload == PushSpec => []OneIsRead
  <1>1. PushInv => OneIsRead
    <2>1. PushInv => DOMAIN uploads = 1..Len(uploads) BY LenProperties DEF PushInv, PushTypeOK
    <2>. QED BY <2>1 DEF PushInv, Fine, OneIsRead, At
  <1>. QED BY <1>1, PushInvariant, PTL

-----------------------------------------------------------------------------
(* The polls.                                                              *)

USE NoneAssumption, LimitAssumption
USE DEF vars, commandVars, secretVars, pollVars, noticeVars

\* A request in hand carries a secret that was issued.
SecretsIssued ==
    /\ credential <= issued
    /\ \A p \in Poll : phase[p] # "idle" => secret[p] \in 1..issued

\* NoLostWakeUp, also for a poll that has looked, found nothing, and is about to wait.
MissedNothing ==
    \A p \in waiters :
        /\ phase[p] = "waiting" \/ (phase[p] = "looked" /\ rows[p] = {})
        /\ secret[p] = credential
        => open \subseteq unannounced

IInv == TypeOK /\ OneWaiter /\ SecretsIssued /\ MissedNothing

-----------------------------------------------------------------------------
\* With one waiter at most, a new poll that aborts the one in the slot finds nobody waiting: the
\* notifier's cap never evicts (agentApi.ts, GET /commands; commandNotifier.ts, subscribe).
LEMMA SubscribeAlone ==
    ASSUME TypeOK, OneWaiter, NEW p \in Poll, Subscribe(waiters \ {slot}, p)
    PROVE  waiters' = {p} /\ arrival' \in [Poll -> Nat]
  <1>. DEFINE ahead(q) == Cardinality({r \in {} : arrival[r] <= arrival[q]})
  <1>1. waiters \ {slot} = {} /\ Cardinality({}) = 0
    BY FS_EmptySet DEF OneWaiter
  <1>2. waiters' = {p} /\ arrival' = [q \in Poll |-> IF q = p THEN 1 ELSE ahead(q)]
    BY <1>1 DEF Subscribe
  <1>3. \A q \in Poll : ahead(q) \in Nat
    <2>1. \A q \in Poll : {r \in {} : arrival[r] <= arrival[q]} = {}
      OBVIOUS
    <2>. QED
      BY <1>1, <2>1
  <1>. HIDE DEF ahead
  <1>. QED
    BY <1>2, <1>3

LEMMA OpenPollEffect ==
    ASSUME TypeOK, OneWaiter, NEW p \in Poll, NEW waits \in BOOLEAN, OpenPoll(p, waits)
    PROVE  /\ waiters' \in {{}, {p}} /\ slot' = p
           /\ arrival' \in [Poll -> Nat]
  <1>1. CASE waits
    BY <1>1, SubscribeAlone DEF OpenPoll
  <1>2. CASE ~waits
    BY <1>2 DEF OpenPoll, OneWaiter, TypeOK
  <1>. QED
    BY <1>1, <1>2

LEMMA Initially == Init => IInv
  BY DEF Init, IInv, TypeOK, Phase, InRoute, OneWaiter, SecretsIssued, MissedNothing

\* The steps that take a poll on its way.
LEMMA OpenPollStep ==
    ASSUME IInv, NEW p \in Poll, NEW waits \in BOOLEAN, OpenPoll(p, waits)
    PROVE  IInv'
  <1>. USE DEF IInv
  <1>1. waiters' \in {{}, {p}} /\ slot' = p /\ arrival' \in [Poll -> Nat]
    BY OpenPollEffect
  <1>2. TypeOK'
    BY <1>1 DEF OpenPoll, TypeOK, Phase, InRoute
  <1>3. OneWaiter'
    BY <1>1 DEF OpenPoll, OneWaiter, InRoute, TypeOK
  <1>4. SecretsIssued' /\ MissedNothing'
    BY <1>1 DEF OpenPoll, SecretsIssued, MissedNothing, TypeOK
  <1>. QED
    BY <1>2, <1>3, <1>4

LEMMA PollStep ==
    ASSUME IInv, NEW p \in Poll,
           Admit(p) \/ Look(p) \/ Resume(p) \/ Wake(p) \/ Deadline(p) \/ HangUp(p)
    PROVE  IInv'
  <1>. USE DEF IInv, TypeOK, Phase, InRoute, OneWaiter, SecretsIssued, MissedNothing
  <1>1. CASE Admit(p)
    BY <1>1 DEF Admit
  <1>2. CASE Look(p)
    BY <1>2 DEF Look
  <1>3. CASE Resume(p)
    BY <1>3 DEF Resume
  <1>4. CASE Wake(p)
    BY <1>4 DEF Wake
  <1>5. CASE Deadline(p)
    BY <1>5 DEF Deadline
  <1>6. CASE HangUp(p)
    BY <1>6 DEF HangUp
  <1>. QED
    BY <1>1, <1>2, <1>3, <1>4, <1>5, <1>6

\* Both `finally` blocks run, however the poll ends.
LEMMA CloseStep ==
    ASSUME IInv, NEW p \in Poll, Answer(p) \/ LookFails(p)
    PROVE  IInv'
  <1>. USE DEF IInv, TypeOK, Phase, InRoute, OneWaiter, SecretsIssued, MissedNothing, Close
  <1>1. CASE Answer(p)
    BY <1>1 DEF Answer
  <1>2. CASE LookFails(p)
    BY <1>2 DEF LookFails
  <1>. QED
    BY <1>1, <1>2

LEMMA CommandStep ==
    ASSUME IInv, NEW c \in Command, Commit(c) \/ Notify(c) \/ End(c)
    PROVE  IInv'
  <1>. USE DEF IInv, TypeOK, OneWaiter, SecretsIssued, MissedNothing
  <1>1. CASE Commit(c)
    BY <1>1 DEF Commit
  <1>2. CASE Notify(c)
    BY <1>2 DEF Notify
  <1>3. CASE End(c)
    BY <1>3 DEF End
  <1>. QED
    BY <1>1, <1>2, <1>3

\* A new credential is nobody's yet: no poll in hand was admitted with it.
LEMMA SecretStep ==
    ASSUME IInv, Revoke \/ Enroll
    PROVE  IInv'
  <1>. USE DEF IInv, TypeOK, OneWaiter, SecretsIssued, MissedNothing, InRoute
  <1>1. CASE Revoke
    BY <1>1 DEF Revoke
  <1>2. CASE Enroll
    BY <1>2 DEF Enroll
  <1>. QED
    BY <1>1, <1>2

LEMMA Inductive == IInv /\ [Next]_vars => IInv'
  <1>. SUFFICES ASSUME IInv, [Next]_vars
                PROVE  IInv'
    OBVIOUS
  <1>1. CASE UNCHANGED vars
    BY <1>1 DEF IInv, TypeOK, OneWaiter, SecretsIssued, MissedNothing
  <1>. QED
    BY <1>1, OpenPollStep, PollStep, CloseStep, CommandStep, SecretStep DEF Next, Handle

LEMMA Invariant == Spec => []IInv
  BY Initially, Inductive, PTL DEF Spec

-----------------------------------------------------------------------------
\* A server holds at most one waiting poll, however many connections its agents open: a newer one
\* ends the one in the slot (agentApi.ts), so the notifier's eviction is never what bounds them; and
\* one that is over, answered, failed or hung up, keeps neither the slot nor a waiter.
THEOREM AtMostOneWaiter == Spec => []OneWaiter
  BY Invariant, PTL DEF IInv

\* A poll of the valid credential that is left waiting has missed no command: subscribing before
\* looking and notifying after the commit leave no gap between them.
THEOREM NoWakeUpIsLost == Spec => []NoLostWakeUp
  <1>1. IInv => NoLostWakeUp
    BY DEF IInv, MissedNothing, NoLostWakeUp
  <1>. QED
    BY <1>1, Invariant, PTL
=============================================================================
