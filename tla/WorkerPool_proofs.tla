--------------------------- MODULE WorkerPool_proofs ---------------------------
(***************************************************************************)
(* Proofs about WorkerPool for any deliveries, issues, slots, retries and  *)
(* any number of stops, crashes, cancellations and reruns: the invariant   *)
(* that keeps two subprocesses from one issue, that a shutdown fails no    *)
(* event, and that the pool implements the ledger.                         *)
(***************************************************************************)
EXTENDS WorkerPool, TLAPS

-----------------------------------------------------------------------------
(* The invariant.                                                          *)

Rows == {"absent", "queued", "running", "done", "failed"}
Driving == {"prep", "spawned", "unmarked", "armed"}
WithClient == {"spawned", "unmarked", "armed"}
EndedThread == {"ok", "fail", "stopped"}
Off == {"off", "strayclaim", "strayback"}

TableOK ==
    /\ row \in [Events -> Rows]
    /\ attempts \in [Events -> Nat]
    /\ backoff \subseteq {e \in Events : row[e] = "queued"}
    /\ received \in Seq(Events) /\ IsInjective(received)
    /\ ToSet(received) = {e \in Events : row[e] # "absent"}

\* A dead process has neither tasks nor threads, and a stopping one claims nothing more.
ProcessOK ==
    /\ up \in BOOLEAN /\ stopping \in {"no", "drain", "kill", "done"} /\ victims \subseteq Events
    /\ restarts \in 0 .. MaxRestarts /\ cancels \in 0 .. MaxCancels /\ reruns \in 0 .. MaxReruns
    /\ stopping = "no" => disp \in {"idle", "claiming", "claimed", "putback", "nap"}
    /\ stopping # "no" => disp \in Off
    /\ ~up => stopping = "no" /\ disp = "idle"
              /\ \A e \in Events : task[e] = "none" /\ thread[e] = "none"

\* A claimed event is not worked on: the task it may have is waiting to release its key.
CandOK ==
    /\ cand \in Events \cup {None}
    /\ disp \in {"claimed", "putback", "strayback"} =>
          /\ cand \in Events /\ row[cand] = "running"
          /\ task[cand] \in {"none", "release"} /\ thread[cand] = "none"

\* The work on an event, on the loop and on its thread.
WorkType ==
    /\ task \in [Events -> {"none", "slot", "run", "release"}]
    /\ slot \in [Events -> Slots \cup {None}]
    /\ client \in [Events -> Slots \cup {None}]
    /\ thread \in [Events -> {"none"} \cup Driving \cup EndedThread]

WorkOK ==
    /\ \A e \in Events :
          /\ thread[e] # "none" \/ task[e] \in {"slot", "run"} \/ client[e] # None
                => row[e] = "running"
          /\ thread[e] \in EndedThread => task[e] = "run"
          /\ task[e] \in {"slot", "release"} => thread[e] = "none"
          /\ up /\ client[e] # None => thread[e] \in WithClient
          /\ stopping = "no" /\ thread[e] # "none" => task[e] = "run"

SlotsOK ==
    /\ \A e \in Events : task[e] = "run" => slot[e] \in Slots
    /\ \A e, f \in Events : task[e] = "run" /\ task[f] = "run" /\ e # f => slot[e] # slot[f]
    /\ free = Slots \ {slot[e] : e \in {f \in Events : task[f] = "run"}}

\* _inflight is the issues of the tasks, one each; a thread that outlives its task and
\* a subprocess that outlives the process keep their issue to themselves all the same.
Engaged(e) == task[e] # "none" \/ thread[e] # "none" \/ client[e] # None
IssuesOK ==
    /\ inflight = {IssueOf[e] : e \in {f \in Events : task[f] # "none"}}
    /\ \A e, f \in Events : Engaged(e) /\ Engaged(f) /\ e # f => IssueOf[e] # IssueOf[f]

\* A driver is stopped only for a cancellation or by stop().
MarksOK ==
    /\ cancelled \subseteq asked /\ asked \subseteq Events /\ shutdownCancelled \subseteq Events
    /\ hooks \subseteq {e \in Events : thread[e] = "armed"}
    /\ firing \subseteq {e \in Events : thread[e] = "armed"}
    /\ \A e \in Events :
          task[e] = "run" /\ (e \in firing \/ thread[e] = "stopped")
             => e \in cancelled \cup shutdownCancelled

Inv ==
    /\ TableOK /\ ProcessOK /\ CandOK /\ WorkType /\ WorkOK /\ SlotsOK /\ IssuesOK /\ MarksOK

USE DEF None, Rows, Driving, WithClient, EndedThread, Off

LEMMA InitInv == Init => Inv
<1> SUFFICES ASSUME Init PROVE Inv
  OBVIOUS
<1> USE DEF Init
<1>1. TableOK
  BY DEF TableOK, IsInjective, ToSet
<1>2. ProcessOK /\ CandOK
  BY BoundsAssumption DEF ProcessOK, CandOK
<1>3. WorkType /\ WorkOK
  BY DEF WorkType, WorkOK
<1>4. SlotsOK /\ IssuesOK
  BY DEF SlotsOK, IssuesOK, Engaged
<1>5. MarksOK
  BY DEF MarksOK
<1> QED
  BY <1>1, <1>2, <1>3, <1>4, <1>5 DEF Inv

-----------------------------------------------------------------------------
(* The requests.                                                           *)

\* A new or replaced row is the latest, and there is one of each delivery.
LEMMA StampedOK ==
  ASSUME TableOK, NEW e \in Events
  PROVE  /\ Stamped(e) \in Seq(Events) /\ IsInjective(Stamped(e))
         /\ ToSet(Stamped(e)) = ToSet(received) \cup {e}
<1>1. received \in Seq(Events) /\ \A i, j \in 1 .. Len(received) : received[i] = received[j] => i = j
  BY DEF TableOK, IsInjective
<1>2. CASE e \notin ToSet(received)
  <2>1. Stamped(e) = Append(received, e)
    BY <1>2 DEF Stamped
  <2>2. \A i \in 1 .. Len(received) : received[i] # e
    BY <1>1, <1>2 DEF ToSet
  <2> QED
    BY <1>1, <2>1, <2>2 DEF IsInjective, ToSet
<1>3. CASE e \in ToSet(received)
  <2> DEFINE k == Position(e)
             n == Len(received)
             s == Stamped(e)
  <2>1. n \in Nat /\ k \in 1 .. n /\ received[k] = e
    BY <1>1, <1>3 DEF ToSet, Position
  <2>2. s = Append(SubSeq(received, 1, k - 1) \o SubSeq(received, k + 1, n), e)
    BY <1>3 DEF Stamped, RemoveAt
  <2> HIDE DEF k, s
  <2>3. s \in Seq(Events) /\ Len(s) = n
        /\ \A i \in 1 .. n : s[i] = IF i < k THEN received[i]
                                    ELSE IF i < n THEN received[i + 1] ELSE e
    <3> DEFINE a == SubSeq(received, 1, k - 1)
               b == SubSeq(received, k + 1, n)
               ab == a \o b
    <3>1. a \in Seq(Events) /\ Len(a) = k - 1 /\ \A i \in 1 .. k - 1 : a[i] = received[i]
      BY <1>1, <2>1
    <3>2. b \in Seq(Events) /\ Len(b) = n - k /\ \A i \in 1 .. n - k : b[i] = received[k + i]
      BY <1>1, <2>1
    <3>3. s = Append(ab, e)
      BY <2>2
    <3> HIDE DEF a, b
    <3>4. /\ ab \in Seq(Events) /\ Len(ab) = n - 1
          /\ \A i \in 1 .. n - 1 : ab[i] = IF i < k THEN a[i] ELSE b[i - (k - 1)]
      <4>1. ab \in Seq(Events) /\ Len(ab) = (k - 1) + (n - k)
        BY <3>1, <3>2
      <4>2. \A i \in 1 .. Len(ab) : ab[i] = IF i <= Len(a) THEN a[i] ELSE b[i - Len(a)]
        BY <3>1, <3>2
      <4>3. (k - 1) + (n - k) = n - 1 /\ \A i \in 1 .. n - 1 : i <= k - 1 <=> i < k
        BY <2>1
      <4> HIDE DEF ab
      <4> QED
        BY <3>1, <4>1, <4>2, <4>3
    <3> HIDE DEF ab
    <3>5. \A i \in 1 .. n - 1 : ab[i] = IF i < k THEN received[i] ELSE received[i + 1]
      <4>1. ASSUME NEW i \in 1 .. n - 1
            PROVE  ab[i] = IF i < k THEN received[i] ELSE received[i + 1]
        <5>1. CASE i < k
          BY <2>1, <3>1, <3>4, <5>1
        <5>2. CASE i >= k
          <6>1. i - (k - 1) \in 1 .. n - k /\ k + (i - (k - 1)) = i + 1 /\ i < n
            BY <2>1, <5>2
          <6> QED
            BY <2>1, <3>2, <3>4, <5>2, <6>1
        <5> QED
          BY <2>1, <5>1, <5>2
      <4> QED
        BY <4>1
    <3> QED
      BY <2>1, <3>3, <3>4, <3>5
  <2>4. \A i \in 1 .. n : s[i] = IF i < k THEN received[i]
                                 ELSE IF i < n THEN received[i + 1] ELSE e
    BY <2>3
  <2>5. \A i, j \in 1 .. n : s[i] = s[j] => i = j
    BY <1>1, <2>1, <2>4
  <2>6. \A i \in 1 .. n : s[i] \in ToSet(received)
    BY <1>1, <2>1, <2>4 DEF ToSet
  <2>7. \A i \in 1 .. n : \E j \in 1 .. n : s[j] = received[i]
    <3>1. ASSUME NEW i \in 1 .. n
          PROVE  \E j \in 1 .. n : s[j] = received[i]
      <4>1. CASE i < k
        BY <2>4, <4>1
      <4>2. CASE i = k
        BY <2>1, <2>4, <4>2
      <4>3. CASE i > k
        <5>1. i - 1 \in 1 .. n /\ s[i - 1] = received[i]
          BY <2>1, <2>4, <4>3
        <5> QED
          BY <5>1
      <4> QED
        BY <2>1, <4>1, <4>2, <4>3
    <3> QED
      BY <3>1
  <2>8. DOMAIN s = 1 .. n /\ IsInjective(s)
    BY <2>3, <2>5 DEF IsInjective
  <2>9. ToSet(s) = ToSet(received)
    <3>1. ToSet(s) = {s[i] : i \in 1 .. n} /\ ToSet(received) = {received[i] : i \in 1 .. n}
      BY <1>1, <2>8 DEF ToSet
    <3>2. ToSet(s) \subseteq ToSet(received)
      BY <2>6, <3>1
    <3>3. ToSet(received) \subseteq ToSet(s)
      BY <2>7, <3>1
    <3> QED
      BY <3>2, <3>3
  <2>10. ToSet(s) = ToSet(received) \cup {e}
    BY <1>3, <2>9
  <2>11. s = Stamped(e)
    BY DEF s
  <2> QED
    BY <2>3, <2>8, <2>10, <2>11, Zenon
<1> QED
  BY <1>2, <1>3

\* A row that nobody works on is queued (again).
LEMMA RowQueued ==
  ASSUME Inv, NEW e \in Events, row[e] # "running", row[e] # "queued",
         row' = [row EXCEPT ![e] = "queued"], attempts' \in [Events -> Nat], backoff' = backoff,
         received' = Stamped(e) \/ (received' = received /\ row[e] # "absent"),
         reruns' \in 0 .. MaxReruns,
         UNCHANGED <<process, dispatcher, work, marks, cancels, asked>>
  PROVE  Inv'
<1> USE DEF process, dispatcher, work, marks
<1>1. TableOK'
  <2>1. row' \in [Events -> Rows] /\ backoff \subseteq {f \in Events : row'[f] = "queued"}
    BY DEF Inv, TableOK
  <2>2. {f \in Events : row'[f] # "absent"} = {f \in Events : row[f] # "absent"} \cup {e}
    BY DEF Inv, TableOK
  <2>3. received' \in Seq(Events) /\ IsInjective(received') /\ ToSet(received') = ToSet(received) \cup {e}
    <3>1. CASE received' = Stamped(e)
      BY <3>1, StampedOK DEF Inv
    <3>2. CASE received' = received /\ row[e] # "absent"
      BY <3>2 DEF Inv, TableOK
    <3> QED
      BY <3>1, <3>2
  <2> QED
    BY <2>1, <2>2, <2>3 DEF Inv, TableOK
<1>2. ProcessOK' /\ CandOK'
  BY DEF Inv, TableOK, ProcessOK, CandOK
<1>3. WorkType' /\ WorkOK'
  BY DEF Inv, TableOK, WorkType, WorkOK
<1>4. SlotsOK' /\ IssuesOK' /\ MarksOK'
  BY DEF Inv, SlotsOK, IssuesOK, Engaged, MarksOK
<1> QED
  BY <1>1, <1>2, <1>3, <1>4 DEF Inv

LEMMA RequestInv ==
  ASSUME Inv, NEW e \in Events, Receive(e) \/ Retry(e) \/ Retrigger(e)
  PROVE  Inv'
<1>1. row[e] # "running" /\ row[e] # "queued" /\ row' = [row EXCEPT ![e] = "queued"]
  BY DEF Receive, Recorded, Retry, Retrigger, Inactive
<1>2. attempts' \in [Events -> Nat] /\ backoff' = backoff /\ reruns' \in 0 .. MaxReruns
  <2>1. attempts \in [Events -> Nat] /\ reruns \in 0 .. MaxReruns /\ MaxReruns \in Nat
    BY BoundsAssumption DEF Inv, TableOK, ProcessOK
  <2>2. CASE Receive(e)
    BY <2>1, <2>2 DEF Receive, requests
  <2>3. CASE Retry(e)
    BY <2>1, <2>3 DEF Retry
  <2>4. CASE Retrigger(e)
    BY <2>1, <2>4 DEF Retrigger
  <2> QED
    BY <2>2, <2>3, <2>4
<1>3. received' = Stamped(e) \/ (received' = received /\ row[e] # "absent")
  BY DEF Receive, Retry, Retrigger, Inactive
<1>4. UNCHANGED <<process, dispatcher, work, marks, cancels, asked>>
  BY DEF Receive, requests, Retry, Retrigger
<1> QED
  BY <1>1, <1>2, <1>3, <1>4, RowQueued

LEMMA CancelInv ==
  ASSUME Inv, NEW e \in Events, Cancel(e)
  PROVE  Inv'
<1> USE DEF Cancel, table, process, dispatcher, work
<1>1. TableOK' /\ CandOK' /\ WorkType' /\ WorkOK' /\ SlotsOK' /\ IssuesOK'
  BY DEF Inv, TableOK, CandOK, WorkType, WorkOK, SlotsOK, IssuesOK, Engaged
<1>2. ProcessOK'
  BY BoundsAssumption DEF Inv, ProcessOK
<1>3. MarksOK'
  BY DEF Inv, MarksOK
<1> QED
  BY <1>1, <1>2, <1>3 DEF Inv

-----------------------------------------------------------------------------
(* The dispatcher.                                                         *)

LEMMA DispatcherInv ==
  ASSUME Inv, Dispatcher
  PROVE  Inv'
<1> USE DEF table, process, work, marks, requests
<1>1. CASE BeginClaim \/ NapEnds \/ PutBackBegins
  <2>1. TableOK' /\ WorkType' /\ WorkOK' /\ SlotsOK' /\ IssuesOK' /\ MarksOK'
    BY <1>1 DEF BeginClaim, NapEnds, PutBackBegins, Inv, TableOK, WorkType, WorkOK, SlotsOK,
                IssuesOK, Engaged, MarksOK
  <2>2. ProcessOK' /\ CandOK'
    BY <1>1 DEF BeginClaim, NapEnds, PutBackBegins, Inv, ProcessOK, CandOK
  <2> QED
    BY <2>1, <2>2 DEF Inv
<1>2. CASE ClaimReturns
  <2>1. /\ UNCHANGED <<backoff, received, process, work, marks, requests>>
        /\ up /\ disp \in {"claiming", "strayclaim"}
    BY <1>2 DEF ClaimReturns
  <2>2. CASE UNCHANGED <<row, attempts, cand>> /\ disp' = IF disp = "claiming" THEN "idle" ELSE "off"
    BY <2>1, <2>2 DEF Inv, TableOK, ProcessOK, CandOK, WorkType, WorkOK, SlotsOK, IssuesOK, Engaged,
                      MarksOK
  <2>3. ASSUME NEW e \in Events, Claimable(e),
               row' = [row EXCEPT ![e] = "running"], attempts' = [attempts EXCEPT ![e] = @ + 1],
               disp' = IF disp = "claiming" THEN "claimed" ELSE "off",
               cand' = IF disp = "claiming" THEN e ELSE None
        PROVE  Inv'
    <3>1. row[e] = "queued" /\ e \notin backoff
      BY <2>3 DEF Claimable
    <3>2. TableOK'
      BY <2>1, <2>3, <3>1 DEF Inv, TableOK
    <3>3. ProcessOK' /\ WorkType' /\ SlotsOK' /\ IssuesOK' /\ MarksOK'
      BY <2>1, <2>3 DEF Inv, ProcessOK, WorkType, SlotsOK, IssuesOK, Engaged, MarksOK
    <3>4. WorkOK'
      BY <2>1, <2>3 DEF Inv, TableOK, WorkOK
    <3>5. CandOK'
      BY <2>1, <2>3, <3>1 DEF Inv, TableOK, WorkType, WorkOK, CandOK
    <3> QED
      BY <3>2, <3>3, <3>4, <3>5 DEF Inv
  <2>4. \A k \in DOMAIN received : received[k] \in Events
    BY DEF Inv, TableOK
  <2> QED
    BY <1>2, <2>2, <2>3, <2>4 DEF ClaimReturns, Oldest
<1>3. CASE PutBack
  <2>1. /\ cand \in Events /\ row[cand] = "running" /\ row' = [row EXCEPT ![cand] = "queued"]
        /\ cand' = None /\ disp' = (IF disp = "putback" THEN "nap" ELSE "off")
        /\ UNCHANGED <<attempts, backoff, received, process, work, marks, requests>>
        /\ disp \in {"putback", "strayback"}
    BY <1>3 DEF PutBack, Inv, CandOK, TableOK
  <2>2. task[cand] \in {"none", "release"} /\ thread[cand] = "none" /\ client[cand] = None
    BY <1>3, <2>1 DEF PutBack, Inv, CandOK, WorkOK
  <2>3. TableOK'
    BY <2>1 DEF Inv, TableOK
  <2>4. ProcessOK' /\ CandOK' /\ WorkType' /\ SlotsOK' /\ IssuesOK' /\ MarksOK'
    BY <2>1 DEF Inv, ProcessOK, CandOK, WorkType, SlotsOK, IssuesOK, Engaged, MarksOK
  <2>5. WorkOK'
    BY <2>1, <2>2 DEF Inv, TableOK, WorkOK
  <2> QED
    BY <2>3, <2>4, <2>5 DEF Inv
<1>4. CASE Dispatch
  <2>1. /\ cand \in Events /\ row[cand] = "running" /\ thread[cand] = "none" /\ task[cand] # "run"
        /\ IssueOf[cand] \notin inflight /\ up
        /\ task' = [task EXCEPT ![cand] = "slot"] /\ inflight' = inflight \cup {IssueOf[cand]}
        /\ cand' = None /\ disp = "claimed" /\ disp' = "idle"
        /\ UNCHANGED <<table, process, slot, free, thread, client, marks, requests>>
    BY <1>4 DEF Dispatch, Taken, Inv, CandOK
  <2>2. TableOK' /\ ProcessOK' /\ CandOK'
    BY <2>1 DEF Inv, TableOK, ProcessOK, CandOK
  <2>3. WorkType' /\ WorkOK'
    BY <2>1 DEF Inv, ProcessOK, WorkType, WorkOK
  <2>4. SlotsOK' /\ MarksOK'
    BY <2>1 DEF Inv, WorkType, SlotsOK, MarksOK
  <2>5. IssuesOK'
    \* Nobody stops the pool yet, so whoever is engaged has a task and its issue a key.
    <3>1. \A e \in Events : Engaged(e) => IssueOf[e] \in inflight
      BY <2>1 DEF Inv, ProcessOK, WorkOK, IssuesOK, Engaged
    <3>2. \A e \in Events : e # cand => (Engaged(e)' <=> Engaged(e))
      BY <2>1 DEF Inv, WorkType, Engaged
    <3>3. \A e \in Events : task'[e] = IF e = cand THEN "slot" ELSE task[e]
      BY <2>1 DEF Inv, WorkType
    <3>4. inflight' = {IssueOf[e] : e \in {f \in Events : task'[f] # "none"}}
      BY <2>1, <3>3 DEF Inv, IssuesOK
    <3> QED
      BY <2>1, <3>1, <3>2, <3>4 DEF Inv, IssuesOK
  <2> QED
    BY <2>2, <2>3, <2>4, <2>5 DEF Inv
<1> QED
  BY <1>1, <1>2, <1>3, <1>4 DEF Dispatcher

LEMMA BackoffEndsInv ==
  ASSUME Inv, NEW e \in Events, BackoffEnds(e)
  PROVE  Inv'
BY DEF BackoffEnds, process, dispatcher, work, marks, requests, Inv, TableOK, ProcessOK, CandOK,
       WorkType, WorkOK, SlotsOK, IssuesOK, Engaged, MarksOK

-----------------------------------------------------------------------------
(* The tasks.                                                              *)

LEMMA AcquireSlotInv ==
  ASSUME Inv, NEW e \in Events, AcquireSlot(e)
  PROVE  Inv'
<1> USE DEF table, process, dispatcher, marks, requests
<1>1. PICK s \in free : free' = free \ {s} /\ slot' = [slot EXCEPT ![e] = s]
  BY DEF AcquireSlot
<1>2. /\ task[e] = "slot" /\ task' = [task EXCEPT ![e] = "run"] /\ thread[e] = "none"
      /\ UNCHANGED <<table, process, dispatcher, thread, client, inflight, marks, requests>>
  BY DEF AcquireSlot, Inv, WorkOK
<1>3. s \in Slots /\ \A f \in Events : task[f] = "run" => slot[f] # s
  BY <1>1 DEF Inv, SlotsOK
<1>4. TableOK' /\ ProcessOK'
  BY <1>2 DEF AcquireSlot, Inv, TableOK, ProcessOK
<1>5. CandOK' /\ WorkType' /\ WorkOK' /\ MarksOK'
  BY <1>1, <1>2, <1>3 DEF Inv, CandOK, WorkType, WorkOK, MarksOK
<1>6. SlotsOK'
  <2>1. \A f \in Events : /\ task'[f] = IF f = e THEN "run" ELSE task[f]
                          /\ slot'[f] = IF f = e THEN s ELSE slot[f]
    BY <1>1, <1>2 DEF Inv, WorkType
  <2>2. free' = Slots \ {slot'[f] : f \in {g \in Events : task'[g] = "run"}}
    BY <1>1, <1>2, <1>3, <2>1 DEF Inv, SlotsOK
  <2> QED
    BY <1>2, <1>3, <2>1, <2>2 DEF Inv, SlotsOK
<1>7. IssuesOK'
  BY <1>2 DEF Inv, WorkType, IssuesOK, Engaged
<1> QED
  BY <1>4, <1>5, <1>6, <1>7 DEF Inv

LEMMA HandlerReachesInv ==
  ASSUME Inv, NEW e \in Events, HandlerReaches(e)
  PROVE  Inv'
<1> USE DEF table, process, dispatcher, marks, requests
<1>1. /\ task[e] = "run" /\ thread[e] = "none" /\ up
      /\ \E o \in {"prep", "ok", "fail"} : thread' = [thread EXCEPT ![e] = o]
      /\ UNCHANGED <<table, process, dispatcher, task, slot, free, client, inflight, marks, requests>>
  BY DEF HandlerReaches
<1>2. TableOK' /\ ProcessOK' /\ CandOK'
  BY <1>1 DEF Inv, TableOK, ProcessOK, CandOK, WorkType
<1>3. WorkType' /\ WorkOK'
  BY <1>1 DEF Inv, WorkType, WorkOK
<1>4. SlotsOK' /\ IssuesOK' /\ MarksOK'
  BY <1>1 DEF Inv, WorkType, SlotsOK, IssuesOK, Engaged, MarksOK
<1> QED
  BY <1>2, <1>3, <1>4 DEF Inv

LEMMA SettleInv ==
  ASSUME Inv, NEW e \in Events, Settle(e)
  PROVE  Inv'
<1> USE DEF process, dispatcher
<1>1. /\ up /\ task[e] = "run" /\ thread[e] \in EndedThread /\ row[e] = "running"
      /\ client[e] = None /\ slot[e] \in Slots
  BY DEF Settle, Ended, Inv, WorkOK, SlotsOK
<1>2. \E r \in {"queued", "running", "done", "failed"} :
        /\ row' = [row EXCEPT ![e] = r]
        /\ backoff' = IF r = "queued" THEN backoff \cup {e} ELSE backoff
        /\ asked' = IF r = "failed" THEN asked \ {e} ELSE asked
  <2>1. Settled(e) \in {"done", "failed", "kept", "retry"}
    BY DEF Settled
  <2>2. CASE Settled(e) = "kept"
    BY <1>1, <2>2 DEF Settle, SettledRow
  <2>3. CASE Settled(e) = "retry"
    BY <2>3 DEF Settle, SettledRow
  <2>4. CASE Settled(e) \in {"done", "failed"}
    BY <2>4 DEF Settle, SettledRow
  <2> QED
    BY <2>1, <2>2, <2>3, <2>4
<1>3. /\ cancelled' = cancelled \ {e} /\ shutdownCancelled' = shutdownCancelled \ {e}
      /\ hooks' = hooks \ {e} /\ free' = free \cup {slot[e]}
      /\ slot' = [slot EXCEPT ![e] = None] /\ thread' = [thread EXCEPT ![e] = "none"]
      /\ task' = [task EXCEPT ![e] = "release"]
      /\ UNCHANGED <<attempts, received, process, dispatcher, inflight, firing, cancels, reruns>>
  BY DEF Settle
<1>4. client' \in [Events -> Slots \cup {None}] /\ \A f \in Events : client'[f] \in {client[f], None}
  BY DEF Settle, Reaped, Inv, WorkType
<1>5. TableOK'
  BY <1>1, <1>2, <1>3 DEF Inv, TableOK
<1>6. ProcessOK'
  BY <1>1, <1>3 DEF Inv, ProcessOK
<1>7. CandOK'
  BY <1>1, <1>2, <1>3 DEF Inv, TableOK, WorkType, CandOK
<1>8. WorkType' /\ WorkOK'
  <2>1. WorkType'
    BY <1>3, <1>4 DEF Inv, WorkType
  <2>2. \A f \in Events : f # e =>
          /\ row'[f] = row[f] /\ task'[f] = task[f] /\ thread'[f] = thread[f]
          /\ client'[f] # None => client[f] # None
    BY <1>2, <1>3, <1>4 DEF Inv, TableOK, WorkType
  <2>3. task'[e] = "release" /\ thread'[e] = "none" /\ client'[e] = None
    BY <1>1, <1>3, <1>4 DEF Inv, WorkType
  <2>4. WorkOK'
    BY <1>1, <1>3, <2>2, <2>3 DEF Inv, WorkOK
  <2> QED
    BY <2>1, <2>4
<1>9. SlotsOK'
  <2>1. \A f \in Events : /\ task'[f] = IF f = e THEN "release" ELSE task[f]
                          /\ slot'[f] = IF f = e THEN None ELSE slot[f]
    BY <1>3 DEF Inv, WorkType
  <2>2. free' = Slots \ {slot'[f] : f \in {g \in Events : task'[g] = "run"}}
    BY <1>1, <1>3, <2>1 DEF Inv, SlotsOK
  <2> QED
    BY <2>1, <2>2 DEF Inv, SlotsOK
<1>10. IssuesOK'
  BY <1>1, <1>3, <1>4 DEF Inv, WorkType, IssuesOK, Engaged
<1>11. MarksOK'
  BY <1>1, <1>2, <1>3 DEF Inv, WorkType, MarksOK
<1> QED
  BY <1>5, <1>6, <1>7, <1>8, <1>9, <1>10, <1>11 DEF Inv

LEMMA ReleaseInv ==
  ASSUME Inv, NEW e \in Events, Release(e)
  PROVE  Inv'
<1> USE DEF table, process, dispatcher, marks, requests
<1>1. /\ up /\ task[e] = "release" /\ thread[e] = "none" /\ client[e] = None /\ Unlocked
      /\ inflight' = inflight \ {IssueOf[e]} /\ task' = [task EXCEPT ![e] = "none"]
      /\ UNCHANGED <<table, process, dispatcher, slot, free, thread, client, marks, requests>>
  BY DEF Release, Inv, WorkOK
<1>2. TableOK' /\ ProcessOK' /\ CandOK' /\ WorkType' /\ WorkOK'
  BY <1>1 DEF Inv, TableOK, ProcessOK, CandOK, WorkType, WorkOK
<1>3. SlotsOK' /\ MarksOK'
  BY <1>1 DEF Inv, WorkType, SlotsOK, MarksOK
<1>4. IssuesOK'
  <2>1. \A f \in Events : task'[f] = IF f = e THEN "none" ELSE task[f]
    BY <1>1 DEF Inv, WorkType
  <2>2. \A f \in Events : f # e /\ task[f] # "none" => IssueOf[f] # IssueOf[e]
    BY <1>1 DEF Inv, IssuesOK, Engaged
  <2>3. inflight' = {IssueOf[f] : f \in {g \in Events : task'[g] # "none"}}
    BY <1>1, <2>1, <2>2 DEF Inv, IssuesOK
  <2> QED
    BY <1>1, <2>1, <2>3 DEF Inv, IssuesOK, Engaged
<1> QED
  BY <1>2, <1>3, <1>4 DEF Inv

-----------------------------------------------------------------------------
(* The threads.                                                            *)

LEMMA LeaveInv ==
  ASSUME Inv, NEW e \in Events, NEW o \in EndedThread, up, thread[e] \in Driving, Leave(e, o),
         task[e] = "run" /\ o = "stopped" => e \in cancelled \cup shutdownCancelled
  PROVE  Inv'
<1> USE DEF table, process, dispatcher, requests
<1>1. /\ thread' = [thread EXCEPT ![e] = IF task[e] = "run" THEN o ELSE "none"]
      /\ client' = [client EXCEPT ![e] = None]
      /\ slot' = IF task[e] = "run" THEN slot ELSE [slot EXCEPT ![e] = None]
      /\ hooks' = hooks \ {e} /\ firing' = firing \ {e}
      /\ UNCHANGED <<table, process, dispatcher, task, free, inflight, cancelled,
                     shutdownCancelled, requests>>
  BY DEF Leave, Outcome
<1>2. TableOK' /\ ProcessOK'
  BY <1>1 DEF Inv, TableOK, ProcessOK
<1>3. CandOK'
  BY <1>1 DEF Inv, WorkType, CandOK
<1>4. WorkType'
  BY <1>1 DEF Inv, WorkType
<1>5. WorkOK'
  BY <1>1 DEF Inv, WorkType, WorkOK
<1>6. SlotsOK'
  <2>1. \A f \in Events : task[f] = "run" => slot'[f] = slot[f]
    BY <1>1 DEF Inv, WorkType
  <2>2. {slot'[f] : f \in {g \in Events : task[g] = "run"}} =
          {slot[f] : f \in {g \in Events : task[g] = "run"}}
    BY <2>1
  <2> QED
    BY <1>1, <2>1, <2>2 DEF Inv, SlotsOK
<1>7. IssuesOK'
  BY <1>1 DEF Inv, WorkType, IssuesOK, Engaged
<1>8. MarksOK'
  BY <1>1 DEF Inv, WorkType, MarksOK
<1> QED
  BY <1>2, <1>3, <1>4, <1>5, <1>6, <1>7, <1>8 DEF Inv

\* A driver goes on: it spawns its client, looks for a cancellation, arms its hook.
LEMMA ThreadMoves ==
  ASSUME Inv, NEW e \in Events, NEW c \in Slots \cup {None}, NEW t \in WithClient,
         up, thread[e] \in Driving, thread[e] # "armed",
         thread' = [thread EXCEPT ![e] = t], client' = [client EXCEPT ![e] = c],
         hooks' = hooks \/ (hooks' = hooks \cup {e} /\ t = "armed"),
         UNCHANGED <<table, process, dispatcher, task, slot, free, inflight, cancelled,
                     shutdownCancelled, firing, requests>>
  PROVE  Inv'
<1> USE DEF table, process, dispatcher, requests
<1>1. TableOK' /\ ProcessOK'
  BY DEF Inv, TableOK, ProcessOK
<1>2. CandOK' /\ WorkType'
  BY DEF Inv, WorkType, CandOK
<1>3. WorkOK'
  BY DEF Inv, WorkType, WorkOK
<1>4. SlotsOK' /\ IssuesOK'
  BY DEF Inv, WorkType, SlotsOK, IssuesOK, Engaged
<1>5. MarksOK'
  BY DEF Inv, WorkType, MarksOK
<1> QED
  BY <1>1, <1>2, <1>3, <1>4, <1>5 DEF Inv

LEMMA ThreadInv ==
  ASSUME Inv, NEW e \in Events, ThreadOf(e)
  PROVE  Inv'
<1>1. CASE PrepFails(e)
  BY <1>1, LeaveInv DEF PrepFails
<1>2. CASE ArmFires(e)
  BY <1>2, LeaveInv DEF ArmFires
<1>3. CASE DriveEnds(e)
  <2>1. PICK o \in {"ok", "fail"} : Leave(e, o)
    BY <1>3 DEF DriveEnds
  <2> QED
    BY <1>3, <2>1, LeaveInv DEF DriveEnds
<1>4. CASE HookRuns(e)
  <2>1. thread[e] = "armed" /\ (task[e] = "run" => e \in cancelled \cup shutdownCancelled)
    BY <1>4 DEF HookRuns, Inv, MarksOK
  <2> QED
    BY <1>4, <2>1, LeaveInv DEF HookRuns
<1>5. CASE Spawn(e)
  <2>1. slot[e] \in Slots \cup {None}
    BY DEF Inv, WorkType
  <2> QED
    BY <1>5, <2>1, ThreadMoves DEF Spawn, marks
<1>6. CASE ArmChecks(e)
  <2>1. client[e] \in Slots \cup {None} /\ client' = [client EXCEPT ![e] = client[e]]
    BY <1>6 DEF ArmChecks, Inv, WorkType
  <2> QED
    BY <1>6, <2>1, ThreadMoves DEF ArmChecks, marks
<1>7. CASE ArmStores(e)
  <2>1. client[e] \in Slots \cup {None} /\ client' = [client EXCEPT ![e] = client[e]]
    BY <1>7 DEF ArmStores, Inv, WorkType
  <2> QED
    BY <1>7, <2>1, ThreadMoves DEF ArmStores
<1> QED
  BY <1>1, <1>2, <1>3, <1>4, <1>5, <1>6, <1>7 DEF ThreadOf

-----------------------------------------------------------------------------
(* The process.                                                            *)

LEMMA StopInv ==
  ASSUME Inv, StopBegins \/ DrainEnds \/ StopReturns
  PROVE  Inv'
<1> USE DEF table, dispatcher, work, marks, requests
<1>1. TableOK' /\ WorkType' /\ SlotsOK' /\ IssuesOK' /\ MarksOK'
  BY DEF StopBegins, DrainEnds, StopReturns, Inv, TableOK, WorkType, SlotsOK, IssuesOK, Engaged,
         MarksOK
<1>2. WorkOK'
  BY DEF StopBegins, DrainEnds, StopReturns, Inv, WorkOK
<1>3. ProcessOK'
  <2>1. CASE StopBegins
    BY <2>1 DEF StopBegins, Serving, Inv, ProcessOK
  <2>2. CASE DrainEnds
    BY <2>2 DEF DrainEnds, Tasks, Inv, ProcessOK
  <2>3. CASE StopReturns
    BY <2>3 DEF StopReturns, Inv, ProcessOK
  <2> QED
    BY <2>1, <2>2, <2>3
<1>4. CandOK'
  BY DEF StopBegins, DrainEnds, StopReturns, Inv, CandOK
<1> QED
  BY <1>1, <1>2, <1>3, <1>4 DEF Inv

\* What stop() does to the events it passes over in one go.
LEMMA InterruptInv ==
  ASSUME Inv, NEW S \in SUBSET victims, Interrupt(S)
  PROVE  Inv'
<1> USE DEF table, dispatcher, requests
<1> DEFINE stopped == S \cap hooks
           ended == {e \in S \ hooks : task[e] \in {"slot", "run"}}
           left == {e \in ended : task[e] = "run"}
           quiet == {e \in ended : thread[e] = "none" \/ Ended(e)}
<1>1. /\ up /\ stopping = "kill" /\ victims' = victims \ S
      /\ shutdownCancelled' = shutdownCancelled \cup stopped
      /\ hooks' = hooks \ stopped /\ firing' = firing \cup stopped
      /\ task' = [e \in Events |-> IF e \in ended THEN "none" ELSE task[e]]
      /\ thread' = [e \in Events |-> IF e \in quiet THEN "none" ELSE thread[e]]
      /\ client' = [e \in Events |-> IF client[e] \in {slot[f] : f \in left} THEN None ELSE client[e]]
      /\ free' = free \cup {slot[e] : e \in left}
      /\ slot' = [e \in Events |-> IF e \in quiet THEN None ELSE slot[e]]
      /\ inflight' = inflight \ {IssueOf[e] : e \in ended}
      /\ cancelled' = cancelled \ ended
      /\ UNCHANGED <<table, up, stopping, restarts, dispatcher, requests>>
  BY DEF Interrupt
<1>2. S \subseteq Events /\ stopped \subseteq hooks /\ ended \subseteq S \ hooks
  BY DEF Inv, ProcessOK
<1>3. \A e \in Events :
        /\ e \in ended => task[e] \in {"slot", "run"}
        /\ e \in left <=> e \in ended /\ task[e] = "run"
        /\ e \in quiet <=> e \in ended /\ thread[e] \in {"none"} \cup EndedThread
  BY <1>2 DEF Ended
<1> HIDE DEF stopped, ended, left, quiet
<1>4. \A e \in Events :
        /\ task'[e] = IF e \in ended THEN "none" ELSE task[e]
        /\ thread'[e] = IF e \in quiet THEN "none" ELSE thread[e]
        /\ client'[e] \in {client[e], None}
        /\ slot'[e] = IF e \in quiet THEN None ELSE slot[e]
  BY <1>1
<1>5. TableOK' /\ ProcessOK' /\ CandOK'
  BY <1>1, <1>4 DEF Inv, TableOK, ProcessOK, CandOK
<1>6. WorkType'
  BY <1>1 DEF Inv, WorkType
<1>7. WorkOK'
  BY <1>1, <1>3, <1>4 DEF Inv, WorkOK
<1>8. SlotsOK'
  <2>1. \A e \in Events : task'[e] = "run" <=> task[e] = "run" /\ e \notin left
    BY <1>3, <1>4 DEF Inv, WorkType
  <2>2. \A e \in Events : task'[e] = "run" => slot'[e] = slot[e]
    BY <1>3, <1>4
  <2>3. left \subseteq {e \in Events : task[e] = "run"}
    BY <1>2 DEF left
  <2>4. free' = Slots \ {slot'[e] : e \in {f \in Events : task'[f] = "run"}}
    BY <1>1, <2>1, <2>2, <2>3 DEF Inv, SlotsOK
  <2> QED
    BY <2>1, <2>2, <2>4 DEF Inv, SlotsOK
<1>9. IssuesOK'
  <2>1. \A e \in Events : Engaged(e)' => Engaged(e)
    BY <1>4 DEF Engaged
  <2>2. \A e, f \in Events : task[e] # "none" /\ task[f] # "none" /\ e # f => IssueOf[e] # IssueOf[f]
    BY DEF Inv, IssuesOK, Engaged
  <2>3. ended \subseteq {e \in Events : task[e] # "none"}
    BY <1>2, <1>3
  <2>4. \A e \in Events : task'[e] # "none" <=> task[e] # "none" /\ e \notin ended
    BY <1>4
  <2>5. inflight' = {IssueOf[e] : e \in {f \in Events : task'[f] # "none"}}
    BY <1>1, <2>2, <2>3, <2>4 DEF Inv, IssuesOK
  <2> QED
    BY <2>1, <2>5 DEF Inv, IssuesOK
<1>10. MarksOK'
  BY <1>1, <1>2, <1>3, <1>4 DEF Inv, WorkType, MarksOK
<1> QED
  BY <1>5, <1>6, <1>7, <1>8, <1>9, <1>10 DEF Inv

\* The process is gone: what is left are rows and perhaps subprocesses.
LEMMA ExitInv ==
  ASSUME Inv, Exit
  PROVE  Inv'
<1> USE DEF table
<1>1. \A e \in Events : /\ task'[e] = "none" /\ thread'[e] = "none" /\ slot'[e] = None
                        /\ client'[e] \in {client[e], None}
  BY DEF Exit
<1>2. TableOK' /\ ProcessOK' /\ CandOK'
  <2>1. TableOK' /\ CandOK'
    BY DEF Exit, Inv, TableOK, CandOK
  <2>2. restarts' \in 0 .. MaxRestarts
    BY BoundsAssumption DEF Exit, Inv, ProcessOK
  <2> QED
    BY <1>1, <2>1, <2>2 DEF Exit, Inv, ProcessOK
<1>3. WorkType'
  BY DEF Exit, Inv, WorkType
<1>4. WorkOK'
  BY <1>1 DEF Exit, Inv, WorkOK
<1>5. SlotsOK'
  BY <1>1 DEF Exit, SlotsOK
<1>6. IssuesOK'
  <2>1. inflight' = {IssueOf[e] : e \in {f \in Events : task'[f] # "none"}}
    BY <1>1 DEF Exit
  <2> QED
    BY <1>1, <2>1 DEF Inv, IssuesOK, Engaged
<1>7. MarksOK'
  BY <1>1 DEF Exit, MarksOK
<1> QED
  BY <1>2, <1>3, <1>4, <1>5, <1>6, <1>7 DEF Inv

\* The next process kills what it finds under any uid and queues what was running.
LEMMA StartInv ==
  ASSUME Inv, Start
  PROVE  Inv'
<1> USE DEF dispatcher, marks, requests
<1>1. /\ ~up /\ \A e \in Events : client'[e] = None /\ task[e] = "none" /\ thread[e] = "none"
      /\ \A e \in Events : row'[e] = IF row[e] = "running" THEN "queued" ELSE row[e]
  BY DEF Start, Survivors, Inv, ProcessOK
<1>2. TableOK'
  <2>1. row' \in [Events -> Rows]
    BY DEF Start, Inv, TableOK
  <2>2. {e \in Events : row'[e] # "absent"} = {e \in Events : row[e] # "absent"}
    BY <1>1
  <2>3. backoff' \subseteq {e \in Events : row'[e] = "queued"}
    BY <1>1 DEF Start, Inv, TableOK
  <2> QED
    BY <2>1, <2>2, <2>3 DEF Start, Inv, TableOK
<1>3. ProcessOK' /\ CandOK'
  BY <1>1 DEF Start, Inv, ProcessOK, CandOK
<1>4. WorkType' /\ WorkOK'
  BY <1>1 DEF Start, Survivors, Inv, WorkType, WorkOK
<1>5. SlotsOK' /\ MarksOK'
  BY DEF Start, Inv, SlotsOK, MarksOK
<1>6. IssuesOK'
  BY <1>1 DEF Start, Inv, IssuesOK, Engaged
<1> QED
  BY <1>2, <1>3, <1>4, <1>5, <1>6 DEF Inv

LEMMA NextInv ==
  ASSUME Inv, [Next]_vars
  PROVE  Inv'
<1>1. CASE \E e \in Events : Receive(e) \/ Retry(e) \/ Retrigger(e) \/ Cancel(e)
  BY <1>1, RequestInv, CancelInv
<1>2. CASE Dispatcher
  BY <1>2, DispatcherInv
<1>3. CASE \E e \in Events : TaskOf(e) \/ ThreadOf(e) \/ BackoffEnds(e)
  BY <1>3, AcquireSlotInv, HandlerReachesInv, SettleInv, ReleaseInv, ThreadInv, BackoffEndsInv
     DEF TaskOf
<1>4. CASE StopBegins \/ Stop
  BY <1>4, StopInv, InterruptInv DEF Stop
<1>5. CASE Exit \/ Start
  BY <1>5, ExitInv, StartInv
<1>6. CASE UNCHANGED vars
  BY <1>6 DEF vars, table, process, dispatcher, work, marks, requests, Inv, TableOK, ProcessOK,
              CandOK, WorkType, WorkOK, SlotsOK, IssuesOK, Engaged, MarksOK
<1> QED
  BY <1>1, <1>2, <1>3, <1>4, <1>5, <1>6 DEF Next

LEMMA InvAlways == Spec => []Inv
<1>1. Inv /\ [Next]_vars => Inv'
  BY NextInv
<1> QED
  BY InitInv, <1>1, PTL DEF Spec

-----------------------------------------------------------------------------
(* The theorems.                                                           *)

\* For any deliveries, issues and slots, through put-backs, cancellations, stops that
\* leave threads behind and crashes that leave subprocesses behind: no two amaze
\* subprocesses work on one issue, and a slot is free when no task has it.
THEOREM OneClientPerIssueAlways == Spec => []OneClientPerIssue
<1>1. Inv => OneClientPerIssue
  <2> SUFFICES ASSUME Inv PROVE OneClientPerIssue
    OBVIOUS
  <2>1. inflight \subseteq {IssueOf[e] : e \in Events}
    BY DEF Inv, IssuesOK
  <2>2. TypeOK
    BY <2>1 DEF TypeOK, Inv, TableOK, ProcessOK, CandOK, WorkType, SlotsOK, MarksOK
  <2> QED
    BY <2>2 DEF OneClientPerIssue, Inv, IssuesOK, Engaged
<1> QED
  BY <1>1, InvAlways, PTL

\* Whenever stop() or a crash comes and whatever a thread makes of its dead client,
\* only an event an operator cancelled or whose own work failed becomes failed.
THEOREM StopFailsNothingAlways == Spec => StopFailsNothing
<1> DEFINE FailsNothing ==
      \A e \in Events : row[e] = "running" /\ row'[e] = "failed"
        => e \in asked \/ (thread[e] = "fail" /\ e \notin shutdownCancelled)
<1>1. ASSUME Inv, Next PROVE FailsNothing
  <2> SUFFICES ASSUME NEW e \in Events, row[e] = "running", row'[e] = "failed"
               PROVE  e \in asked \/ (thread[e] = "fail" /\ e \notin shutdownCancelled)
    OBVIOUS
  <2>1. row \in [Events -> Rows]
    BY <1>1 DEF Inv, TableOK
  <2>2. Settle(e)
    <3>1. CASE \E f \in Events : Receive(f) \/ Retry(f) \/ Retrigger(f) \/ Cancel(f)
      BY <2>1, <3>1 DEF Receive, Retry, Retrigger, Cancel, table
    <3>2. CASE Dispatcher
      BY <2>1, <3>2 DEF Dispatcher, BeginClaim, ClaimReturns, PutBackBegins, PutBack, NapEnds,
                        Dispatch, table
    <3>3. ASSUME NEW f \in Events, Settle(f) PROVE f = e
      BY <2>1, <3>3 DEF Settle
    <3>4. CASE \E f \in Events : AcquireSlot(f) \/ HandlerReaches(f) \/ Release(f) \/ BackoffEnds(f)
      BY <3>4 DEF AcquireSlot, HandlerReaches, Release, BackoffEnds, table
    <3>5. CASE \E f \in Events : ThreadOf(f)
      BY <3>5 DEF ThreadOf, PrepFails, Spawn, ArmChecks, ArmFires, ArmStores, DriveEnds, HookRuns,
                  Leave, table
    <3>6. CASE StopBegins \/ Stop \/ Exit
      BY <3>6 DEF StopBegins, Stop, DrainEnds, StopReturns, Interrupt, Exit, table
    <3>7. CASE Start
      BY <3>7 DEF Start
    <3> QED
      BY <1>1, <3>1, <3>2, <3>3, <3>4, <3>5, <3>6, <3>7 DEF Next, TaskOf
  <2>3. Settled(e) = "failed" /\ thread[e] \in EndedThread /\ task[e] = "run"
    <3>1. row'[e] = SettledRow(e, Settled(e)) /\ thread[e] \in EndedThread /\ task[e] = "run"
      BY <2>1, <2>2 DEF Settle, Ended
    <3>2. Settled(e) \in {"done", "failed", "kept", "retry"}
      BY DEF Settled
    <3> QED
      BY <3>1, <3>2 DEF SettledRow
  <2>4. cancelled \subseteq asked
        /\ (thread[e] = "stopped" => e \in cancelled \cup shutdownCancelled)
    BY <1>1, <2>3 DEF Inv, MarksOK
  <2>5. CASE thread[e] = "ok"
    BY <2>3, <2>4, <2>5 DEF Settled
  <2>6. CASE thread[e] # "ok" /\ e \notin shutdownCancelled
    BY <2>3, <2>4, <2>6
  <2>7. CASE thread[e] # "ok" /\ e \in shutdownCancelled
    BY <2>3, <2>7 DEF Settled
  <2> QED
    BY <2>5, <2>6, <2>7
<1>2. ASSUME Inv, UNCHANGED vars PROVE FailsNothing
  BY <1>2 DEF vars, table, Inv, TableOK
<1>3. Inv /\ [Next]_vars => [FailsNothing]_vars
  BY <1>1, <1>2
<1> QED
  BY <1>3, InvAlways, PTL DEF StopFailsNothing, Spec

-----------------------------------------------------------------------------
(* The pool implements the ledger: each step is one of the ledger's, or    *)
(* leaves it alone.                                                        *)

LEMMA StageRow ==
  ASSUME Inv, NEW e \in Events
  PROVE  /\ Stage(e) \in {"absent", "waiting", "working", "done", "failed"}
         /\ Stage(e) = "working" <=> Busy(e)
         /\ Busy(e) => row[e] = "running"
         /\ ~Busy(e) => Stage(e) = IF row[e] \in {"queued", "running"} THEN "waiting" ELSE row[e]
<1>1. row[e] \in Rows /\ (Busy(e) => row[e] = "running")
  BY DEF Busy, Inv, TableOK, WorkType, WorkOK
<1>2. Stage(e) = IF Busy(e) THEN "working"
                 ELSE IF row[e] \in {"queued", "running"} THEN "waiting" ELSE row[e]
  BY DEF Stage
<1> QED
  BY <1>1, <1>2

\* Events that are interrupted wait again; if there are none, the ledger stays.
LEMMA LedgerInterrupts ==
  ASSUME reruns' = reruns,
         \A e \in Events : Stage(e)' = Stage(e) \/ (Stage(e) = "working" /\ Stage(e)' = "waiting")
  PROVE  Ledger!Next \/ UNCHANGED Ledger!vars
<1> DEFINE S == {e \in Events : Stage(e)' # Stage(e)}
<1>1. CASE S = {}
  BY <1>1 DEF Ledger!vars
<1>2. CASE S # {}
  <2>1. S \in SUBSET Ledger!Working
    BY DEF Ledger!Working
  <2>2. [e \in Events |-> Stage(e)]' =
          [e \in Events |-> IF e \in S THEN "waiting" ELSE [f \in Events |-> Stage(f)][e]]
    OBVIOUS
  <2>3. Ledger!Interrupt(S)
    BY <1>2, <2>2 DEF Ledger!Interrupt
  <2> QED
    BY <2>1, <2>3 DEF Ledger!Next
<1> QED
  BY <1>1, <1>2

\* One event moves.
LEMMA LedgerMoves ==
  ASSUME NEW e \in Events, NEW stage, Stage(e)' = stage,
         \A f \in Events : f # e => Stage(f)' = Stage(f)
  PROVE  Ledger!Move(e, stage)
BY DEF Ledger!Move

\* A step that leaves the work on each event as it is, and its row unless the event
\* stays waiting, leaves the ledger alone.
LEMMA LedgerStays ==
  ASSUME Inv, Inv', reruns' = reruns,
         \A e \in Events : Busy(e)' <=> Busy(e),
         \A e \in Events : row'[e] = row[e] \/ {row[e], row'[e]} = {"queued", "running"}
  PROVE  Ledger!Next \/ UNCHANGED Ledger!vars
<1>1. ASSUME NEW e \in Events PROVE Stage(e)' = Stage(e)
  <2>1. row'[e] \in {"queued", "running"} <=> row[e] \in {"queued", "running"}
    OBVIOUS
  <2>2. row'[e] \in {"queued", "running"} \/ row'[e] = row[e]
    OBVIOUS
  <2> QED
    BY <2>1, <2>2 DEF Stage
<1> QED
  BY <1>1, LedgerInterrupts

LEMMA RequestImplements ==
  ASSUME Inv, Inv', NEW e \in Events, Receive(e) \/ Retry(e) \/ Retrigger(e) \/ Cancel(e)
  PROVE  Ledger!Next \/ UNCHANGED Ledger!vars
<1>1. UNCHANGED work
  BY DEF Receive, Retry, Retrigger, Cancel
<1>2. \A f \in Events : Busy(f)' <=> Busy(f)
  BY <1>1 DEF Busy, work
<1>3. CASE Cancel(e)
  BY <1>2, <1>3, LedgerStays DEF Cancel, table
<1>4. CASE Receive(e) \/ Retry(e) \/ Retrigger(e)
  <2>1. /\ row[e] \in {"absent", "done", "failed"} /\ row' = [row EXCEPT ![e] = "queued"]
        /\ row \in [Events -> Rows]
    BY <1>4 DEF Receive, Recorded, Retry, Retrigger, Inactive, Inv, TableOK
  <2>2. row'[e] = "queued" /\ \A f \in Events : f # e => row'[f] = row[f]
    BY <2>1
  <2>3. Stage(e) = row[e] /\ Stage(e)' = "waiting"
    <3>1. ~Busy(e) /\ ~Busy(e)'
      BY <1>2, <2>1, StageRow
    <3> QED
      BY <2>1, <2>2, <3>1 DEF Stage
  <2>4. \A f \in Events : f # e => Stage(f)' = Stage(f)
    BY <1>2, <2>2 DEF Stage
  <2>5. Ledger!Move(e, "waiting")
    BY <2>3, <2>4, LedgerMoves
  <2>6. CASE Receive(e)
    <3>1. row[e] = "absent" /\ reruns' = reruns
      BY <2>1, <2>6 DEF Receive, Recorded, requests
    <3> QED
      BY <2>3, <2>5, <3>1 DEF Ledger!Next, Ledger!Accept
  <2>7. CASE Retry(e) \/ Retrigger(e)
    <3>1. row[e] \in {"done", "failed"} /\ reruns' = reruns + 1
      BY <2>7 DEF Retry, Retrigger, Inactive
    <3> QED
      BY <2>3, <2>5, <3>1 DEF Ledger!Next, Ledger!Reopen
  <2> QED
    BY <1>4, <2>6, <2>7
<1> QED
  BY <1>3, <1>4

LEMMA DispatcherImplements ==
  ASSUME Inv, Inv', Dispatcher
  PROVE  Ledger!Next \/ UNCHANGED Ledger!vars
<1>1. reruns' = reruns /\ UNCHANGED <<thread, client>>
  BY DEF Dispatcher, BeginClaim, ClaimReturns, PutBackBegins, PutBack, NapEnds, Dispatch,
         requests, work
<1>2. \A e \in Events : Busy(e)' <=> Busy(e)
  <2>1. CASE Dispatch
    <3>1. task[cand] \in {"none", "release"} /\ task' = [task EXCEPT ![cand] = "slot"]
      BY <2>1 DEF Dispatch, Inv, CandOK
    <3> QED
      BY <1>1, <3>1 DEF Busy, Inv, WorkType
  <2>2. CASE ~Dispatch
    <3>1. task' = task
      BY <2>2 DEF Dispatcher, BeginClaim, ClaimReturns, PutBackBegins, PutBack, NapEnds, work
    <3> QED
      BY <1>1, <3>1 DEF Busy
  <2> QED
    BY <2>1, <2>2
<1>3. \A e \in Events : row'[e] = row[e] \/ {row[e], row'[e]} = {"queued", "running"}
  <2>0. row \in [Events -> Rows] /\ \A k \in DOMAIN received : received[k] \in Events
    BY DEF Inv, TableOK
  <2>1. CASE ClaimReturns
    BY <2>0, <2>1 DEF ClaimReturns, Oldest, Claimable
  <2>2. CASE PutBack
    BY <2>0, <2>2 DEF PutBack
  <2>3. CASE ~ClaimReturns /\ ~PutBack
    BY <2>3 DEF Dispatcher, BeginClaim, PutBackBegins, NapEnds, Dispatch, table
  <2> QED
    BY <2>1, <2>2, <2>3
<1> QED
  BY <1>1, <1>2, <1>3, LedgerStays

\* A task begins to work with its slot: no other event of its issue is worked on.
LEMMA AcquireSlotImplements ==
  ASSUME Inv, Inv', NEW e \in Events, AcquireSlot(e)
  PROVE  Ledger!Next \/ UNCHANGED Ledger!vars
<1>1. /\ task[e] = "slot" /\ task' = [task EXCEPT ![e] = "run"] /\ reruns' = reruns
      /\ UNCHANGED <<row, thread, client>> /\ task \in [Events -> {"none", "slot", "run", "release"}]
  BY DEF AcquireSlot, table, requests, Inv, WorkType
<1>2. row[e] = "running" /\ thread[e] = "none" /\ client[e] = None
  BY <1>1 DEF AcquireSlot, Inv, WorkOK
<1>3. Stage(e) = "waiting" /\ Stage(e)' = "working"
  <2>1. ~Busy(e) /\ Busy(e)'
    BY <1>1, <1>2 DEF Busy
  <2> QED
    BY <1>2, <2>1 DEF Stage
<1>4. \A f \in Events : f # e => Stage(f)' = Stage(f)
  <2>1. \A f \in Events : f # e => (Busy(f)' <=> Busy(f))
    BY <1>1 DEF Busy
  <2> QED
    BY <1>1, <2>1 DEF Stage
<1>5. ASSUME NEW f \in Ledger!Working PROVE IssueOf[f] # IssueOf[e]
  <2>1. f \in Events /\ Stage(f) = "working"
    BY <1>5 DEF Ledger!Working
  <2>2. Engaged(f) /\ Engaged(e) /\ f # e
    BY <1>1, <1>3, <2>1, StageRow DEF Busy, Engaged
  <2> QED
    BY <2>1, <2>2 DEF Inv, IssuesOK
<1>6. Ledger!Move(e, "working")
  BY <1>3, <1>4, LedgerMoves
<1> QED
  BY <1>1, <1>3, <1>5, <1>6 DEF Ledger!Next, Ledger!Begin

\* A task ends: the row says how.
LEMMA SettleImplements ==
  ASSUME Inv, Inv', NEW e \in Events, Settle(e)
  PROVE  Ledger!Next \/ UNCHANGED Ledger!vars
<1>1. /\ task[e] = "run" /\ thread[e] \in EndedThread /\ row[e] = "running" /\ client[e] = None
      /\ task' = [task EXCEPT ![e] = "release"] /\ thread' = [thread EXCEPT ![e] = "none"]
      /\ row' = [row EXCEPT ![e] = SettledRow(e, Settled(e))] /\ reruns' = reruns
  BY DEF Settle, Ended, Inv, WorkOK
<1>2. \A f \in Events : client'[f] \in {client[f], None}
  BY DEF Settle, Reaped
<1>3. Stage(e) = "working"
  BY <1>1 DEF Stage, Busy
<1>4. ASSUME NEW f \in Events, f # e PROVE Stage(f)' = Stage(f)
  <2>1. task'[f] = task[f] /\ thread'[f] = thread[f] /\ row'[f] = row[f]
    BY <1>1, <1>4 DEF Inv, TableOK, WorkType
  <2>2. (client[f] # None => thread[f] # "none")
    BY DEF Settle, Inv, WorkOK
  <2>3. Busy(f)' <=> Busy(f)
    BY <1>2, <2>1, <2>2 DEF Busy
  <2> QED
    BY <2>1, <2>3 DEF Stage
<1>5. row'[e] \in {"queued", "running", "done", "failed"}
  <2>1. Settled(e) \in {"done", "failed", "kept", "retry"}
    BY DEF Settled
  <2>2. SettledRow(e, Settled(e)) \in {"queued", "running", "done", "failed"}
    BY <1>1, <2>1 DEF SettledRow
  <2> QED
    BY <1>1, <2>2 DEF Inv, TableOK
<1>6. Stage(e)' \in {"waiting", "done", "failed"}
  <2>1. ~Busy(e)'
    BY <1>1, <1>2 DEF Busy, Inv, WorkType
  <2> QED
    BY <1>5, <2>1 DEF Stage
<1>7. CASE Stage(e)' = "waiting"
  BY <1>1, <1>3, <1>4, <1>7, LedgerInterrupts
<1>8. CASE Stage(e)' \in {"done", "failed"}
  <2>1. Ledger!Move(e, "done") \/ Ledger!Move(e, "failed")
    BY <1>4, <1>8, LedgerMoves
  <2> QED
    BY <1>1, <1>3, <2>1 DEF Ledger!Next, Ledger!Finish
<1> QED
  BY <1>6, <1>7, <1>8

\* A thread that outlived its task is done: its event waits for the next start.
LEMMA ThreadImplements ==
  ASSUME Inv, Inv', NEW e \in Events, ThreadOf(e)
  PROVE  Ledger!Next \/ UNCHANGED Ledger!vars
<1>1. /\ reruns' = reruns /\ UNCHANGED <<row, task>> /\ thread[e] # "none"
      /\ \A f \in Events : f # e => thread'[f] = thread[f] /\ client'[f] = client[f]
  BY DEF ThreadOf, PrepFails, Spawn, ArmChecks, ArmFires, ArmStores, DriveEnds, HookRuns, Leave,
         table, requests, Inv, WorkType, MarksOK
<1>2. ASSUME NEW f \in Events, f # e PROVE Stage(f)' = Stage(f)
  BY <1>1, <1>2 DEF Stage, Busy
<1>3. Stage(e) = "working" /\ row[e] = "running"
  BY <1>1, StageRow DEF Busy
<1>4. Stage(e)' \in {"working", "waiting"}
  BY <1>1, <1>3 DEF Stage
<1> QED
  BY <1>1, <1>2, <1>3, <1>4, LedgerInterrupts

\* A stop and an exit only end work.
LEMMA EndsImplement ==
  ASSUME Inv, Inv', reruns' = reruns, row' = row, \A e \in Events : Busy(e)' => Busy(e)
  PROVE  Ledger!Next \/ UNCHANGED Ledger!vars
<1>1. ASSUME NEW e \in Events
      PROVE  Stage(e)' = Stage(e) \/ (Stage(e) = "working" /\ Stage(e)' = "waiting")
  <2>1. CASE Busy(e)' <=> Busy(e)
    BY <2>1 DEF Stage
  <2>2. CASE Busy(e) /\ ~Busy(e)'
    <3>1. row[e] = "running"
      BY <2>2, StageRow
    <3> QED
      BY <2>2, <3>1 DEF Stage
  <2> QED
    BY <2>1, <2>2
<1> QED
  BY <1>1, LedgerInterrupts

LEMMA ProcessImplements ==
  ASSUME Inv, Inv', StopBegins \/ Stop \/ Exit \/ Start
  PROVE  Ledger!Next \/ UNCHANGED Ledger!vars
<1>1. CASE StopBegins \/ DrainEnds \/ StopReturns
  BY <1>1, EndsImplement DEF StopBegins, DrainEnds, StopReturns, table, work, requests, Busy
<1>2. ASSUME NEW S \in SUBSET victims, Interrupt(S)
      PROVE  Ledger!Next \/ UNCHANGED Ledger!vars
  <2>1. \A e \in Events :
          /\ task'[e] \in {task[e], "none"} /\ thread'[e] \in {thread[e], "none"}
          /\ client'[e] \in {client[e], None}
    BY <1>2 DEF Interrupt
  <2>2. reruns' = reruns /\ row' = row
    BY <1>2 DEF Interrupt, table, requests
  <2>3. \A e \in Events : Busy(e)' => Busy(e)
    BY <2>1 DEF Busy
  <2> QED
    BY <2>2, <2>3, EndsImplement
<1>3. CASE Exit
  <2>1. \A e \in Events : /\ task'[e] = "none" /\ thread'[e] = "none"
                          /\ client'[e] \in {client[e], None}
    BY <1>3 DEF Exit
  <2>2. \A e \in Events : Busy(e)' => Busy(e)
    BY <2>1 DEF Busy
  <2> QED
    BY <1>3, <2>2, EndsImplement DEF Exit, table
<1>4. CASE Start
  <2>1. \A e \in Events : /\ ~Busy(e)' /\ (Busy(e) => row[e] = "running")
                          /\ row'[e] = IF row[e] = "running" THEN "queued" ELSE row[e]
    BY <1>4, StageRow DEF Start, Survivors, Inv, ProcessOK, Busy
  <2>2. \A e \in Events : Stage(e)' = Stage(e) \/ (Stage(e) = "working" /\ Stage(e)' = "waiting")
    BY <2>1 DEF Stage
  <2> QED
    BY <1>4, <2>2, LedgerInterrupts DEF Start, requests
<1> QED
  BY <1>1, <1>2, <1>3, <1>4 DEF Stop

\* The table, the dispatcher, the tasks, the threads and the process together keep the
\* promise of the ledger, for any number of deliveries, issues and slots: nothing the
\* queue accepted is lost, done twice unasked, or worked on beside its issue.
THEOREM LedgerImplemented == Spec => ImplementsLedger
<1>1. Init => Ledger!Init
  BY DEF Init, Ledger!Init, Stage, Busy
<1>2. Inv /\ Inv' /\ [Next]_vars => [Ledger!Next]_(Ledger!vars)
  <2> SUFFICES ASSUME Inv, Inv', [Next]_vars
               PROVE  Ledger!Next \/ UNCHANGED Ledger!vars
    OBVIOUS
  <2>1. CASE \E e \in Events : Receive(e) \/ Retry(e) \/ Retrigger(e) \/ Cancel(e)
    BY <2>1, RequestImplements
  <2>2. CASE Dispatcher
    BY <2>2, DispatcherImplements
  <2>3. CASE \E e \in Events : AcquireSlot(e) \/ Settle(e) \/ ThreadOf(e)
    BY <2>3, AcquireSlotImplements, SettleImplements, ThreadImplements
  <2>4. ASSUME NEW e \in Events, HandlerReaches(e) \/ Release(e) \/ BackoffEnds(e)
        PROVE  Ledger!Next \/ UNCHANGED Ledger!vars
    <3>1. \A f \in Events : Busy(f)' <=> Busy(f)
      BY <2>4 DEF HandlerReaches, Release, BackoffEnds, work, Busy, Inv, WorkType
    <3>2. reruns' = reruns /\ row' = row
      BY <2>4 DEF HandlerReaches, Release, BackoffEnds, table, requests
    <3> QED
      BY <3>1, <3>2, LedgerStays
  <2>5. CASE StopBegins \/ Stop \/ Exit \/ Start
    BY <2>5, ProcessImplements
  <2>6. CASE UNCHANGED vars
    BY <2>6, LedgerStays DEF vars, table, work, requests, Busy
  <2> QED
    BY <2>1, <2>2, <2>3, <2>4, <2>5, <2>6 DEF Next, TaskOf
<1> QED
  BY <1>1, <1>2, InvAlways, PTL DEF ImplementsLedger, Ledger!Spec, Spec
=============================================================================
