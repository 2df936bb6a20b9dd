--------------------------- MODULE TaskSpawns_proofs ---------------------------
(***************************************************************************)
(* The semaphore of TaskSpawns for any number of fan-outs, items, spawns   *)
(* and permits.  PermitsCounted is inductive together with the types and   *)
(* with Untaken: an item that no worker has taken holds and awaits         *)
(* nothing, so that the one a worker takes next is not counted twice.      *)
(*                                                                         *)
(* AcquireCounts and ReleaseCounts say it of any values of the variables;  *)
(* AcquireStep, LoopStep and ReleaseStep of the steps made of them, and    *)
(* OtherStep of those that move no permit.  NobodyOvertakes follows.       *)
(*                                                                         *)
(* What a fan-out returns (TruthfulReturn) needs FanInv besides: its live  *)
(* workers are as many as its items in flight, and what has been taken is  *)
(* answered or in flight unless the work was stopped.                      *)
(***************************************************************************)
EXTENDS TaskSpawns, FiniteSetTheorems, SequenceTheorems, TLAPS

Held == {"granted", "running"}
HoldersOf(tk) == {t \in Permitted : tk[t] \in Held}
WaitingOf(tk) == {t \in Permitted : tk[t] = "queued"}

\* PermitsCounted of any values of its variables.
Counted(tk, n, q) ==
    /\ IsFiniteSet(HoldersOf(tk)) /\ n = Cardinality(HoldersOf(tk)) /\ n <= Max
    /\ q # <<>> => n = Max
    /\ {q[k] : k \in DOMAIN q} = WaitingOf(tk)
    /\ \A j, k \in DOMAIN q : q[j] = q[k] => j = k

Types(tk, n, q) == tk \in [Spawns -> States] /\ n \in Nat /\ q \in Seq(Permitted)

Untaken(tk, cl) ==
    \A c \in Fanouts : \A i \in 1 .. ItemsOf[c] : i >= cl[c].next => tk[<<c, i>>] = "none"

Numbered(cl) == cl \in [Fanouts -> CallRecord] /\ \A c \in Fanouts : cl[c].next >= 1

IInv ==
    /\ Types(task, current, queue)
    /\ Counted(task, current, queue)
    /\ Numbered(call)
    /\ Untaken(task, call)

-----------------------------------------------------------------------------
\* An item is a pair of a fan-out and one of its numbers, and a spawn.
LEMMA ItemsArePairs ==
    /\ \A c \in Fanouts : \A i \in 1 .. ItemsOf[c] : <<c, i>> \in Items /\ <<c, i>> \in Spawns
    /\ \A t \in Items : t[1] \in Fanouts /\ t[2] \in 1 .. ItemsOf[t[1]] /\ t = <<t[1], t[2]>>
  BY DEF Items, Spawns

\* Spawns that take permits are spawns.
LEMMA PermittedAreSpawns == Permitted \subseteq Spawns
  BY DEF Permitted, Spawns

\* Acquiring: a free permit is counted, or the spawn joins the end of the queue.
LEMMA AcquireCounts ==
    ASSUME NEW tk, NEW n, NEW q, Types(tk, n, q), Counted(tk, n, q),
           NEW t \in Permitted, tk[t] \notin Held, tk[t] # "queued"
    PROVE  /\ n < Max => Counted([tk EXCEPT ![t] = "granted"], n + 1, q)
           /\ ~(n < Max) => Counted([tk EXCEPT ![t] = "queued"], n, Append(q, t))
<1>1. t \in Spawns /\ t \notin HoldersOf(tk) /\ t \notin WaitingOf(tk)
  BY PermittedAreSpawns DEF HoldersOf, WaitingOf
<1>2. ASSUME n < Max
      PROVE  Counted([tk EXCEPT ![t] = "granted"], n + 1, q)
  <2> DEFINE tg == [tk EXCEPT ![t] = "granted"]
  <2>1. HoldersOf(tg) = HoldersOf(tk) \cup {t} /\ WaitingOf(tg) = WaitingOf(tk)
    BY <1>1, PermittedAreSpawns DEF Types, HoldersOf, WaitingOf, Held
  <2>2. IsFiniteSet(HoldersOf(tg)) /\ Cardinality(HoldersOf(tg)) = n + 1
    BY <1>1, <2>1, FS_AddElement DEF Counted
  <2>3. q = <<>>
    BY <1>2, MaxAssumption DEF Counted, Types
  <2>4. n + 1 <= Max
    BY <1>2, MaxAssumption DEF Types
  <2>5. {q[k] : k \in DOMAIN q} = WaitingOf(tg) /\ \A j, k \in DOMAIN q : q[j] = q[k] => j = k
    BY <2>1 DEF Counted
  <2> HIDE DEF tg
  <2>6. Counted(tg, n + 1, q)
    BY <2>2, <2>3, <2>4, <2>5 DEF Counted
  <2> QED BY <2>6 DEF tg
<1>3. ASSUME ~(n < Max)
      PROVE  Counted([tk EXCEPT ![t] = "queued"], n, Append(q, t))
  <2> DEFINE tq == [tk EXCEPT ![t] = "queued"]
             r == Append(q, t)
  <2>1. HoldersOf(tq) = HoldersOf(tk) /\ WaitingOf(tq) = WaitingOf(tk) \cup {t}
    BY <1>1, PermittedAreSpawns DEF Types, HoldersOf, WaitingOf, Held
  <2>2. n = Max
    BY <1>3, MaxAssumption DEF Counted, Types
  <2>3. /\ DOMAIN r = 1 .. Len(q) + 1 /\ DOMAIN q = 1 .. Len(q) /\ Len(q) \in Nat
        /\ r[Len(q) + 1] = t /\ \A k \in DOMAIN q : r[k] = q[k]
    BY DEF Types
  <2>4. {r[k] : k \in DOMAIN r} = WaitingOf(tq)
    <3>1. \A k \in DOMAIN r : r[k] \in WaitingOf(tq)
      <4>1. \A k \in DOMAIN q : q[k] \in WaitingOf(tk)
        BY DEF Counted
      <4> HIDE DEF r, tq
      <4> QED BY <2>1, <2>3, <4>1
    <3>2. ASSUME NEW w \in WaitingOf(tq)
          PROVE  \E k \in DOMAIN r : r[k] = w
      <4>1. CASE w = t
        <5> HIDE DEF r
        <5>1. Len(q) + 1 \in DOMAIN r
          BY <2>3
        <5> QED BY <2>3, <4>1, <5>1
      <4>2. CASE w \in WaitingOf(tk)
        <5>1. PICK k \in DOMAIN q : q[k] = w
          BY <4>2 DEF Counted
        <5> HIDE DEF r
        <5>2. k \in DOMAIN r
          BY <2>3
        <5> QED BY <2>3, <5>1, <5>2
      <4> QED BY <2>1, <4>1, <4>2
    <3> QED BY <3>1, <3>2
  <2>5. \A k \in DOMAIN q : q[k] # t
    BY <1>1 DEF Counted
  <2>6. \A j, k \in DOMAIN r : r[j] = r[k] => j = k
    BY <2>3, <2>5 DEF Counted
  <2> QED
    <3> HIDE DEF tq, r
    <3>1. Counted(tq, n, r)
      BY <2>1, <2>2, <2>4, <2>6 DEF Counted
    <3> QED BY <3>1 DEF tq, r
<1> QED BY <1>2, <1>3

\* Releasing: the first waiter has the permit instead of p, or one more is free.
LEMMA ReleaseCounts ==
    ASSUME NEW tk, NEW n, NEW q, Types(tk, n, q), Counted(tk, n, q),
           NEW p \in Permitted, tk[p] \in Held,
           NEW x \in {"done", "failed", "over"}
    PROVE  /\ q # <<>> => Counted([[tk EXCEPT ![p] = x] EXCEPT ![Head(q)] = "granted"], n, Tail(q))
           /\ q = <<>> => Counted([tk EXCEPT ![p] = x], n - 1, q)
<1> DEFINE tx == [tk EXCEPT ![p] = x]
<1>1. /\ HoldersOf(tx) = HoldersOf(tk) \ {p} /\ WaitingOf(tx) = WaitingOf(tk)
      /\ p \in HoldersOf(tk)
  BY PermittedAreSpawns DEF Types, HoldersOf, WaitingOf, Held
<1>2. /\ IsFiniteSet(HoldersOf(tx)) /\ Cardinality(HoldersOf(tx)) = n - 1
      /\ n - 1 \in Nat
  <2>1. IsFiniteSet(HoldersOf(tx)) /\ Cardinality(HoldersOf(tx)) = n - 1
    BY <1>1, FS_RemoveElement DEF Counted
  <2> QED BY <2>1, FS_CardinalityType
<1>3. ASSUME q = <<>>
      PROVE  Counted(tx, n - 1, q)
  <2>1. n - 1 <= Max
    BY MaxAssumption DEF Counted, Types
  <2>2. {q[k] : k \in DOMAIN q} = WaitingOf(tx) /\ \A j, k \in DOMAIN q : q[j] = q[k] => j = k
    BY <1>1 DEF Counted
  <2> HIDE DEF tx
  <2> QED BY <1>2, <1>3, <2>1, <2>2 DEF Counted
<1>4. ASSUME q # <<>>
      PROVE  Counted([tx EXCEPT ![Head(q)] = "granted"], n, Tail(q))
  <2> DEFINE h == Head(q)
             th == [tx EXCEPT ![h] = "granted"]
             r == Tail(q)
  <2>1. /\ Len(q) \in Nat \ {0} /\ DOMAIN q = 1 .. Len(q) /\ h = q[1]
        /\ DOMAIN r = 1 .. Len(q) - 1 /\ \A k \in DOMAIN r : r[k] = q[k + 1]
    BY <1>4 DEF Types
  <2>2. h \in WaitingOf(tk) /\ h \in Permitted /\ h \in Spawns /\ h \notin HoldersOf(tx) /\ h # p
    BY <1>1, <2>1, PermittedAreSpawns DEF Counted, WaitingOf, HoldersOf, Held
  <2>3. HoldersOf(th) = HoldersOf(tx) \cup {h} /\ WaitingOf(th) = WaitingOf(tk) \ {h}
    BY <1>1, <2>2, PermittedAreSpawns DEF Types, HoldersOf, WaitingOf, Held
  <2>4. IsFiniteSet(HoldersOf(th)) /\ Cardinality(HoldersOf(th)) = n
    <3> HIDE DEF th, tx, h
    <3>1. /\ IsFiniteSet(HoldersOf(tx) \cup {h})
          /\ Cardinality(HoldersOf(tx) \cup {h}) = Cardinality(HoldersOf(tx)) + 1
      BY <1>2, <2>2, FS_AddElement
    <3> QED BY <1>2, <2>3, <3>1 DEF Types
  <2>5. \A j, k \in DOMAIN r : r[j] = r[k] => j = k
    BY <2>1 DEF Counted
  <2>6. {r[k] : k \in DOMAIN r} = WaitingOf(th)
    <3>1. \A k \in DOMAIN r : r[k] # h /\ r[k] \in WaitingOf(tk)
      BY <2>1 DEF Counted
    <3>2. ASSUME NEW w \in WaitingOf(tk), w # h
          PROVE  \E k \in DOMAIN r : r[k] = w
      <4>1. PICK k \in DOMAIN q : q[k] = w
        BY DEF Counted
      <4>2. k - 1 \in DOMAIN r /\ r[k - 1] = w
        BY <2>1, <3>2, <4>1
      <4> QED BY <4>2
    <3> QED BY <2>3, <3>1, <3>2
  <2> QED
    BY <1>4, <2>4, <2>5, <2>6 DEF Counted
<1> QED BY <1>3, <1>4

-----------------------------------------------------------------------------
\* A step that acquires a permit for t, tk being what it has made of the tasks before.
LEMMA AcquireStep ==
    ASSUME NEW tk, Types(tk, current, queue), Counted(tk, current, queue),
           NEW t \in Permitted, tk[t] \notin Held, tk[t] # "queued",
           Acquire(tk, t)
    PROVE  /\ Types(task', current', queue') /\ Counted(task', current', queue')
           /\ \A s \in Spawns : s # t => task'[s] = tk[s]
<1>1. t \in Spawns
  BY PermittedAreSpawns
<1>2. CASE current < Max
  <2>1. task' = [tk EXCEPT ![t] = "granted"] /\ current' = current + 1 /\ queue' = queue
    BY <1>2 DEF Acquire
  <2>2. Counted(task', current', queue')
    BY <1>2, <2>1, AcquireCounts
  <2> QED BY <1>1, <2>1, <2>2 DEF Types, States
<1>3. CASE ~(current < Max)
  <2>1. task' = [tk EXCEPT ![t] = "queued"] /\ current' = current /\ queue' = Append(queue, t)
    BY <1>3 DEF Acquire
  <2>2. Counted(task', current', queue')
    BY <1>3, <2>1, AcquireCounts
  <2> QED BY <1>1, <2>1, <2>2 DEF Types, States
<1> QED BY <1>2, <1>3

\* A spawn with a permit ends as x: the permit goes to the first waiter or is free.
LEMMA ReleaseStep ==
    ASSUME IInv, NEW p \in Permitted, task[p] \in Held,
           NEW x \in {"done", "failed", "over"},
           Release([task EXCEPT ![p] = x]), call' = call
    PROVE  IInv'
<1>1. p \in Spawns
  BY PermittedAreSpawns
<1>2. CASE queue # <<>>
  <2>1. /\ task' = [[task EXCEPT ![p] = x] EXCEPT ![Head(queue)] = "granted"]
        /\ current' = current /\ queue' = Tail(queue)
    BY <1>2 DEF Release
  <2>2. Counted(task', current', queue')
    BY <1>2, <2>1, ReleaseCounts DEF IInv
  <2>3. Head(queue) \in Permitted /\ task[Head(queue)] = "queued"
    <3>1. 1 \in DOMAIN queue /\ Head(queue) = queue[1]
      BY <1>2 DEF IInv, Types
    <3> QED BY <3>1 DEF IInv, Counted, WaitingOf
  <2>4. Types(task', current', queue')
    BY <1>1, <1>2, <2>1, <2>3, PermittedAreSpawns DEF IInv, Types, States
  <2>5. Untaken(task', call')
    <3> SUFFICES ASSUME NEW c \in Fanouts, NEW i \in 1 .. ItemsOf[c], i >= call[c].next
                 PROVE  task'[<<c, i>>] = "none"
      BY DEF Untaken
    <3>1. task[<<c, i>>] = "none" /\ <<c, i>> \in Spawns
      BY ItemsArePairs DEF IInv, Untaken
    <3>2. <<c, i>> # p /\ <<c, i>> # Head(queue)
      BY <2>3, <3>1 DEF Held
    <3> QED BY <2>1, <3>1, <3>2 DEF IInv, Types
  <2> QED BY <2>2, <2>4, <2>5 DEF IInv, Numbered
<1>3. CASE queue = <<>>
  <2>1. task' = [task EXCEPT ![p] = x] /\ current' = current - 1 /\ queue' = queue
    BY <1>3 DEF Release
  <2>2. Counted(task', current', queue')
    BY <1>3, <2>1, ReleaseCounts DEF IInv
  <2>3. current' \in Nat
    <3>1. IsFiniteSet(HoldersOf(task')) /\ current' = Cardinality(HoldersOf(task'))
      BY <2>2 DEF Counted
    <3> QED BY <3>1, FS_CardinalityType
  <2>4. Types(task', current', queue')
    BY <1>1, <2>1, <2>3 DEF IInv, Types, States
  <2>5. Untaken(task', call')
    <3> SUFFICES ASSUME NEW c \in Fanouts, NEW i \in 1 .. ItemsOf[c], i >= call[c].next
                 PROVE  task'[<<c, i>>] = "none"
      BY DEF Untaken
    <3>1. task[<<c, i>>] = "none" /\ <<c, i>> \in Spawns
      BY ItemsArePairs DEF IInv, Untaken
    <3>2. <<c, i>> # p
      BY <3>1 DEF Held
    <3> QED BY <2>1, <3>1, <3>2 DEF IInv, Types
  <2> QED BY <2>2, <2>4, <2>5 DEF IInv, Numbered
<1> QED BY <1>2, <1>3

\* A turn of a worker's loop, cl being the call as the step has left it.
LEMMA LoopStep ==
    ASSUME IInv, NEW tk, Types(tk, current, queue), Counted(tk, current, queue),
           Untaken(tk, call),
           NEW c \in Fanouts, NEW cl \in CallRecord, cl.next = call[c].next,
           Loop(tk, c, cl)
    PROVE  IInv'
<1>1. cl.next \in Nat \ {0} /\ call \in [Fanouts -> CallRecord]
  BY DEF IInv, Numbered, CallRecord
<1>2. CASE Takes(c)
  <2> DEFINE t == <<c, cl.next>>
  <2>1. call' = [call EXCEPT ![c] = [cl EXCEPT !.next = @ + 1]]
    BY <1>2 DEF Loop
  <2>2. cl.next \in 1 .. ItemsOf[c] /\ t \in Spawns /\ tk[t] = "none"
    BY <1>1, <1>2, ItemsArePairs, CallsAssumption DEF Takes, Untaken
  <2>3. Numbered(call')
    <3>1. [cl EXCEPT !.next = @ + 1] \in CallRecord
      BY <1>1 DEF CallRecord
    <3> QED BY <1>1, <2>1, <3>1 DEF IInv, Numbered, CallRecord
  <2>4. ASSUME Types(task', current', queue'), Counted(task', current', queue'),
               \A s \in Spawns : s # t => task'[s] = tk[s]
        PROVE  IInv'
    <3>1. Untaken(task', call')
      <4> SUFFICES ASSUME NEW d \in Fanouts, NEW i \in 1 .. ItemsOf[d], i >= call'[d].next
                   PROVE  task'[<<d, i>>] = "none"
        BY DEF Untaken
      <4>1. i >= call[d].next /\ <<d, i>> # t
        <5>1. CASE d = c
          <6>1. call'[d].next = cl.next + 1
            BY <1>1, <2>1, <5>1 DEF CallRecord
          <6> QED BY <1>1, <5>1, <6>1
        <5>2. CASE d # c
          BY <1>1, <2>1, <5>2
        <5> QED BY <5>1, <5>2
      <4> QED BY <2>4, <4>1, ItemsArePairs DEF Untaken
    <3> QED BY <2>3, <2>4, <3>1 DEF IInv
  <2>5. CASE t \in Permitted
    <3>1. Acquire(tk, t)
      BY <1>2, <2>5 DEF Loop
    <3> QED BY <2>2, <2>4, <2>5, <3>1, AcquireStep DEF Held
  <2>6. CASE t \notin Permitted
    <3>1. task' = [tk EXCEPT ![t] = "running"] /\ current' = current /\ queue' = queue
      BY <1>2, <2>6 DEF Loop, semaphore
    <3>2. HoldersOf(task') = HoldersOf(tk) /\ WaitingOf(task') = WaitingOf(tk)
      BY <2>2, <2>6, <3>1, PermittedAreSpawns DEF HoldersOf, WaitingOf, Types
    <3>3. Counted(task', current', queue')
      BY <3>1, <3>2 DEF Counted
    <3>4. Types(task', current', queue')
      BY <2>2, <3>1 DEF Types, States
    <3>5. \A s \in Spawns : s # t => task'[s] = tk[s]
      BY <3>1 DEF Types
    <3> QED BY <2>4, <3>3, <3>4, <3>5
  <2> QED BY <2>5, <2>6
<1>3. CASE ~Takes(c)
  <2>1. /\ call' = [call EXCEPT ![c] = [cl EXCEPT !.live = @ - 1]]
        /\ task' = tk /\ current' = current /\ queue' = queue
    BY <1>3 DEF Loop, semaphore
  <2>2. [cl EXCEPT !.live = @ - 1] \in CallRecord /\ [cl EXCEPT !.live = @ - 1].next = cl.next
    BY DEF CallRecord
  <2>3. \A d \in Fanouts : call'[d].next = call[d].next
    BY <1>1, <2>1, <2>2
  <2>4. Numbered(call') /\ Untaken(task', call')
    BY <1>1, <2>1, <2>2, <2>3 DEF IInv, Numbered, Untaken
  <2> QED BY <2>1, <2>4 DEF IInv
<1> QED BY <1>2, <1>3

\* A step that moves neither permits nor items' numbers: the tasks that change are not among
\* those that hold or await one, before or after, or keep theirs.
LEMMA OtherStep ==
    ASSUME IInv, task' \in [Spawns -> States], current' = current, queue' = queue,
           \A t \in Permitted : (task[t] \in Held <=> task'[t] \in Held),
           \A t \in Permitted : (task[t] = "queued" <=> task'[t] = "queued"),
           \A t \in Items : task[t] = "none" => task'[t] = "none",
           call' \in [Fanouts -> CallRecord],
           \A c \in Fanouts : call'[c].next = call[c].next
    PROVE  IInv'
<1>1. HoldersOf(task') = HoldersOf(task) /\ WaitingOf(task') = WaitingOf(task)
  BY DEF HoldersOf, WaitingOf
<1>2. Counted(task', current', queue')
  BY <1>1 DEF IInv, Counted
<1>3. Untaken(task', call')
  BY ItemsArePairs DEF IInv, Untaken
<1> QED BY <1>2, <1>3 DEF IInv, Types, Numbered

-----------------------------------------------------------------------------
\* At first nobody holds or awaits a permit.
LEMMA InitIInv == Init => IInv
<1> SUFFICES ASSUME Init PROVE IInv
  OBVIOUS
<1>1. HoldersOf(task) = {} /\ WaitingOf(task) = {}
  BY PermittedAreSpawns DEF Init, HoldersOf, WaitingOf, Held
<1>2. Counted(task, current, queue)
  <2>1. current = 0 /\ queue = <<>> /\ DOMAIN queue = {} /\ 0 <= Max
    BY MaxAssumption DEF Init
  <2> QED BY <1>1, <2>1, FS_EmptySet DEF Counted
<1>3. Types(task, current, queue)
  BY DEF Init, Types, States
<1>4. Numbered(call)
  BY DEF Init, Numbered, CallRecord
<1>5. Untaken(task, call)
  BY ItemsArePairs DEF Init, Untaken
<1> QED BY <1>2, <1>3, <1>4, <1>5 DEF IInv

\* Every step keeps the count; one case per action.
LEMMA NextIInv == IInv /\ [Next]_vars => IInv'
<1> SUFFICES ASSUME IInv, [Next]_vars PROVE IInv'
  OBVIOUS
<1> USE DEF Held
<1>t. task \in [Spawns -> States] /\ call \in [Fanouts -> CallRecord]
  BY DEF IInv, Types, Numbered
<1>1. ASSUME NEW c \in Fanouts, Call(c)
      PROVE  IInv'
  <2>1. call' = [call EXCEPT ![c].phase = "running"] /\ UNCHANGED <<task, current, queue>>
    BY <1>1 DEF Call, semaphore
  <2>2. call' \in [Fanouts -> CallRecord] /\ \A d \in Fanouts : call'[d].next = call[d].next
    BY <1>t, <2>1 DEF CallRecord
  <2> QED BY <1>t, <2>1, <2>2, OtherStep
<1>2. ASSUME NEW c \in Fanouts, Launch(c)
      PROVE  IInv'
  <2>1. PICK tk, cl : tk = task /\ cl = [call[c] EXCEPT !.launched = @ + 1, !.live = @ + 1]
    OBVIOUS
  <2>2. cl \in CallRecord /\ cl.next = call[c].next
    <3>1. call[c] \in CallRecord
      BY <1>t
    <3>2. PICK cn : cn = [call[c] EXCEPT !.launched = @ + 1]
      OBVIOUS
    <3>3. cn \in CallRecord /\ cn.next = call[c].next
      BY <3>1, <3>2 DEF CallRecord
    <3>4. cl = [cn EXCEPT !.live = @ + 1]
      BY <2>1, <3>1, <3>2 DEF CallRecord
    <3> QED BY <3>3, <3>4 DEF CallRecord
  <2>3. Loop(tk, c, cl)
    BY <1>2, <2>1 DEF Launch
  <2>4. Types(tk, current, queue) /\ Counted(tk, current, queue) /\ Untaken(tk, call)
    BY <2>1 DEF IInv
  <2> QED BY <2>2, <2>3, <2>4, LoopStep
<1>3. ASSUME NEW c \in Fanouts, Return(c)
      PROVE  IInv'
  <2> DEFINE ph == IF call[c].failed /\ c \notin aborted THEN "threw" ELSE "returned"
  <2>1. /\ call' = [call EXCEPT ![c].phase = ph, ![c].returned = call[c].results,
                               ![c].saidAborted = c \in aborted]
        /\ UNCHANGED <<task, current, queue>>
    BY <1>3 DEF Return, semaphore
  <2>2. call' \in [Fanouts -> CallRecord] /\ \A d \in Fanouts : call'[d].next = call[d].next
    <3>1. ph \in {"threw", "returned"}
      OBVIOUS
    <3> HIDE DEF ph
    <3>2. PICK cl : cl = [call[c] EXCEPT !.phase = ph, !.returned = call[c].results,
                                         !.saidAborted = c \in aborted]
      OBVIOUS
    <3>3. call[c] \in CallRecord /\ call' = [call EXCEPT ![c] = cl]
      BY <1>t, <2>1, <3>2
    <3>4. PICK said \in BOOLEAN : said = (c \in aborted)
      <4>1. CASE c \in aborted
        <5>1. TRUE = (c \in aborted)
          BY <4>1
        <5> QED BY <5>1, Zenon
      <4>2. CASE c \notin aborted
        <5>1. FALSE = (c \in aborted)
          BY <4>2
        <5> QED BY <5>1, Zenon
      <4> QED BY <4>1, <4>2
    <3>5. cl = [call[c] EXCEPT !.phase = ph, !.returned = call[c].results, !.saidAborted = said]
      BY <3>2, <3>4, Zenon
    <3>6. cl \in CallRecord /\ cl.next = call[c].next
      BY <3>1, <3>3, <3>5 DEF CallRecord
    <3> QED BY <1>t, <3>3, <3>6
  <2> QED BY <1>t, <2>1, <2>2, OtherStep
<1>4. ASSUME NEW s \in Items, Resumes(s)
      PROVE  IInv'
  <2>1. PICK c \in Fanouts : \E i \in 1 .. ItemsOf[c] :
            s = <<c, i>> /\ (Stores(c, i) \/ Swallows(c, i) \/ FailsFast(c, i))
    BY <1>4, ItemsArePairs DEF Resumes
  <2>2. PICK i \in 1 .. ItemsOf[c] :
            s = <<c, i>> /\ (Stores(c, i) \/ Swallows(c, i) \/ FailsFast(c, i))
    BY <2>1
  <2>3. s \in Spawns /\ task[s] \in {"done", "failed"}
    BY <2>2, ItemsArePairs DEF Stores, Swallows, FailsFast
  <2>4. PICK tk : tk = [task EXCEPT ![s] = "over"]
    OBVIOUS
  <2>5. /\ tk \in [Spawns -> States]
        /\ HoldersOf(tk) = HoldersOf(task) /\ WaitingOf(tk) = WaitingOf(task)
        /\ Untaken(tk, call)
    <3>1. tk \in [Spawns -> States]
      BY <1>t, <2>3, <2>4 DEF States
    <3>2. HoldersOf(tk) = HoldersOf(task) /\ WaitingOf(tk) = WaitingOf(task)
      BY <1>t, <2>3, <2>4, PermittedAreSpawns DEF HoldersOf, WaitingOf
    <3>3. Untaken(tk, call)
      BY <1>t, <2>3, <2>4, ItemsArePairs DEF IInv, Untaken
    <3> QED BY <3>1, <3>2, <3>3
  <2>6. Types(tk, current, queue) /\ Counted(tk, current, queue)
    BY <2>5 DEF IInv, Types, Counted
  <2>7. CASE Stores(c, i)
    <3>1. PICK cl : cl = [call[c] EXCEPT !.results = @ \cup {i}]
      OBVIOUS
    <3>2. cl \in CallRecord /\ cl.next = call[c].next
      BY <1>t, <2>2, <3>1 DEF CallRecord
    <3>3. Loop(tk, c, cl)
      BY <2>2, <2>4, <2>7, <3>1 DEF Stores
    <3> QED BY <2>5, <2>6, <3>2, <3>3, LoopStep
  <2>8. CASE Swallows(c, i)
    <3>1. PICK cl : cl = call[c]
      OBVIOUS
    <3>2. Loop(tk, c, cl)
      BY <2>2, <2>4, <2>8, <3>1 DEF Swallows
    <3> QED BY <1>t, <2>5, <2>6, <3>1, <3>2, LoopStep
  <2>9. CASE FailsFast(c, i)
    <3>1. /\ task' = tk /\ current' = current /\ queue' = queue
          /\ call' = [call EXCEPT ![c].failed = TRUE, ![c].live = @ - 1]
      BY <2>2, <2>4, <2>9 DEF FailsFast, semaphore
    <3>2. Numbered(call') /\ \A d \in Fanouts : call'[d].next = call[d].next
      BY <1>t, <3>1 DEF IInv, Numbered, CallRecord
    <3>3. Untaken(task', call')
      BY <2>5, <3>1, <3>2 DEF Untaken
    <3> QED BY <2>6, <3>1, <3>2, <3>3 DEF IInv
  <2> QED BY <2>2, <2>7, <2>8, <2>9
<1>5. ASSUME NEW s \in Singles, Start(s)
      PROVE  IInv'
  <2>1. PICK tk : tk = task
    OBVIOUS
  <2>2. s \in Permitted /\ tk[s] = "none" /\ Acquire(tk, s) /\ call' = call
    BY <1>5, <2>1 DEF Start, Permitted
  <2>3. /\ Types(task', current', queue') /\ Counted(task', current', queue')
        /\ \A r \in Spawns : r # s => task'[r] = tk[r]
    BY <2>1, <2>2, AcquireStep DEF IInv
  <2>4. Untaken(task', call')
    BY <2>1, <2>2, <2>3, ItemsArePairs, CallsAssumption DEF IInv, Untaken
  <2> QED BY <2>2, <2>3, <2>4 DEF IInv
<1>6. ASSUME NEW s \in Spawns, Run(s)
      PROVE  IInv'
  <2>1. /\ task[s] = "granted" /\ task' = [task EXCEPT ![s] = "running"]
        /\ UNCHANGED <<current, queue, call>>
    BY <1>6 DEF Run, semaphore
  <2>2. /\ task' \in [Spawns -> States]
        /\ \A t \in Spawns : t # s => task'[t] = task[t]
        /\ task'[s] = "running"
    BY <1>t, <2>1 DEF States
  <2>3. /\ \A t \in Permitted : (task[t] \in Held <=> task'[t] \in Held)
        /\ \A t \in Permitted : (task[t] = "queued" <=> task'[t] = "queued")
        /\ \A t \in Items : task[t] = "none" => task'[t] = "none"
    BY <2>1, <2>2, PermittedAreSpawns DEF Spawns
  <2> QED BY <1>t, <2>1, <2>2, <2>3, OtherStep
<1>7. ASSUME NEW s \in Spawns, AbortedBeforeRun(s)
      PROVE  IInv'
  <2>1. /\ s \in Permitted /\ task[s] = "granted"
        /\ Release([task EXCEPT ![s] = "over"]) /\ call' = call
    BY <1>7, CallsAssumption DEF AbortedBeforeRun, Permitted
  <2> QED BY <2>1, ReleaseStep
<1>8. ASSUME NEW s \in Spawns, NEW outcome \in {"done", "failed"}, End(s, outcome)
      PROVE  IInv'
  <2>1. PICK x \in {"done", "failed", "over"} : x = IF s \in Singles THEN "over" ELSE outcome
    OBVIOUS
  <2>2. task[s] = "running" /\ call' = call
    BY <1>8 DEF End
  <2>3. CASE s \in Permitted
    <3>1. Release([task EXCEPT ![s] = x])
      BY <1>8, <2>1, <2>3 DEF End
    <3> QED BY <2>2, <2>3, <3>1, ReleaseStep
  <2>4. CASE s \notin Permitted
    <3>1. task' = [task EXCEPT ![s] = x] /\ UNCHANGED <<current, queue>>
      BY <1>8, <2>1, <2>4 DEF End, semaphore
    <3>2. /\ task' \in [Spawns -> States]
          /\ \A t \in Spawns : t # s => task'[t] = task[t]
      BY <1>t, <3>1 DEF States
    <3>3. \A t \in Items : task[t] = "none" => task'[t] = "none"
      BY <2>2, <3>2 DEF Spawns
    <3> QED BY <1>t, <2>2, <2>4, <3>1, <3>2, <3>3, PermittedAreSpawns, OtherStep
  <2> QED BY <2>3, <2>4
<1>9. CASE UNCHANGED <<task, current, queue, call>>
  BY <1>9 DEF IInv
<1>10. ASSUME NEW x \in Gated \cup Jobs, Abort(x)
       PROVE  IInv'
  BY <1>9, <1>10 DEF Abort, semaphore
<1> QED
  BY <1>1, <1>2, <1>3, <1>4, <1>5, <1>6, <1>7, <1>8, <1>9, <1>10
     DEF Next, Progress, Finishes, vars, semaphore

-----------------------------------------------------------------------------
\* For any number of spawns and permits, the semaphore's number is the number of those that
\* hold a permit, at most task.maxConcurrency, and nobody waits while one is free.
THEOREM PermitsCountedAlways == Spec => []PermitsCounted
<1>1. IInv => PermitsCounted
  BY DEF IInv, Counted, PermitsCounted, Holders, Waiting, HoldersOf, WaitingOf, Held
<1> QED BY <1>1, InitIInv, NextIInv, PTL DEF Spec

-----------------------------------------------------------------------------
\* Who is granted a permit in a step, and found nobody waiting or waited first.
Granted(tk) == \A s \in Spawns : tk[s] # "granted" /\ task'[s] = "granted"
                                    => queue = <<>> \/ s = Head(queue)

\* A free permit means an empty queue.
LEMMA AcquireGrants ==
    ASSUME IInv, NEW tk \in [Spawns -> States], NEW t \in Permitted, Acquire(tk, t)
    PROVE  Granted(tk)
<1>1. CASE current < Max
  <2>1. queue = <<>>
    BY <1>1, MaxAssumption DEF IInv, Types, Counted
  <2> QED BY <2>1 DEF Granted
<1>2. CASE ~(current < Max)
  <2>1. task' = [tk EXCEPT ![t] = "queued"]
    BY <1>2 DEF Acquire
  <2> QED BY <2>1 DEF Granted
<1> QED BY <1>1, <1>2

\* A permit that is given back goes to the head of the queue only.
LEMMA ReleaseGrants ==
    ASSUME IInv, NEW p, NEW x \in {"done", "failed", "over"}, Release([task EXCEPT ![p] = x])
    PROVE  Granted(task)
<1>1. task \in [Spawns -> States]
  BY DEF IInv, Types
<1>2. CASE queue # <<>>
  <2>1. task' = [[task EXCEPT ![p] = x] EXCEPT ![Head(queue)] = "granted"]
    BY <1>2 DEF Release
  <2> QED BY <1>1, <2>1 DEF Granted
<1>3. CASE queue = <<>>
  BY <1>3 DEF Granted
<1> QED BY <1>2, <1>3

\* A worker that takes an item acquires like anyone else.
LEMMA LoopGrants ==
    ASSUME IInv, NEW tk \in [Spawns -> States], NEW c \in Fanouts, NEW cl, Loop(tk, c, cl)
    PROVE  Granted(tk)
<1>1. CASE Takes(c) /\ <<c, cl.next>> \in Permitted
  <2>1. Acquire(tk, <<c, cl.next>>)
    BY <1>1 DEF Loop
  <2> QED BY <1>1, <2>1, AcquireGrants
<1>2. CASE Takes(c) /\ <<c, cl.next>> \notin Permitted
  <2>1. task' = [tk EXCEPT ![<<c, cl.next>>] = "running"]
    BY <1>2 DEF Loop
  <2> QED BY <2>1 DEF Granted
<1>3. CASE ~Takes(c)
  BY <1>3 DEF Loop, Granted
<1> QED BY <1>1, <1>2, <1>3

\* Every step grants permits in order; one case per action.
LEMMA NextGrants == IInv /\ [Next]_vars => Granted(task)
<1> SUFFICES ASSUME IInv, [Next]_vars PROVE Granted(task)
  OBVIOUS
<1>t. task \in [Spawns -> States]
  BY DEF IInv, Types
<1>1. ASSUME NEW c \in Fanouts, Call(c) \/ Return(c)
      PROVE  Granted(task)
  BY <1>1 DEF Call, Return, Granted
<1>2. ASSUME NEW c \in Fanouts, Launch(c)
      PROVE  Granted(task)
  <2>1. PICK tk, cl : tk = task /\ cl = [call[c] EXCEPT !.launched = @ + 1, !.live = @ + 1]
    OBVIOUS
  <2>2. Loop(tk, c, cl)
    BY <1>2, <2>1 DEF Launch
  <2> QED BY <1>t, <2>1, <2>2, LoopGrants
<1>3. ASSUME NEW s \in Items, Resumes(s)
      PROVE  Granted(task)
  <2>1. s[1] \in Fanouts /\ s = <<s[1], s[2]>> /\ s \in Spawns
    BY ItemsArePairs DEF Spawns
  <2>2. PICK tk : tk = [task EXCEPT ![s] = "over"]
    OBVIOUS
  <2>3. tk \in [Spawns -> States] /\ \A r \in Spawns : task[r] # "granted" => tk[r] # "granted"
    BY <1>t, <2>2 DEF States
  <2>4. CASE Stores(s[1], s[2])
    <3>1. PICK cl : cl = [call[s[1]] EXCEPT !.results = @ \cup {s[2]}]
      OBVIOUS
    <3>2. Loop(tk, s[1], cl)
      BY <2>1, <2>2, <2>4, <3>1 DEF Stores
    <3> QED BY <2>1, <2>3, <3>2, LoopGrants DEF Granted
  <2>5. CASE Swallows(s[1], s[2])
    <3>1. PICK cl : cl = call[s[1]]
      OBVIOUS
    <3>2. Loop(tk, s[1], cl)
      BY <2>1, <2>2, <2>5, <3>1 DEF Swallows
    <3> QED BY <2>1, <2>3, <3>2, LoopGrants DEF Granted
  <2>6. CASE FailsFast(s[1], s[2])
    BY <1>t, <2>1, <2>2, <2>3, <2>6 DEF FailsFast, Granted
  <2> QED BY <1>3, <2>4, <2>5, <2>6 DEF Resumes
<1>4. ASSUME NEW s \in Singles, Start(s)
      PROVE  Granted(task)
  <2>1. PICK tk : tk = task
    OBVIOUS
  <2> QED BY <1>t, <1>4, <2>1, AcquireGrants DEF Start, Permitted
<1>5. ASSUME NEW s \in Spawns, Run(s)
      PROVE  Granted(task)
  BY <1>t, <1>5 DEF Run, Granted
<1>6. ASSUME NEW s \in Spawns, AbortedBeforeRun(s)
      PROVE  Granted(task)
  BY <1>6, ReleaseGrants DEF AbortedBeforeRun
<1>7. ASSUME NEW s \in Spawns, NEW outcome \in {"done", "failed"}, End(s, outcome)
      PROVE  Granted(task)
  <2>1. PICK x \in {"done", "failed", "over"} : x = IF s \in Singles THEN "over" ELSE outcome
    OBVIOUS
  <2>2. Release([task EXCEPT ![s] = x]) \/ task' = [task EXCEPT ![s] = x]
    BY <1>7, <2>1 DEF End
  <2> QED BY <1>t, <2>2, ReleaseGrants DEF Granted
<1>8. CASE task' = task
  BY <1>8 DEF Granted
<1>9. ASSUME NEW x \in Gated \cup Jobs, Abort(x)
      PROVE  Granted(task)
  BY <1>8, <1>9 DEF Abort
<1> QED
  BY <1>1, <1>2, <1>3, <1>4, <1>5, <1>6, <1>7, <1>8, <1>9
     DEF Next, Progress, Finishes, vars, semaphore

\* Nobody is granted a permit before those who wait for one, whatever is aborted or fails.
THEOREM NobodyOvertakesAlways == Spec => NobodyOvertakes
<1>1. IInv /\ [Next]_vars =>
        [\A t \in Permitted :
            task[t] \notin {"granted", "running"} /\ task'[t] = "granted"
                => queue = <<>> \/ t = Head(queue)]_vars
  BY NextGrants, PermittedAreSpawns DEF Granted
<1> QED BY <1>1, InitIInv, NextIInv, PTL DEF Spec, NobodyOvertakes

-----------------------------------------------------------------------------
(* What a fan-out says.  An item that is taken and not settled is in       *)
(* flight: one worker waits for it, so a fan-out has as many live workers  *)
(* as items in flight, and those that are neither answered nor in flight   *)
(* have not been taken, unless the work was stopped.                       *)

Flight(tk, c) == {i \in 1 .. ItemsOf[c] : tk[<<c, i>>] \notin {"none", "over"}}

Worked(tk, c, cl, stopped) ==
    /\ IsFiniteSet(Flight(tk, c)) /\ cl.live = Cardinality(Flight(tk, c))
    /\ cl.live <= cl.launched /\ cl.launched <= LimitOf[c]
    /\ cl.next <= ItemsOf[c] + 1 /\ cl.results \subseteq 1 .. cl.next - 1
    /\ ~stopped => /\ cl.results \cup Flight(tk, c) = 1 .. cl.next - 1
                   /\ cl.live < cl.launched => cl.next = ItemsOf[c] + 1

\* What its phase says of a call; `starting` is the value of calling.
Phased(c, cl, starting) ==
    /\ cl.phase = "idle" => cl.launched = 0 /\ ~cl.failed
    /\ starting = c => cl.phase = "running" /\ cl.launched < LimitOf[c]
    /\ cl.phase # "idle" /\ starting # c => cl.launched = LimitOf[c]
    /\ cl.phase \in {"returned", "threw"} /\ ~cl.failed => cl.live = 0
    /\ cl.phase = "returned" /\ ~cl.saidAborted => cl.returned = 1 .. ItemsOf[c]
    /\ cl.phase = "threw" => cl.failed /\ ~cl.saidAborted

Fan(c) == Worked(task, c, call[c], Stopped(c)) /\ Phased(c, call[c], calling)

FanInv ==
    /\ calling \in Fanouts \cup {None}
    /\ aborted \subseteq Fanouts \cup Jobs
    /\ \A c \in Fanouts : Fan(c)

\* What is in flight has been taken.
LEMMA FlightTaken ==
    ASSUME IInv, NEW tk, Untaken(tk, call), NEW c \in Fanouts
    PROVE  Flight(tk, c) \subseteq 1 .. call[c].next - 1
<1>1. call[c].next \in Nat /\ ItemsOf[c] \in Nat
  BY CallsAssumption DEF IInv, Numbered, CallRecord
<1> QED BY <1>1 DEF Flight, Untaken

\* Two items are one when fan-out and number are.
LEMMA SameItem ==
    ASSUME NEW c, NEW d, NEW i, NEW j
    PROVE  <<c, i>> = <<d, j>> <=> c = d /\ i = j
  OBVIOUS

\* A step leaves a fan-out as it was: its record, its items in flight and whether it starts.
\* An abort claims less of it.
LEMMA FanKept ==
    ASSUME NEW c \in Fanouts, Fan(c), call'[c] = call[c], Flight(task', c) = Flight(task, c),
           c \in aborted => c \in aborted', calling' = c <=> calling = c
    PROVE  Fan(c)'
<1>1. Worked(task', c, call'[c], Stopped(c)')
  BY DEF Fan, Worked, Stopped
<1>2. Phased(c, call'[c], calling')
  BY DEF Fan, Phased
<1> QED BY <1>1, <1>2 DEF Fan

\* A turn of a worker's loop touches one item of its own fan-out at most.
LEMMA LoopFlight ==
    ASSUME NEW tk \in [Spawns -> States], NEW c \in Fanouts, NEW cl,
           cl.next \in Nat \ {0}, cl.next = call[c].next, Loop(tk, c, cl)
    PROVE  /\ Takes(c) => Flight(task', c) = Flight(tk, c) \cup {cl.next}
           /\ ~Takes(c) => Flight(task', c) = Flight(tk, c)
           /\ \A d \in Fanouts : d # c => Flight(task', d) = Flight(tk, d)
<1>1. CASE Takes(c)
  <2> DEFINE t == <<c, cl.next>>
  <2>1. cl.next \in 1 .. ItemsOf[c] /\ t \in Spawns
    BY <1>1, ItemsArePairs, CallsAssumption DEF Takes
  <2>2. PICK x \in {"queued", "granted", "running"} : task' = [tk EXCEPT ![t] = x]
    BY <1>1 DEF Loop, Acquire
  <2>3. task'[t] \notin {"none", "over"} /\ \A s \in Spawns : s # t => task'[s] = tk[s]
    BY <2>1, <2>2
  <2>4. \A d \in Fanouts : \A i \in 1 .. ItemsOf[d] :
            /\ <<d, i>> \in Spawns
            /\ <<d, i>> = t <=> d = c /\ i = cl.next
    <3> SUFFICES ASSUME NEW d \in Fanouts, NEW i \in 1 .. ItemsOf[d]
                 PROVE  <<d, i>> \in Spawns /\ (<<d, i>> = t <=> d = c /\ i = cl.next)
      OBVIOUS
    <3>1. <<d, i>> \in Spawns
      BY ItemsArePairs
    <3> QED BY <3>1, SameItem
  <2> HIDE DEF t
  <2>5. Flight(task', c) = Flight(tk, c) \cup {cl.next}
    BY <2>1, <2>3, <2>4 DEF Flight
  <2>6. ASSUME NEW d \in Fanouts, d # c
        PROVE  Flight(task', d) = Flight(tk, d)
    BY <2>3, <2>4, <2>6 DEF Flight
  <2> QED BY <1>1, <2>5, <2>6
<1>2. CASE ~Takes(c)
  <2>1. task' = tk
    BY <1>2 DEF Loop
  <2> QED BY <1>2, <2>1
<1> QED BY <1>1, <1>2

\* A worker between two items, which goes on or returns: tk and cl are the tasks and the call as
\* the step has left them, and the worker is live without an item in flight.
LEMMA LoopWorks ==
    ASSUME IInv, NEW tk \in [Spawns -> States], NEW c \in Fanouts, NEW cl \in CallRecord,
           cl.next = call[c].next, Untaken(tk, call), Loop(tk, c, cl),
           IsFiniteSet(Flight(tk, c)), cl.live = Cardinality(Flight(tk, c)) + 1,
           cl.live <= cl.launched, cl.launched <= LimitOf[c], cl.next <= ItemsOf[c] + 1,
           cl.results \subseteq 1 .. cl.next - 1,
           ~Stopped(c) => /\ cl.results \cup Flight(tk, c) = 1 .. cl.next - 1
                          /\ cl.live < cl.launched => cl.next = ItemsOf[c] + 1
    PROVE  /\ Worked(task', c, call'[c], Stopped(c))
           /\ call'[c] \in [phase : {cl.phase}, next : Nat, launched : {cl.launched}, live : Int,
                            failed : {cl.failed}, results : SUBSET Nat, returned : {cl.returned},
                            saidAborted : {cl.saidAborted}]
           /\ \A d \in Fanouts : d # c => call'[d] = call[d]
<1>0. /\ call \in [Fanouts -> CallRecord] /\ cl.next \in Nat \ {0}
      /\ ItemsOf[c] \in Nat /\ LimitOf[c] \in Nat
      /\ cl.launched \in Nat /\ cl.live \in Int /\ cl.results \subseteq Nat
      /\ Cardinality(Flight(tk, c)) \in Nat
  BY CallsAssumption, FS_CardinalityType DEF IInv, Numbered, CallRecord
<1>1. CASE Takes(c)
  <2>1. PICK cn : cn = [cl EXCEPT !.next = @ + 1]
    OBVIOUS
  <2>2. call' = [call EXCEPT ![c] = cn]
    BY <1>1, <2>1 DEF Loop
  <2>3. /\ cn.next = cl.next + 1 /\ cn.live = cl.live /\ cn.launched = cl.launched
        /\ cn.results = cl.results
        /\ cn \in [phase : {cl.phase}, next : Nat, launched : {cl.launched}, live : Int,
                   failed : {cl.failed}, results : SUBSET Nat, returned : {cl.returned},
                   saidAborted : {cl.saidAborted}]
    BY <1>0, <2>1 DEF CallRecord
  <2>4. call'[c] = cn /\ \A d \in Fanouts : d # c => call'[d] = call[d]
    BY <1>0, <2>2
  <2>5. Flight(task', c) = Flight(tk, c) \cup {cl.next}
    BY <1>0, <1>1, LoopFlight
  <2>6. cl.next \notin Flight(tk, c)
    BY <1>0, FlightTaken
  <2>7. IsFiniteSet(Flight(task', c)) /\ Cardinality(Flight(task', c)) = cn.live
    <3>1. /\ IsFiniteSet(Flight(tk, c) \cup {cl.next})
          /\ Cardinality(Flight(tk, c) \cup {cl.next}) = Cardinality(Flight(tk, c)) + 1
      BY <2>6, FS_AddElement
    <3> QED BY <2>3, <2>5, <3>1
  <2>8. cl.next <= ItemsOf[c] /\ ~Stopped(c)
    BY <1>1 DEF Takes
  <2>9. cl.live = cl.launched
    BY <1>0, <2>8
  <2>10. cn.results \cup Flight(task', c) = 1 .. cn.next - 1
    <3>1. cl.results \cup Flight(tk, c) = 1 .. cl.next - 1
      BY <2>8
    <3>2. 1 .. cn.next - 1 = (1 .. cl.next - 1) \cup {cl.next}
      BY <1>0, <2>3
    <3> QED BY <2>3, <2>5, <3>1, <3>2
  <2>11. cn.next <= ItemsOf[c] + 1 /\ cn.results \subseteq 1 .. cn.next - 1
    BY <1>0, <2>3, <2>8
  <2>12. Worked(task', c, cn, Stopped(c))
    BY <1>0, <2>3, <2>7, <2>9, <2>10, <2>11 DEF Worked
  <2> QED BY <2>3, <2>4, <2>12
<1>2. CASE ~Takes(c)
  <2>1. PICK cn : cn = [cl EXCEPT !.live = @ - 1]
    OBVIOUS
  <2>2. call' = [call EXCEPT ![c] = cn] /\ task' = tk
    BY <1>2, <2>1 DEF Loop
  <2>3. /\ cn.next = cl.next /\ cn.live = cl.live - 1 /\ cn.launched = cl.launched
        /\ cn.results = cl.results
        /\ cn \in [phase : {cl.phase}, next : Nat, launched : {cl.launched}, live : Int,
                   failed : {cl.failed}, results : SUBSET Nat, returned : {cl.returned},
                   saidAborted : {cl.saidAborted}]
    BY <1>0, <2>1 DEF CallRecord
  <2>4. call'[c] = cn /\ \A d \in Fanouts : d # c => call'[d] = call[d]
    BY <1>0, <2>2
  <2>5. Stopped(c) \/ cl.next = ItemsOf[c] + 1
    BY <1>0, <1>2 DEF Takes
  <2>6. Worked(task', c, cn, Stopped(c))
    BY <1>0, <2>2, <2>3, <2>5 DEF Worked
  <2> QED BY <2>3, <2>4, <2>6
<1> QED BY <1>1, <1>2

Over(c, i) == [task EXCEPT ![<<c, i>>] = "over"]

\* An item in flight that is over: one less is in flight.
LEMMA FlightLands ==
    ASSUME IInv, FanInv, NEW c \in Fanouts, NEW i \in 1 .. ItemsOf[c],
           task[<<c, i>>] \in {"done", "failed"},
           NEW tk, tk = Over(c, i)
    PROVE  /\ tk \in [Spawns -> States] /\ Untaken(tk, call)
           /\ Flight(tk, c) = Flight(task, c) \ {i} /\ i \in Flight(task, c)
           /\ IsFiniteSet(Flight(tk, c)) /\ call[c].live = Cardinality(Flight(tk, c)) + 1
           /\ i \in 1 .. call[c].next - 1
           /\ \A d \in Fanouts : d # c => Flight(tk, d) = Flight(task, d)
<1>1. <<c, i>> \in Spawns /\ task \in [Spawns -> States]
  BY ItemsArePairs DEF IInv, Types
<1>2. tk \in [Spawns -> States] /\ tk[<<c, i>>] = "over"
      /\ \A s \in Spawns : s # <<c, i>> => tk[s] = task[s]
  BY <1>1 DEF States, Over
<1>3. \A d \in Fanouts : \A j \in 1 .. ItemsOf[d] :
          <<d, j>> \in Spawns /\ (<<d, j>> = <<c, i>> <=> d = c /\ j = i)
  <2> SUFFICES ASSUME NEW d \in Fanouts, NEW j \in 1 .. ItemsOf[d]
               PROVE  <<d, j>> \in Spawns /\ (<<d, j>> = <<c, i>> <=> d = c /\ j = i)
    OBVIOUS
  <2>1. <<d, j>> \in Spawns
    BY ItemsArePairs
  <2> QED BY <2>1, SameItem
<1>4. Untaken(tk, call)
  BY <1>2, <1>3 DEF IInv, Untaken
<1>5. Flight(tk, c) = Flight(task, c) \ {i} /\ i \in Flight(task, c)
  BY <1>2, <1>3 DEF Flight
<1>6. \A d \in Fanouts : d # c => Flight(tk, d) = Flight(task, d)
  BY <1>2, <1>3 DEF Flight
<1>7. IsFiniteSet(Flight(tk, c)) /\ call[c].live = Cardinality(Flight(tk, c)) + 1
  <2>1. IsFiniteSet(Flight(task, c)) /\ call[c].live = Cardinality(Flight(task, c))
    BY DEF FanInv, Fan, Worked
  <2>2. /\ IsFiniteSet(Flight(task, c) \ {i})
        /\ Cardinality(Flight(task, c) \ {i}) = Cardinality(Flight(task, c)) - 1
    BY <1>5, <2>1, FS_RemoveElement
  <2>3. call[c].live = Cardinality(Flight(task, c) \ {i}) + 1
    <3>1. call[c].live \in Int /\ Cardinality(Flight(task, c) \ {i}) = call[c].live - 1
      BY <2>1, <2>2 DEF IInv, Numbered, CallRecord
    <3> QED BY <3>1
  <2> QED BY <1>5, <2>2, <2>3, Zenon
<1>8. i \in 1 .. call[c].next - 1
  BY <1>5, FlightTaken DEF IInv
<1> QED BY <1>2, <1>4, <1>5, <1>6, <1>7, <1>8
\* At first nothing is in flight.
LEMMA InitFan == Init => FanInv
<1> SUFFICES ASSUME Init PROVE FanInv
  OBVIOUS
<1>1. calling \in Fanouts \cup {None} /\ aborted \subseteq Fanouts \cup Jobs
  BY DEF Init
<1>2. ASSUME NEW c \in Fanouts
      PROVE  Fan(c)
  <2>1. Flight(task, c) = {}
    BY ItemsArePairs DEF Init, Flight
  <2>2. IsFiniteSet(Flight(task, c)) /\ Cardinality(Flight(task, c)) = 0
    BY <2>1, FS_EmptySet
  <2>3. /\ call[c].phase = "idle" /\ call[c].next = 1 /\ call[c].launched = 0
        /\ call[c].live = 0 /\ ~call[c].failed /\ call[c].results = {}
    BY DEF Init
  <2>4. ItemsOf[c] \in Nat /\ LimitOf[c] \in Nat /\ calling # c
    BY CallsAssumption DEF Init
  <2>5. Worked(task, c, call[c], Stopped(c))
    BY <2>1, <2>2, <2>3, <2>4 DEF Worked
  <2>6. Phased(c, call[c], calling)
    BY <2>3, <2>4 DEF Phased
  <2> QED BY <2>5, <2>6 DEF Fan
<1> QED BY <1>1, <1>2 DEF FanInv

\* The call begins.
LEMMA CallFan ==
    ASSUME IInv, FanInv, NEW c \in Fanouts, Call(c)
    PROVE  FanInv'
<1>1. /\ call' = [call EXCEPT ![c].phase = "running"] /\ calling' = c /\ calling = None
      /\ call[c].phase = "idle" /\ UNCHANGED <<task, aborted>>
  BY DEF Call
<1>2. call \in [Fanouts -> CallRecord] /\ LimitOf[c] \in Nat \ {0} /\ None \notin Fanouts
  BY CallsAssumption DEF IInv, Numbered
<1>3. \A d \in Fanouts : d # c => Fan(d)'
  BY <1>1, <1>2, FanKept DEF FanInv, Flight
<1>4. Fan(c)'
  <2>1. /\ call'[c].phase = "running" /\ call'[c].next = call[c].next
        /\ call'[c].launched = call[c].launched /\ call'[c].live = call[c].live
        /\ call'[c].failed = call[c].failed /\ call'[c].results = call[c].results
    BY <1>1, <1>2 DEF CallRecord
  <2>2. Worked(task', c, call'[c], Stopped(c)')
    BY <1>1, <2>1 DEF FanInv, Fan, Worked, Stopped, Flight
  <2>3. call[c].launched = 0
    BY <1>1 DEF FanInv, Fan, Phased
  <2>4. Phased(c, call'[c], calling')
    BY <1>1, <1>2, <2>1, <2>3 DEF Phased
  <2> QED BY <2>2, <2>4 DEF Fan
<1> QED BY <1>1, <1>3, <1>4 DEF FanInv

\* A worker is launched; the call waits once there are enough of them.
LEMMA LaunchFan ==
    ASSUME IInv, FanInv, NEW c \in Fanouts, Launch(c)
    PROVE  FanInv'
<1>1. PICK cl : cl = [call[c] EXCEPT !.launched = @ + 1, !.live = @ + 1]
  OBVIOUS
<1>2. /\ Loop(task, c, cl) /\ calling = c /\ aborted' = aborted
      /\ calling' = IF cl.launched = LimitOf[c] THEN None ELSE c
  BY <1>1 DEF Launch
<1>3. call \in [Fanouts -> CallRecord] /\ LimitOf[c] \in Nat \ {0} /\ None \notin Fanouts
  BY CallsAssumption DEF IInv, Numbered
<1>4. PICK cn : cn = [call[c] EXCEPT !.launched = @ + 1]
  OBVIOUS
<1>5. cn \in CallRecord /\ cl = [cn EXCEPT !.live = @ + 1]
  BY <1>1, <1>3, <1>4 DEF CallRecord
<1>6. /\ cl \in CallRecord
      /\ cl.launched = call[c].launched + 1 /\ cl.live = call[c].live + 1
      /\ cl.next = call[c].next /\ cl.failed = call[c].failed /\ cl.results = call[c].results
      /\ cl.phase = call[c].phase
  <2>1. /\ cn.launched = call[c].launched + 1 /\ cn.live = call[c].live
        /\ cn.next = call[c].next /\ cn.failed = call[c].failed /\ cn.results = call[c].results
        /\ cn.phase = call[c].phase
    BY <1>3, <1>4 DEF CallRecord
  <2>2. /\ cl \in CallRecord
        /\ cl.launched = cn.launched /\ cl.live = cn.live + 1
        /\ cl.next = cn.next /\ cl.failed = cn.failed /\ cl.results = cn.results
        /\ cl.phase = cn.phase
    BY <1>5 DEF CallRecord
  <2> QED BY <2>1, <2>2
<1>7. /\ call[c].phase = "running" /\ call[c].launched < LimitOf[c]
      /\ call[c].launched \in Nat /\ call[c].live \in Int
  BY <1>2, <1>3 DEF FanInv, Fan, Phased, CallRecord
<1>8. Worked(task, c, call[c], Stopped(c))
  BY DEF FanInv, Fan
<1>9. cl.live <= cl.launched /\ cl.launched <= LimitOf[c]
  BY <1>3, <1>6, <1>7, <1>8 DEF Worked
<1>10. cl.live < cl.launched => call[c].live < call[c].launched
  BY <1>6, <1>7
<1>11. IsFiniteSet(Flight(task, c)) /\ cl.live = Cardinality(Flight(task, c)) + 1
  BY <1>6, <1>8 DEF Worked
<1>12. /\ cl.next <= ItemsOf[c] + 1 /\ cl.results \subseteq 1 .. cl.next - 1
       /\ ~Stopped(c) => /\ cl.results \cup Flight(task, c) = 1 .. cl.next - 1
                         /\ cl.live < cl.launched => cl.next = ItemsOf[c] + 1
  BY <1>6, <1>8, <1>10 DEF Worked
<1>13. task \in [Spawns -> States] /\ Untaken(task, call)
  BY DEF IInv, Types
<1>14. /\ Worked(task', c, call'[c], Stopped(c))
       /\ call'[c].phase = "running" /\ call'[c].failed = call[c].failed
       /\ call'[c].launched = cl.launched
       /\ \A d \in Fanouts : d # c => call'[d] = call[d]
  BY <1>2, <1>6, <1>7, <1>9, <1>11, <1>12, <1>13, LoopWorks
<1>15. \A d \in Fanouts : d # c => Flight(task', d) = Flight(task, d)
  <2>1. cl.next \in Nat \ {0}
    BY <1>6 DEF IInv, Numbered, CallRecord
  <2> QED BY <1>2, <1>6, <1>13, <2>1, LoopFlight
<1>16. \A d \in Fanouts : d # c => Fan(d)'
  BY <1>2, <1>3, <1>14, <1>15, FanKept DEF FanInv
<1>17. Fan(c)'
  <2>1. Stopped(c)' <=> Stopped(c)
    BY <1>2, <1>14 DEF Stopped
  <2>2. Worked(task', c, call'[c], Stopped(c)')
    BY <1>14, <2>1 DEF Worked
  <2>3. Phased(c, call'[c], calling')
    BY <1>2, <1>3, <1>6, <1>7, <1>9, <1>14 DEF Phased
  <2> QED BY <2>2, <2>3 DEF Fan
<1> QED BY <1>2, <1>16, <1>17 DEF FanInv

\* The call is answered: all of its workers have returned, or one of them failed.
LEMMA ReturnFan ==
    ASSUME IInv, FanInv, NEW c \in Fanouts, Return(c)
    PROVE  FanInv'
<1> DEFINE ph == IF call[c].failed /\ c \notin aborted THEN "threw" ELSE "returned"
<1>1. /\ call' = [call EXCEPT ![c].phase = ph, ![c].returned = call[c].results,
                              ![c].saidAborted = c \in aborted]
      /\ call[c].phase = "running" /\ Settled(c)
      /\ calling = None /\ UNCHANGED <<task, calling, aborted>>
  BY DEF Return
<1>2. /\ call \in [Fanouts -> CallRecord] /\ None \notin Fanouts
      /\ ItemsOf[c] \in Nat /\ LimitOf[c] \in Nat \ {0}
  BY CallsAssumption DEF IInv, Numbered
<1>3. \A d \in Fanouts : d # c => Fan(d)'
  BY <1>1, <1>2, FanKept DEF FanInv, Flight
<1>4. Fan(c)'
  <2>1. /\ call'[c].phase = ph /\ call'[c].next = call[c].next
        /\ call'[c].launched = call[c].launched /\ call'[c].live = call[c].live
        /\ call'[c].failed = call[c].failed /\ call'[c].results = call[c].results
        /\ call'[c].returned = call[c].results /\ (call'[c].saidAborted <=> c \in aborted)
    BY <1>1, <1>2 DEF CallRecord
  <2>2. Worked(task', c, call'[c], Stopped(c)')
    BY <1>1, <2>1 DEF FanInv, Fan, Worked, Stopped, Flight
  <2>3. call[c].launched = LimitOf[c] /\ (~call[c].failed => call[c].live = 0)
    BY <1>1, <1>2 DEF FanInv, Fan, Phased, Settled
  <2>4. ASSUME ~Stopped(c)
        PROVE  call[c].results = 1 .. ItemsOf[c]
    <3>1. call[c].live = 0 /\ call[c].live < call[c].launched
      BY <1>2, <2>3, <2>4 DEF Stopped
    <3>2. Worked(task, c, call[c], Stopped(c))
      BY DEF FanInv, Fan
    <3>3. Flight(task, c) = {}
      BY <3>1, <3>2, FS_EmptySet DEF Worked
    <3>4. call[c].next - 1 = ItemsOf[c] /\ call[c].results = 1 .. call[c].next - 1
      BY <1>2, <2>4, <3>1, <3>2, <3>3 DEF Worked
    <3> QED BY <3>4
  <2>5. Phased(c, call'[c], calling')
    BY <1>1, <1>2, <2>1, <2>3, <2>4 DEF Phased, Stopped
  <2> QED BY <2>2, <2>5 DEF Fan
<1> QED BY <1>1, <1>3, <1>4 DEF FanInv
\* An item has settled: its worker goes on, or fails the call.
LEMMA ResumesFan ==
    ASSUME IInv, FanInv, NEW s \in Items, Resumes(s)
    PROVE  FanInv'
<1>1. PICK c \in Fanouts : \E i \in 1 .. ItemsOf[c] :
          s = <<c, i>> /\ (Stores(c, i) \/ Swallows(c, i) \/ FailsFast(c, i))
  BY ItemsArePairs DEF Resumes
<1>2. PICK i \in 1 .. ItemsOf[c] :
          s = <<c, i>> /\ (Stores(c, i) \/ Swallows(c, i) \/ FailsFast(c, i))
  BY <1>1
<1>3. PICK tk : tk = Over(c, i)
  OBVIOUS
<1>4. task[<<c, i>>] \in {"done", "failed"} /\ aborted' = aborted /\ calling' = calling
      /\ calling = None
  BY <1>2 DEF Stores, Swallows, FailsFast
<1>5. /\ tk \in [Spawns -> States] /\ Untaken(tk, call)
      /\ Flight(tk, c) = Flight(task, c) \ {i} /\ i \in Flight(task, c)
      /\ IsFiniteSet(Flight(tk, c)) /\ call[c].live = Cardinality(Flight(tk, c)) + 1
      /\ i \in 1 .. call[c].next - 1
      /\ \A d \in Fanouts : d # c => Flight(tk, d) = Flight(task, d)
  BY <1>3, <1>4, FlightLands
<1>6. Worked(task, c, call[c], Stopped(c)) /\ Phased(c, call[c], calling)
  BY DEF FanInv, Fan
<1>7. /\ call \in [Fanouts -> CallRecord] /\ call[c] \in CallRecord /\ call[c].next \in Nat \ {0}
      /\ None \notin Fanouts
  BY CallsAssumption DEF IInv, Numbered, CallRecord
<1>8. call[c].live >= 1 /\ call[c].launched >= 1
  <2>1. Cardinality(Flight(tk, c)) \in Nat
    BY <1>5, FS_CardinalityType
  <2>2. call[c].live \in Int /\ call[c].launched \in Nat /\ call[c].live <= call[c].launched
    BY <1>6, <1>7 DEF Worked, CallRecord
  <2> QED BY <1>5, <2>1, <2>2
\* The worker goes on: cl is the call with the item's result, or without.
<1>9. ASSUME NEW cl \in CallRecord, Loop(tk, c, cl),
             cl.next = call[c].next, cl.live = call[c].live, cl.launched = call[c].launched,
             cl.failed = call[c].failed, cl.phase = call[c].phase,
             cl.returned = call[c].returned, cl.saidAborted = call[c].saidAborted,
             \/ cl.results = call[c].results \cup {i}
             \/ cl.results = call[c].results /\ Stopped(c)
      PROVE  FanInv'
  <2>1. /\ cl.live = Cardinality(Flight(tk, c)) + 1
        /\ cl.live <= cl.launched /\ cl.launched <= LimitOf[c] /\ cl.next <= ItemsOf[c] + 1
        /\ cl.results \subseteq 1 .. cl.next - 1
        /\ ~Stopped(c) => /\ cl.results \cup Flight(tk, c) = 1 .. cl.next - 1
                          /\ cl.live < cl.launched => cl.next = ItemsOf[c] + 1
    BY <1>5, <1>6, <1>9 DEF Worked
  <2>2. /\ Worked(task', c, call'[c], Stopped(c))
        /\ call'[c].phase = call[c].phase /\ call'[c].failed = call[c].failed
        /\ call'[c].launched = call[c].launched
        /\ call'[c].returned = call[c].returned /\ call'[c].saidAborted = call[c].saidAborted
        /\ \A d \in Fanouts : d # c => call'[d] = call[d]
    BY <1>5, <1>9, <2>1, LoopWorks, ZenonT(90)
  <2>3. \A d \in Fanouts : d # c => Flight(task', d) = Flight(task, d)
    BY <1>5, <1>7, <1>9, LoopFlight
  <2>4. \A d \in Fanouts : d # c => Fan(d)'
    BY <1>4, <2>2, <2>3, FanKept DEF FanInv
  <2>5. Stopped(c)' <=> Stopped(c)
    BY <1>4, <2>2 DEF Stopped
  <2>6. Worked(task', c, call'[c], Stopped(c)')
    BY <2>2, <2>5 DEF Worked
  <2>7. Phased(c, call'[c], calling')
    BY <1>4, <1>6, <1>8, <2>2 DEF Phased
  <2> QED BY <1>4, <2>4, <2>6, <2>7 DEF FanInv, Fan
<1>10. CASE Stores(c, i)
  <2>1. PICK cl : cl = [call[c] EXCEPT !.results = @ \cup {i}]
    OBVIOUS
  <2>2. Loop(tk, c, cl)
    BY <1>3, <1>10, <2>1 DEF Stores, Over
  <2>3. /\ cl \in CallRecord
        /\ cl.next = call[c].next /\ cl.live = call[c].live /\ cl.launched = call[c].launched
        /\ cl.failed = call[c].failed /\ cl.phase = call[c].phase
        /\ cl.returned = call[c].returned /\ cl.saidAborted = call[c].saidAborted
        /\ cl.results = call[c].results \cup {i}
    BY <1>7, <2>1 DEF CallRecord
  <2> QED BY <1>9, <2>2, <2>3
<1>11. CASE Swallows(c, i)
  <2>1. PICK cl : cl = call[c]
    OBVIOUS
  <2>2. Loop(tk, c, cl) /\ Stopped(c)
    BY <1>3, <1>11, <2>1 DEF Swallows, Over
  <2> QED BY <1>7, <1>9, <2>1, <2>2
<1>12. CASE FailsFast(c, i)
  <2>1. /\ task' = tk /\ ~Stopped(c)
        /\ call' = [call EXCEPT ![c].failed = TRUE, ![c].live = @ - 1]
    BY <1>3, <1>12 DEF FailsFast, Over
  <2>2. /\ call'[c].phase = call[c].phase /\ call'[c].failed = TRUE
        /\ call'[c].launched = call[c].launched /\ call'[c].live = call[c].live - 1
        /\ call'[c].next = call[c].next /\ call'[c].results = call[c].results
        /\ call'[c].returned = call[c].returned /\ call'[c].saidAborted = call[c].saidAborted
        /\ \A d \in Fanouts : d # c => call'[d] = call[d]
    BY <1>7, <2>1 DEF CallRecord
  <2>3. \A d \in Fanouts : d # c => Fan(d)'
    BY <1>4, <1>5, <2>1, <2>2, FanKept DEF FanInv
  <2>4. Cardinality(Flight(tk, c)) \in Nat /\ call[c].live \in Int /\ call[c].launched \in Nat
    BY <1>5, <1>7, FS_CardinalityType DEF CallRecord
  <2>5. call'[c].live = Cardinality(Flight(task', c)) /\ call'[c].live <= call'[c].launched
    <3>1. call'[c].live = Cardinality(Flight(tk, c))
      BY <1>5, <2>2, <2>4
    <3>2. call'[c].live <= call'[c].launched
      BY <1>6, <2>2, <2>4 DEF Worked
    <3> QED BY <2>1, <3>1, <3>2
  <2>6. Stopped(c)'
    BY <2>2 DEF Stopped
  <2>7. Worked(task', c, call'[c], Stopped(c)')
    BY <1>5, <1>6, <2>1, <2>2, <2>5, <2>6 DEF Worked
  <2>8. Phased(c, call'[c], calling')
    BY <1>4, <1>6, <1>7, <1>8, <2>1, <2>2, <2>4 DEF Phased, Stopped
  <2> QED BY <1>4, <2>3, <2>7, <2>8 DEF FanInv, Fan
<1> QED BY <1>2, <1>10, <1>11, <1>12

\* Every step keeps what is known of the fan-outs; one case per action.
LEMMA NextFan == IInv /\ FanInv /\ [Next]_vars => FanInv'
<1> SUFFICES ASSUME IInv, FanInv, [Next]_vars PROVE FanInv'
  OBVIOUS
<1>t. task \in [Spawns -> States]
  BY DEF IInv, Types
\* The steps of the spawns themselves move no item into flight or out of it.
<1>1. ASSUME \A t \in Items : task'[t] \in {"none", "over"} <=> task[t] \in {"none", "over"},
             call' = call, calling' = calling,
             aborted \subseteq aborted', aborted' \subseteq Fanouts \cup Jobs
      PROVE  FanInv'
  <2>1. \A c \in Fanouts : Flight(task', c) = Flight(task, c)
    BY <1>1, ItemsArePairs DEF Flight
  <2>2. \A c \in Fanouts : Fan(c)'
    BY <1>1, <2>1, FanKept DEF FanInv
  <2> QED BY <1>1, <2>2 DEF FanInv
<1>2. ASSUME NEW c \in Fanouts, Call(c) \/ Launch(c) \/ Return(c)
      PROVE  FanInv'
  BY <1>2, CallFan, LaunchFan, ReturnFan
<1>3. ASSUME NEW s \in Items, Resumes(s)
      PROVE  FanInv'
  BY <1>3, ResumesFan
<1>4. ASSUME NEW s \in Singles, Start(s)
      PROVE  FanInv'
  <2>1. \A t \in Items : task'[t] = task[t]
    BY <1>t, <1>4, CallsAssumption DEF Start, Acquire, Spawns
  <2> QED BY <1>1, <1>4, <2>1 DEF Start, FanInv
<1>5. \A t \in DOMAIN queue : queue[t] \in Spawns /\ task[queue[t]] = "queued"
  BY PermittedAreSpawns DEF IInv, Counted, WaitingOf
<1>6. ASSUME NEW p \in Spawns, task[p] \in {"granted", "running"},
             NEW x \in {"done", "failed", "over"}, x = "over" => p \notin Items,
             Release([task EXCEPT ![p] = x])
      PROVE  \A t \in Items : task'[t] \in {"none", "over"} <=> task[t] \in {"none", "over"}
  <2>1. CASE queue # <<>>
    <3>1. Head(queue) \in Spawns /\ task[Head(queue)] = "queued"
      <4>1. 1 \in DOMAIN queue /\ Head(queue) = queue[1]
        BY <2>1 DEF IInv, Types
      <4> QED BY <1>5, <4>1
    <3>2. task' = [[task EXCEPT ![p] = x] EXCEPT ![Head(queue)] = "granted"]
      BY <1>6, <2>1 DEF Release
    <3> QED BY <1>t, <1>6, <3>1, <3>2 DEF Spawns
  <2>2. CASE queue = <<>>
    <3>1. task' = [task EXCEPT ![p] = x]
      BY <1>6, <2>2 DEF Release
    <3> QED BY <1>t, <1>6, <3>1 DEF Spawns
  <2> QED BY <2>1, <2>2
<1>7. ASSUME NEW s \in Spawns, Run(s)
      PROVE  FanInv'
  <2>1. \A t \in Items : task'[t] \in {"none", "over"} <=> task[t] \in {"none", "over"}
    BY <1>t, <1>7 DEF Run, Spawns
  <2> QED BY <1>1, <1>7, <2>1 DEF Run, FanInv
<1>8. ASSUME NEW s \in Spawns, AbortedBeforeRun(s)
      PROVE  FanInv'
  <2>1. s \notin Items /\ task[s] = "granted" /\ Release([task EXCEPT ![s] = "over"])
    BY <1>8, CallsAssumption DEF AbortedBeforeRun
  <2>2. \A t \in Items : task'[t] \in {"none", "over"} <=> task[t] \in {"none", "over"}
    BY <1>6, <2>1
  <2> QED BY <1>1, <1>8, <2>2 DEF AbortedBeforeRun, FanInv
<1>9. ASSUME NEW s \in Spawns, NEW outcome \in {"done", "failed"}, End(s, outcome)
      PROVE  FanInv'
  <2>1. PICK x \in {"done", "failed", "over"} : x = IF s \in Singles THEN "over" ELSE outcome
    OBVIOUS
  <2>2. x = "over" => s \notin Items
    BY <2>1, CallsAssumption
  <2>3. Release([task EXCEPT ![s] = x]) \/ task' = [task EXCEPT ![s] = x]
    BY <1>9, <2>1 DEF End
  <2>4. task[s] = "running"
    BY <1>9 DEF End
  <2>5. \A t \in Items : task'[t] \in {"none", "over"} <=> task[t] \in {"none", "over"}
    <3>1. CASE Release([task EXCEPT ![s] = x])
      BY <1>6, <2>2, <2>4, <3>1
    <3>2. CASE task' = [task EXCEPT ![s] = x]
      BY <1>t, <2>2, <2>4, <3>2 DEF Spawns
    <3> QED BY <2>3, <3>1, <3>2
  <2> QED BY <1>1, <1>9, <2>5 DEF End, FanInv
<1>10. ASSUME NEW x \in Gated \cup Jobs, Abort(x)
       PROVE  FanInv'
  <2>1. aborted \subseteq aborted' /\ aborted' \subseteq Fanouts \cup Jobs
    BY <1>10, CallsAssumption DEF Abort, FanInv
  <2> QED BY <1>1, <1>10, <2>1 DEF Abort
<1>11. CASE UNCHANGED vars
  BY <1>1, <1>11 DEF vars, FanInv
<1> QED
  BY <1>2, <1>3, <1>4, <1>7, <1>8, <1>9, <1>10, <1>11 DEF Next, Progress, Finishes

\* For any number of items and workers, and whatever fails or is aborted meanwhile, what a
\* call of mapWithConcurrencyLimit returns is true: see TruthfulReturn.
THEOREM TruthfulReturnAlways == Spec => []TruthfulReturn
<1>1. ASSUME IInv, FanInv PROVE TypeOK
  <2>1. current \in 0 .. Max
    BY <1>1, MaxAssumption DEF IInv, Types, Counted
  <2>2. ASSUME NEW c \in Fanouts
        PROVE  /\ call[c].launched <= LimitOf[c] /\ call[c].live \in 0 .. call[c].launched
               /\ call[c].results \subseteq 1 .. call[c].next - 1
               /\ call[c].next <= ItemsOf[c] + 1
    <3>1. Worked(task, c, call[c], Stopped(c)) /\ call[c].launched \in Nat
      BY <1>1 DEF FanInv, Fan, IInv, Numbered, CallRecord
    <3>2. call[c].live \in Nat
      BY <3>1, FS_CardinalityType DEF Worked
    <3> QED BY <3>1, <3>2 DEF Worked
  <2> QED BY <1>1, <2>1, <2>2 DEF TypeOK, IInv, FanInv, Types, Numbered
<1>2. ASSUME FanInv, NEW c \in Fanouts
      PROVE  /\ call[c].phase = "returned" /\ ~call[c].saidAborted
                    => call[c].returned = 1 .. ItemsOf[c]
             /\ call[c].phase = "returned" /\ ~call[c].failed =>
                    \A i \in 1 .. ItemsOf[c] : task[<<c, i>>] \in {"none", "over"}
             /\ call[c].phase = "threw" => call[c].failed /\ ~call[c].saidAborted
  <2>1. Worked(task, c, call[c], Stopped(c)) /\ Phased(c, call[c], calling)
    BY <1>2 DEF FanInv, Fan
  <2>2. ASSUME call[c].live = 0
        PROVE  \A i \in 1 .. ItemsOf[c] : task[<<c, i>>] \in {"none", "over"}
    <3>1. Flight(task, c) = {}
      BY <2>1, <2>2, FS_EmptySet DEF Worked
    <3> QED BY <3>1 DEF Flight
  <2> QED BY <2>1, <2>2 DEF Phased
<1>3. IInv /\ FanInv => TruthfulReturn
  BY <1>1, <1>2 DEF TruthfulReturn
<1> QED BY <1>3, InitIInv, NextIInv, InitFan, NextFan, PTL DEF Spec
=============================================================================
