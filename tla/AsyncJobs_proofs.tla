---------------------------- MODULE AsyncJobs_proofs ---------------------------
(***************************************************************************)
(* Background jobs for any number of runs, ids, agents and pollers, and    *)
(* eviction timers that fire at any moment.                                *)
(***************************************************************************)
EXTENDS AsyncJobs, FiniteSetTheorems, SequenceTheorems, TLAPS

\* No run of rs has two deliveries in the queue.
Once(ds, rs) == \A j, k \in DOMAIN ds : ds[j].run = ds[k].run /\ ds[j].run \in rs => j = k

\* The result of a run of rs is in one place at most: the queue, onJobComplete or the yield queue.
Copies(ds, fl, en, rs) ==
    /\ Once(ds, rs)
    /\ \A d \in ToSet(ds), e \in fl \cup en : d.run \in rs => d.run # e.run
    /\ \A d, e \in fl \cup en : d.run = e.run /\ d.run \in rs => d = e
    /\ \A d \in fl \cap en : d.run \notin rs

CleanRuns == {r \in Runs : Clean(r)}
Carried == ToSet(deliveries) \cup inFlight \cup entries
Live(r) == \E d \in Carried : d.run = r

\* The job of a run is registered under the run's id.
Known(r) == id[r] \in Ids /\ jobs[id[r]] = r

\* Someone may still look the run up by its id.
InUse(r) ==
    \/ r \in pending \/ fg[r] = "waiting" \/ Live(r)
    \/ \E p \in Pollers : poll[p] = r

JobsOK ==
    /\ \A i \in Ids : jobs[i] # None => id[jobs[i]] = i /\ status[jobs[i]] # "none"
    /\ \A r \in Runs : status[r] = "none" => id[r] = None
    /\ \A r \in Runs : status[r] # "none" => id[r] \in Ids /\ owner[r] \in Owners
    /\ \A r \in lost : status[r] # "none" /\ ~Clean(r)
    /\ \A r \in Runs : status[r] = "running" => disposal = "no" \/ r \in lost
    /\ \A r \in pending : status[r] \in {"running", "cancelled"}
    /\ \A r \in Runs : fg[r] # "no" => status[r] # "none"
    /\ \A p \in Pollers : poll[p] # None => status[poll[p]] # "none"
    /\ \A i \in watched : \E p \in Pollers : poll[p] # None /\ id[poll[p]] = i
    /\ disposal = "done" => pending \subseteq lost /\ \A i \in Ids : jobs[i] = None

UseOK ==
    disposal # "done" => /\ \A r \in pending \ lost : Known(r)
                         /\ \A r \in Runs : InUse(r) /\ Clean(r) => Known(r)
                         /\ \A r \in Runs : fg[r] = "waiting" /\ Clean(r) => id[r] \in suppressed

HandedOK ==
    /\ \A r \in handed : status[r] # "none" /\ (fg[r] = "waiting" => status[r] # "running")
    /\ disposal # "done" =>
          \A r \in handed : Clean(r) /\ (Live(r) \/ status[r] = "running") => id[r] \in suppressed

CountsOK ==
    /\ \A r \in Runs : enq[r] = 0 => shown[r] = 0 /\ ~Live(r)
    /\ \A r \in Runs : enq[r] # 0 => status[r] \in {"completed", "failed"}
    /\ \A r \in CleanRuns :
          /\ enq[r] \in {0, 1} /\ shown[r] \in 0 .. enq[r]
          /\ enq[r] = 1 => fg[r] # "waiting"
          /\ Live(r) => shown[r] = 0

LimitOK == IsFiniteSet({r \in Runs : status[r] # "none"}) /\ WithinLimit

Inv ==
    /\ TypeOK /\ JobsOK /\ UseOK /\ HandedOK /\ CountsOK /\ LimitOK
    /\ Copies(deliveries, inFlight, entries, CleanRuns) /\ DeliveredToOwner

-----------------------------------------------------------------------------
(* Queues of deliveries.                                                   *)

\* What is left after a removal: some of the queue, no run twice.
Subqueue(ds, es) ==
    /\ es \in Seq(Delivery) /\ ToSet(es) \subseteq ToSet(ds)
    /\ \A rs : Once(ds, rs) => Once(es, rs)

\* A queue made of increasing positions of another.
LEMMA PickedSubqueue ==
    ASSUME NEW ds \in Seq(Delivery), NEW n \in Nat, NEW f \in [1 .. n -> DOMAIN ds],
           \A j, k \in 1 .. n : f[j] = f[k] => j = k
    PROVE  Subqueue(ds, [k \in 1 .. n |-> ds[f[k]]])
<1> DEFINE es == [k \in 1 .. n |-> ds[f[k]]]
<1>1. \A k \in DOMAIN ds : ds[k] \in Delivery
  OBVIOUS
<1>2. es \in [1 .. n -> Delivery] /\ DOMAIN es = 1 .. n
  BY <1>1
<1>3. es \in Seq(Delivery)
  BY <1>2
<1>4. \A k \in 1 .. n : es[k] = ds[f[k]] /\ f[k] \in DOMAIN ds
  OBVIOUS
<1> HIDE DEF es
<1>5. ToSet(es) \subseteq ToSet(ds)
  BY <1>2, <1>4 DEF ToSet
<1>6. ASSUME NEW rs, Once(ds, rs)
      PROVE  Once(es, rs)
  <2> SUFFICES ASSUME NEW j \in 1 .. n, NEW k \in 1 .. n, es[j].run = es[k].run, es[j].run \in rs
               PROVE  j = k
    BY <1>2 DEF Once
  <2>1. f[j] = f[k]
    BY <1>4, <1>6 DEF Once
  <2> QED BY <2>1
<1>7. Subqueue(ds, es)
  BY <1>3, <1>5, <1>6 DEF Subqueue
<1> QED BY <1>7 DEF es

\* A step that drops deliveries leaves those of other ids.
LEMMA DropLeaves ==
    ASSUME TypeOK, NEW is, DropDeliveries(is)
    PROVE  Subqueue(deliveries, deliveries')
<1> DEFINE kept == {k \in DOMAIN deliveries : id[deliveries[k].run] \notin is}
<1>1. PICK f \in [1 .. Cardinality(kept) -> kept] :
          /\ \A j, k \in DOMAIN f : j < k => f[j] < f[k]
          /\ deliveries' = [k \in DOMAIN f |-> deliveries[f[k]]]
  BY DEF DropDeliveries
<1>2. IsFiniteSet(kept) /\ Cardinality(kept) \in Nat
  <2>1. deliveries \in Seq(Delivery) /\ DOMAIN deliveries = 1 .. Len(deliveries)
        /\ Len(deliveries) \in Nat
    BY DEF TypeOK
  <2>2. IsFiniteSet(1 .. Len(deliveries))
    <3>1. 1 \in Int /\ Len(deliveries) \in Int
      BY <2>1
    <3> QED BY <3>1, FS_Interval
  <2>3. kept \subseteq 1 .. Len(deliveries)
    BY <2>1
  <2>4. IsFiniteSet(kept)
    BY <2>2, <2>3, FS_Subset
  <2> QED BY <2>4, FS_CardinalityType
<1>3. kept \subseteq DOMAIN deliveries /\ DOMAIN deliveries \subseteq Nat /\ DOMAIN f = 1 .. Cardinality(kept)
      /\ deliveries \in Seq(Delivery)
  BY DEF TypeOK
<1> DEFINE n == Cardinality(kept)
<1>4. f \in [1 .. n -> DOMAIN deliveries] /\ n \in Nat
  BY <1>1, <1>2, <1>3
<1>5. \A j, k \in 1 .. n : j < k => f[j] < f[k]
  BY <1>1, <1>3
<1>6. deliveries' = [k \in 1 .. n |-> deliveries[f[k]]]
  BY <1>1, <1>3
<1> HIDE DEF n, kept
<1>7. \A j, k \in 1 .. n : f[j] = f[k] => j = k
  <2>1. \A j \in 1 .. n : f[j] \in Nat
    BY <1>3, <1>4
  <2> QED BY <1>4, <1>5, <2>1
<1> QED BY <1>3, <1>4, <1>6, <1>7, PickedSubqueue

\* A part of the queue.
LEMMA Slice ==
    ASSUME NEW ds \in Seq(Delivery), NEW m \in 1 .. Len(ds) + 1, NEW n \in m - 1 .. Len(ds)
    PROVE  /\ SubSeq(ds, m, n) \in Seq(Delivery) /\ Len(SubSeq(ds, m, n)) = n - m + 1
           /\ \A j \in 1 .. n - m + 1 : SubSeq(ds, m, n)[j] = ds[m + j - 1]
<1>1. m \in Int /\ n \in Int /\ Len(ds) \in Nat
  OBVIOUS
<1>2. \A j \in m .. n : ds[j] \in Delivery
  <2>1. \A j \in m .. n : j \in 1 .. Len(ds)
    BY <1>1
  <2> QED BY <2>1
<1>3. /\ SubSeq(ds, m, n) \in Seq(Delivery)
      /\ Len(SubSeq(ds, m, n)) = IF m <= n THEN n - m + 1 ELSE 0
      /\ \A j \in 1 .. n - m + 1 : SubSeq(ds, m, n)[j] = ds[m + j - 1]
  BY <1>1, <1>2, SubSeqProperties
<1> QED BY <1>1, <1>3

\* Taking one delivery out, wherever it is.
LEMMA RemoveLeaves ==
    ASSUME NEW ds \in Seq(Delivery), NEW k \in DOMAIN ds
    PROVE  /\ Subqueue(ds, RemoveAt(ds, k)) /\ ds[k] \in ToSet(ds)
           /\ \A rs : Once(ds, rs) /\ ds[k].run \in rs => \A d \in ToSet(RemoveAt(ds, k)) : d.run # ds[k].run
<1> DEFINE es == RemoveAt(ds, k)
           n == Len(ds) - 1
           f == [j \in 1 .. n |-> IF j < k THEN j ELSE j + 1]
<1>1. Len(ds) \in Nat /\ DOMAIN ds = 1 .. Len(ds) /\ k \in 1 .. Len(ds) /\ n \in Nat
  OBVIOUS
<1>2. es = [j \in 1 .. n |-> ds[f[j]]]
  <2>1. PICK a, b : a = SubSeq(ds, 1, k - 1) /\ b = SubSeq(ds, k + 1, Len(ds))
    OBVIOUS
  <2> HIDE DEF es, f, n
  <2>2. /\ a \in Seq(Delivery) /\ Len(a) = k - 1
        /\ \A j \in 1 .. k - 1 : a[j] = ds[j]
    <3>1. 1 \in 1 .. Len(ds) + 1 /\ k - 1 \in 1 - 1 .. Len(ds)
      BY <1>1
    <3>2. /\ a \in Seq(Delivery) /\ Len(a) = (k - 1) - 1 + 1
          /\ \A j \in 1 .. (k - 1) - 1 + 1 : a[j] = ds[1 + j - 1]
      BY <2>1, <3>1, Slice
    <3>3. (k - 1) - 1 + 1 = k - 1 /\ \A j \in 1 .. k - 1 : 1 + j - 1 = j
      BY <1>1
    <3> QED BY <3>2, <3>3
  <2>3. /\ b \in Seq(Delivery) /\ Len(b) = Len(ds) - k
        /\ \A j \in 1 .. Len(ds) - k : b[j] = ds[j + k]
    <3>1. k + 1 \in 1 .. Len(ds) + 1 /\ Len(ds) \in (k + 1) - 1 .. Len(ds)
      BY <1>1
    <3>2. /\ b \in Seq(Delivery) /\ Len(b) = Len(ds) - (k + 1) + 1
          /\ \A j \in 1 .. Len(ds) - (k + 1) + 1 : b[j] = ds[(k + 1) + j - 1]
      BY <2>1, <3>1, Slice
    <3>3. Len(ds) - (k + 1) + 1 = Len(ds) - k /\ \A j \in 1 .. Len(ds) - k : (k + 1) + j - 1 = j + k
      BY <1>1
    <3> QED BY <3>2, <3>3
  <2>4. /\ a \o b \in Seq(Delivery) /\ Len(a \o b) = n
        /\ \A j \in 1 .. n : (a \o b)[j] = IF j <= k - 1 THEN a[j] ELSE b[j - (k - 1)]
    <3>1. /\ a \o b \in Seq(Delivery) /\ Len(a \o b) = Len(a) + Len(b)
          /\ \A j \in 1 .. Len(a) + Len(b) :
                 (a \o b)[j] = IF j <= Len(a) THEN a[j] ELSE b[j - Len(a)]
      BY <2>2, <2>3, ConcatProperties, Zenon
    <3>2. Len(a) = k - 1 /\ Len(a) + Len(b) = n
      BY <1>1, <2>2, <2>3 DEF n
    <3> QED BY <3>1, <3>2, Zenon
  <2>5. es = a \o b
    BY <2>1 DEF es, RemoveAt
  <2>6. \A j \in 1 .. n : f[j] = IF j <= k - 1 THEN j ELSE j + 1
    BY <1>1 DEF f
  <2>7. \A j \in 1 .. n : es[j] = ds[f[j]]
    <3>1. ASSUME NEW j \in 1 .. n, j <= k - 1
          PROVE  es[j] = ds[f[j]]
      <4>1. j \in 1 .. k - 1
        BY <1>1, <3>1
      <4> QED BY <2>2, <2>4, <2>5, <2>6, <3>1, <4>1, Zenon
    <3>2. ASSUME NEW j \in 1 .. n, ~(j <= k - 1)
          PROVE  es[j] = ds[f[j]]
      <4>1. j - (k - 1) \in 1 .. Len(ds) - k /\ (j - (k - 1)) + k = j + 1
        BY <1>1, <3>2 DEF n
      <4>2. es[j] = b[j - (k - 1)] /\ f[j] = j + 1
        BY <2>4, <2>5, <2>6, <3>2, Zenon
      <4> QED BY <2>3, <4>1, <4>2, Zenon
    <3> QED BY <3>1, <3>2
  <2>8. es = [j \in 1 .. n |-> es[j]]
    <3>1. es \in Seq(Delivery) /\ Len(es) = n
      BY <2>4, <2>5, Zenon
    <3> QED BY <3>1
  <2> QED BY <2>7, <2>8
<1>3. f \in [1 .. n -> DOMAIN ds] /\ \A j \in 1 .. n : f[j] # k
  BY <1>1
<1>4. \A i, j \in 1 .. n : f[i] = f[j] => i = j
  BY <1>1
<1>5. DOMAIN es = 1 .. n /\ \A j \in 1 .. n : es[j] = ds[f[j]]
  BY <1>2
<1>6. Subqueue(ds, [j \in 1 .. n |-> ds[f[j]]])
  <2> HIDE DEF f, n
  <2> QED BY <1>1, <1>3, <1>4, PickedSubqueue
<1>7. Subqueue(ds, es)
  BY <1>2, <1>6
<1>8. \A rs : Once(ds, rs) /\ ds[k].run \in rs => \A d \in ToSet(es) : d.run # ds[k].run
  <2> HIDE DEF es, f, n
  <2> QED BY <1>3, <1>5 DEF Once, ToSet
<1>9. ds[k] \in ToSet(ds)
  BY DEF ToSet
<1> QED BY <1>7, <1>8, <1>9

\* Taking the first one out.
LEMMA TailLeaves ==
    ASSUME NEW ds \in Seq(Delivery), ds # <<>>
    PROVE  /\ Subqueue(ds, Tail(ds)) /\ Head(ds) \in ToSet(ds)
           /\ \A rs : Once(ds, rs) /\ Head(ds).run \in rs => \A d \in ToSet(Tail(ds)) : d.run # Head(ds).run
<1> DEFINE es == Tail(ds)
           n == Len(ds) - 1
           f == [j \in 1 .. n |-> j + 1]
<1>1. Len(ds) \in Nat \ {0} /\ DOMAIN ds = 1 .. Len(ds) /\ Head(ds) = ds[1] /\ n \in Nat
  OBVIOUS
<1>2. DOMAIN es = 1 .. n /\ \A j \in 1 .. n : es[j] = ds[f[j]]
  BY <1>1
<1>3. es \in Seq(Delivery) /\ es = [j \in 1 .. n |-> es[j]]
  <2>1. es \in Seq(Delivery) /\ Len(es) = n
    BY HeadTailProperties
  <2> HIDE DEF es, f
  <2> QED BY <1>1, <2>1
<1>4. f \in [1 .. n -> DOMAIN ds] /\ \A j \in 1 .. n : f[j] # 1
  BY <1>1
<1>5. \A i, j \in 1 .. n : f[i] = f[j] => i = j
  BY <1>1
<1> HIDE DEF es, f, n
<1>6. Subqueue(ds, [j \in 1 .. n |-> ds[f[j]]])
  BY <1>1, <1>4, <1>5, PickedSubqueue
<1>7. es = [j \in 1 .. n |-> ds[f[j]]]
  BY <1>2, <1>3
<1>8. \A rs : Once(ds, rs) /\ ds[1].run \in rs => \A d \in ToSet(es) : d.run # ds[1].run
  BY <1>1, <1>2, <1>4 DEF Once, ToSet
<1>9. ds[1] \in ToSet(ds)
  BY <1>1 DEF ToSet
<1> QED BY <1>1, <1>6, <1>7, <1>8, <1>9 DEF es

\* One more joins the end.
LEMMA AppendJoins ==
    ASSUME NEW ds \in Seq(Delivery), NEW d \in Delivery
    PROVE  /\ Append(ds, d) \in Seq(Delivery) /\ ToSet(Append(ds, d)) = ToSet(ds) \cup {d}
           /\ \A rs : Once(ds, rs) /\ (d.run \in rs => \A e \in ToSet(ds) : e.run # d.run)
                        => Once(Append(ds, d), rs)
<1> DEFINE es == Append(ds, d)
<1>1. /\ Len(ds) \in Nat /\ DOMAIN ds = 1 .. Len(ds) /\ DOMAIN es = 1 .. Len(ds) + 1
      /\ es[Len(ds) + 1] = d /\ \A k \in 1 .. Len(ds) : es[k] = ds[k]
      /\ es \in Seq(Delivery)
  OBVIOUS
<1> HIDE DEF es
<1>2. ToSet(es) = ToSet(ds) \cup {d}
  <2>1. \A k \in DOMAIN es : k \in DOMAIN ds \/ k = Len(ds) + 1
    BY <1>1
  <2>2. DOMAIN ds \subseteq DOMAIN es /\ Len(ds) + 1 \in DOMAIN es
    BY <1>1
  <2> QED BY <1>1, <2>1, <2>2 DEF ToSet
<1>3. \A rs : Once(ds, rs) /\ (d.run \in rs => \A e \in ToSet(ds) : e.run # d.run) => Once(es, rs)
  BY <1>1 DEF Once, ToSet
<1> QED BY <1>1, <1>2, <1>3 DEF es

-----------------------------------------------------------------------------
(* What a step does to the deliveries: it keeps or drops them, queues one  *)
(* for a run that has none, or shows one.                                  *)

Keeps ==
    /\ Carried' \subseteq Carried /\ Copies(deliveries', inFlight', entries', CleanRuns)
    /\ deliveries' \in Seq(Delivery) /\ inFlight' \subseteq Delivery /\ entries' \subseteq Delivery
    /\ UNCHANGED <<enq, shown>>

Queues(r) ==
    /\ status[r] # "none" /\ status'[r] \in {"completed", "failed"}
    /\ r \in CleanRuns => /\ ~Live(r) /\ enq[r] = 0 /\ r \notin handed /\ InUse(r)
                          /\ disposal # "done" /\ fg'[r] # "waiting"
    /\ \E d \in Delivery : /\ d.run = r /\ (r \notin lost => d.owner = owner[r])
                           /\ deliveries' = Append(deliveries, d)
    /\ enq' = [enq EXCEPT ![r] = @ + 1]
    /\ UNCHANGED <<inFlight, entries, shown>>

Shows(d) ==
    /\ d \in entries /\ ~Suppressed(id[d.run])
    /\ entries' = entries \ {d}
    /\ shown' = [shown EXCEPT ![d.run] = @ + 1]
    /\ UNCHANGED <<deliveries, inFlight, enq, job, marks, callers, disposal, late>>

\* Nothing is delivered.
LEMMA KeepsAll ==
    ASSUME Inv, UNCHANGED <<deliveries, inFlight, entries, enq, shown>>
    PROVE  Keeps
  BY DEF Inv, TypeOK, Keeps, Carried

\* Some of the queue is dropped.
LEMMA KeepsSome ==
    ASSUME Inv, Subqueue(deliveries, deliveries'), UNCHANGED <<inFlight, entries, enq, shown>>
    PROVE  Keeps
<1>1. Copies(deliveries', inFlight', entries', CleanRuns)
  BY DEF Inv, Copies, Subqueue
<1> QED BY <1>1 DEF Inv, TypeOK, Keeps, Carried, Subqueue

\* A delivery of the queue is handed to onJobComplete.
LEMMA KeepsTaken ==
    ASSUME Inv, NEW d \in ToSet(deliveries), Subqueue(deliveries, deliveries'),
           d.run \in CleanRuns => \A e \in ToSet(deliveries') : e.run # d.run,
           inFlight' = inFlight \cup {d}, UNCHANGED <<entries, enq, shown>>
    PROVE  Keeps
<1>1. d \in Delivery
  BY DEF Inv, TypeOK, ToSet
<1>2. Copies(deliveries', inFlight', entries', CleanRuns)
  <2>1. Once(deliveries', CleanRuns) /\ ToSet(deliveries') \subseteq ToSet(deliveries)
    BY DEF Inv, Copies, Subqueue
  <2>2. d.run \in CleanRuns => \A e \in inFlight \cup entries : e.run # d.run
    BY DEF Inv, Copies
  <2>3. \A e \in inFlight' \cup entries' : e = d \/ e \in inFlight \cup entries
    OBVIOUS
  <2>4. \A x \in ToSet(deliveries'), e \in inFlight' \cup entries' : x.run \in CleanRuns => x.run # e.run
    BY <2>1, <2>3 DEF Inv, Copies
  <2>5. \A x, e \in inFlight' \cup entries' : x.run = e.run /\ x.run \in CleanRuns => x = e
    BY <2>2, <2>3 DEF Inv, Copies
  <2>6. \A x \in inFlight' \cap entries' : x.run \notin CleanRuns
    BY <2>2 DEF Inv, Copies
  <2> QED BY <2>1, <2>4, <2>5, <2>6 DEF Copies
<1> QED BY <1>1, <1>2 DEF Inv, TypeOK, Keeps, Carried, Subqueue

\* onJobComplete puts the result into the yield queue, drops it, or throws.
LEMMA DeliverKeeps ==
    ASSUME Inv, NEW d \in inFlight, Deliver(d)
    PROVE  Keeps
<1>0. /\ deliveries \in Seq(Delivery) /\ inFlight \subseteq Delivery /\ entries \subseteq Delivery
      /\ Copies(deliveries, inFlight, entries, CleanRuns) /\ d \in Delivery
  BY DEF Inv, TypeOK
<1>1. CASE DeliverySucceeds(d)
  <2>1. /\ inFlight' = inFlight \ {d} /\ entries' \in {entries, entries \cup {d}}
        /\ UNCHANGED <<deliveries, enq, shown>>
    BY <1>1 DEF DeliverySucceeds
  <2>2. inFlight' \cup entries' \subseteq inFlight \cup entries
        /\ \A x \in inFlight' \cap entries' : x.run \notin CleanRuns
    BY <1>0, <2>1 DEF Copies
  <2>3. Copies(deliveries', inFlight', entries', CleanRuns)
    BY <1>0, <2>1, <2>2 DEF Copies
  <2> QED BY <1>0, <2>1, <2>2, <2>3 DEF Keeps, Carried
<1>2. CASE DeliveryFails(d)
  <2>1. /\ inFlight' = inFlight \ {d} /\ entries' = entries
        /\ deliveries' \in {deliveries, Append(deliveries, d)} /\ UNCHANGED <<enq, shown>>
    BY <1>2 DEF DeliveryFails
  <2>2. d.run \in CleanRuns => \A e \in ToSet(deliveries) : e.run # d.run
    BY <1>0 DEF Copies
  <2>3. /\ deliveries' \in Seq(Delivery) /\ Once(deliveries', CleanRuns)
        /\ ToSet(deliveries') \subseteq ToSet(deliveries) \cup {d}
    BY <1>0, <2>1, <2>2, AppendJoins DEF Copies
  <2>4. \A e \in inFlight' \cup entries' :
            e \in inFlight \cup entries /\ (d.run \in CleanRuns => e.run # d.run)
    BY <1>0, <2>1 DEF Copies
  <2>5. \A x \in ToSet(deliveries'), e \in inFlight' \cup entries' : x.run \in CleanRuns => x.run # e.run
    BY <1>0, <2>3, <2>4 DEF Copies
  <2>6. Copies(deliveries', inFlight', entries', CleanRuns)
    BY <1>0, <2>1, <2>3, <2>4, <2>5 DEF Copies
  <2> QED BY <1>0, <2>1, <2>3, <2>6 DEF Keeps, Carried
<1> QED BY <1>1, <1>2 DEF Deliver

\* A clean run that is not over is not lost, has reported nothing, and is suppressed while the tool
\* that started it waits and once a tool has its result.
LEMMA RunningClean ==
    ASSUME Inv, NEW r \in Runs, Clean(r), status[r] = "running"
    PROVE  /\ r \notin lost /\ disposal = "no" /\ InUse(r) /\ Known(r)
           /\ enq[r] = 0 /\ ~Live(r)
           /\ r \in handed \/ fg[r] = "waiting" => id[r] \in suppressed
<1>1. r \notin lost /\ disposal = "no"
  BY DEF Inv, JobsOK
<1>2. r \in pending
  BY DEF Inv, TypeOK
<1>3. InUse(r) /\ Known(r)
  BY <1>1, <1>2 DEF Inv, UseOK, InUse
<1>4. enq[r] = 0 /\ ~Live(r)
  BY DEF Inv, CountsOK
<1> QED BY <1>1, <1>3, <1>4 DEF Inv, UseOK, HandedOK

\* A run that settles or is sent to the background queues one delivery at most, for its owner.
LEMMA EnqueueQueues ==
    ASSUME Inv, NEW r \in Runs, status[r] = "running", r \in pending,
           Enqueue(r), status'[r] \in {"completed", "failed"}, fg' = fg,
           UNCHANGED <<inFlight, entries, shown>>
    PROVE  Keeps \/ Queues(r)
<1>1. CASE Suppressed(id[r])
  <2>1. UNCHANGED <<deliveries, enq>>
    BY <1>1 DEF Enqueue
  <2> QED BY <2>1, KeepsAll
<1>2. CASE ~Suppressed(id[r])
  <2> DEFINE found == jobs[id[r]]
  <2>1. PICK d : d = [run |-> r, n |-> enq[r] + 1,
                      owner |-> IF found = None THEN None ELSE owner[found]]
    OBVIOUS
  <2>2. deliveries' = Append(deliveries, d) /\ enq' = [enq EXCEPT ![r] = @ + 1]
    BY <1>2, <2>1 DEF Enqueue
  <2>3. id[r] \in Ids /\ found \in Runs \cup {None}
    BY DEF Inv, JobsOK, TypeOK
  <2>4. d \in Delivery /\ d.run = r
    BY <2>1, <2>3 DEF Delivery, Inv, TypeOK
  <2>5. ASSUME r \notin lost
        PROVE  d.owner = owner[r]
    <3>1. disposal = "no"
      BY <2>5 DEF Inv, JobsOK
    <3>2. found = r /\ r # None
      BY <2>5, <3>1, SetsAssumption DEF Inv, UseOK, Known
    <3> QED BY <2>1, <3>2
  <2>6. r \in CleanRuns => /\ ~Live(r) /\ enq[r] = 0 /\ r \notin handed /\ InUse(r)
                           /\ disposal # "done" /\ fg'[r] # "waiting"
    BY <1>2, RunningClean DEF CleanRuns, Suppressed
  <2> HIDE DEF found
  <2> QED BY <2>2, <2>4, <2>5, <2>6 DEF Queues
<1> QED BY <1>1, <1>2

LEMMA TimesOutQueues ==
    ASSUME Inv, NEW r \in Runs, ForegroundTimesOut(r)
    PROVE  Keeps \/ \E s \in Runs : Queues(s)
<1>1. /\ fg[r] = "waiting" /\ (r \in pending \/ r \notin handed)
      /\ fg' = [fg EXCEPT ![r] = "backgrounded"]
      /\ UNCHANGED <<status, inFlight, entries, shown>>
  BY DEF ForegroundTimesOut, job
<1>2. CASE UNCHANGED <<deliveries, enq>>
  BY <1>1, <1>2, KeepsAll
<1>3. CASE ~UNCHANGED <<deliveries, enq>>
  <2> DEFINE found == jobs[id[r]]
  <2>1. /\ id[r] \in suppressed /\ found # None /\ status[found] \in {"completed", "failed"}
        /\ deliveries' = Append(deliveries,
                                [run |-> found, n |-> enq[found] + 1, owner |-> owner[found]])
        /\ enq' = [enq EXCEPT ![found] = @ + 1]
    BY <1>3 DEF ForegroundTimesOut
  <2>2. status[r] # "none" /\ id[r] \in Ids
    BY <1>1 DEF Inv, JobsOK
  <2>3. found \in Runs /\ id[found] = id[r] /\ disposal # "done"
    BY <2>1, <2>2 DEF Inv, JobsOK, TypeOK
  <2>4. PICK d : d = [run |-> found, n |-> enq[found] + 1, owner |-> owner[found]]
    OBVIOUS
  <2>5. d \in Delivery /\ d.run = found /\ d.owner = owner[found]
    BY <2>3, <2>4 DEF Delivery, Inv, TypeOK
  <2>6. ASSUME found \in CleanRuns
        PROVE  /\ ~Live(found) /\ enq[found] = 0 /\ found \notin handed /\ InUse(found)
               /\ disposal # "done" /\ fg'[found] # "waiting"
    <3>1. Clean(r) /\ InUse(r)
      BY <1>1, <2>3, <2>6 DEF CleanRuns, Clean, InUse
    <3>2. found = r
      BY <2>3, <3>1 DEF Inv, UseOK, Known
    <3>3. r \notin pending
      BY <2>1, <3>2 DEF Inv, JobsOK
    <3>4. enq[r] = 0
      BY <1>1, <2>6, <3>2 DEF Inv, CountsOK
    <3>5. ~Live(r)
      BY <3>4 DEF Inv, CountsOK
    <3>6. fg'[r] = "backgrounded"
      BY <1>1 DEF Inv, TypeOK
    <3> QED BY <1>1, <2>3, <3>1, <3>2, <3>3, <3>4, <3>5, <3>6
  <2> HIDE DEF found
  <2>7. status[found] # "none" /\ status'[found] \in {"completed", "failed"}
    BY <1>1, <2>1
  <2>8. Queues(found)
    BY <1>1, <2>1, <2>4, <2>5, <2>6, <2>7 DEF Queues
  <2> QED BY <2>3, <2>8
<1> QED BY <1>2, <1>3

\* Every step is one of these.
LEMMA ChannelStep ==
    ASSUME Inv, [Next]_vars
    PROVE  Keeps \/ (\E r \in Runs : Queues(r)) \/ (\E d \in entries : Shows(d))
<1> DEFINE Moves == Keeps \/ (\E r \in Runs : Queues(r)) \/ (\E d \in entries : Shows(d))
<1> SUFFICES Moves
  OBVIOUS
<1> HIDE DEF Moves
<1>m. Keeps => Moves
  BY DEF Moves
<1>t. TypeOK /\ deliveries \in Seq(Delivery) /\ Once(deliveries, CleanRuns)
  BY DEF Inv, TypeOK, Copies
<1>1. ASSUME NEW r \in Runs, \/ Register(r) \/ ForegroundAborts(r) \/ MarkRunning(r)
                             \/ SettleCancelled(r) \/ ForegroundReturns(r)
      PROVE  Moves
  BY <1>m, <1>1, KeepsAll DEF Register, ForegroundAborts, MarkRunning, SettleCancelled,
     ForegroundReturns, channel
<1>2. ASSUME NEW i \in Ids, Cancel(i) \/ EvictionTimer(i)
      PROVE  Moves
  BY <1>m, <1>2, KeepsAll DEF Cancel, EvictionTimer, channel
<1>3. ASSUME NEW o \in Owners, CancelAllOf(o)
      PROVE  Moves
  BY <1>m, <1>3, KeepsAll DEF CancelAllOf, channel
<1>4. ASSUME NEW p \in Pollers, NEW i \in Ids, PollStarts(p, i)
      PROVE  Moves
  BY <1>m, <1>4, KeepsAll DEF PollStarts, channel
<1>5. CASE DisposeBegins \/ LoopResumes \/ LoopExits
  BY <1>m, <1>5, KeepsAll DEF DisposeBegins, LoopResumes, LoopExits, channel
<1>6. ASSUME NEW r \in Runs, RegisterForeground(r)
      PROVE  Moves
  <2>1. \E i \in Ids : DropDeliveries(suppressed' \cup watched)
    BY <1>6 DEF RegisterForeground
  <2>2. Subqueue(deliveries, deliveries')
    BY <1>t, <2>1, DropLeaves
  <2> QED BY <1>m, <1>6, <2>2, KeepsSome DEF RegisterForeground
<1>7. ASSUME NEW r, NEW i, Report(r, i), UNCHANGED <<inFlight, entries, enq, shown>>
      PROVE  Moves
  <2>1. UNCHANGED deliveries \/ DropDeliveries(suppressed' \cup watched')
    BY <1>7 DEF Report, Acknowledge
  <2> QED BY <1>m, <1>t, <1>7, <2>1, DropLeaves, KeepsSome, KeepsAll
<1>8. ASSUME NEW p \in Pollers, PollReturns(p)
      PROVE  Moves
  BY <1>7, <1>8 DEF PollReturns
<1>9. ASSUME NEW i \in Ids, PollFinished(i)
      PROVE  Moves
  BY <1>7, <1>9 DEF PollFinished
<1>10. CASE LoopTop
  <2>1. deliveries' = deliveries \/ (deliveries # <<>> /\ deliveries' = Tail(deliveries))
    BY <1>10 DEF LoopTop
  <2>2. UNCHANGED <<inFlight, entries, enq, shown>>
    BY <1>10 DEF LoopTop
  <2> QED BY <1>m, <1>t, <2>1, <2>2, TailLeaves, KeepsSome, KeepsAll
<1>11. CASE LoopWakes
  <2>1. UNCHANGED <<entries, enq, shown>>
    BY <1>11 DEF LoopWakes
  <2>2. \/ UNCHANGED <<deliveries, inFlight>>
        \/ /\ deliveries # <<>> /\ cur = Head(deliveries) /\ deliveries' = Tail(deliveries)
           /\ inFlight' = inFlight \/ inFlight' = inFlight \cup {cur}
    BY <1>11 DEF LoopWakes
  <2> QED BY <1>m, <1>t, <2>1, <2>2, TailLeaves, KeepsSome, KeepsAll, KeepsTaken
<1>12. ASSUME NEW o \in Owners, DrainTakes(o)
       PROVE  Moves
  <2>1. PICK k \in DOMAIN deliveries :
            deliveries' = RemoveAt(deliveries, k) /\ inFlight' = inFlight \cup {deliveries[k]}
    BY <1>12 DEF DrainTakes
  <2>2. UNCHANGED <<entries, enq, shown>>
    BY <1>12 DEF DrainTakes
  <2> QED BY <1>m, <1>t, <2>1, <2>2, RemoveLeaves, KeepsTaken
<1>13. ASSUME NEW d \in inFlight, Deliver(d)
       PROVE  Moves
  BY <1>m, <1>13, DeliverKeeps
<1>14. ASSUME NEW r \in Runs, Succeed(r) \/ FailRun(r)
       PROVE  Moves
  <2>1. /\ status[r] = "running" /\ r \in pending /\ status'[r] \in {"completed", "failed"}
        /\ fg' = fg /\ UNCHANGED <<inFlight, entries, shown>>
    BY <1>t, <1>14 DEF Succeed, FailRun, callers, TypeOK
  <2>2. Enqueue(r) \/ UNCHANGED <<deliveries, enq>>
    BY <1>14 DEF Succeed, FailRun
  <2>3. CASE Enqueue(r)
    BY <2>1, <2>3, EnqueueQueues DEF Moves
  <2>4. CASE UNCHANGED <<deliveries, enq>>
    BY <1>m, <2>1, <2>4, KeepsAll
  <2> QED BY <2>2, <2>3, <2>4
<1>15. ASSUME NEW r \in Runs, ForegroundTimesOut(r)
       PROVE  Moves
  BY <1>15, TimesOutQueues DEF Moves
<1>16. ASSUME NEW d \in entries, ShowEntry(d)
       PROVE  Moves
  <2>1. CASE Suppressed(id[d.run])
    <3>1. entries' = entries \ {d} /\ UNCHANGED <<deliveries, inFlight, enq, shown>>
      BY <1>16, <2>1 DEF ShowEntry
    <3>2. Copies(deliveries', inFlight', entries', CleanRuns)
      BY <3>1 DEF Inv, Copies
    <3> QED BY <1>m, <3>1, <3>2 DEF Keeps, Carried, Inv, TypeOK
  <2>2. CASE ~Suppressed(id[d.run])
    BY <1>16, <2>2 DEF ShowEntry, Shows, Moves
  <2> QED BY <2>1, <2>2
<1>17. CASE DisposeEnds
  <2>1. deliveries' = <<>> /\ UNCHANGED <<inFlight, entries, enq, shown>>
    BY <1>17 DEF DisposeEnds
  <2>2. Subqueue(deliveries, <<>>)
    BY DEF Subqueue, ToSet, Once
  <2> QED BY <1>m, <2>1, <2>2, KeepsSome
<1>18. CASE UNCHANGED vars
  BY <1>m, <1>18, KeepsAll DEF vars, channel
<1> QED
  BY <1>1, <1>2, <1>3, <1>4, <1>5, <1>6, <1>8, <1>9, <1>10, <1>11, <1>12, <1>13, <1>14,
     <1>15, <1>16, <1>17, <1>18 DEF Next, CallerStep, LoopStep, RunStep

-----------------------------------------------------------------------------
(* Types, and the registry of jobs.                                        *)

JobTypes ==
    /\ jobs \in [Ids -> Runs \cup {None}]
    /\ id \in [Runs -> Ids \cup {None}]
    /\ owner \in [Runs -> Owners \cup {None}]
    /\ status \in [Runs -> Statuses]
    /\ queued \subseteq Runs /\ silent \subseteq Runs /\ pending \subseteq Runs
    /\ {r \in Runs : status[r] = "running"} \subseteq pending
    /\ suppressed \subseteq Ids /\ watched \subseteq Ids /\ timers \subseteq Ids
    /\ fg \in [Runs -> {"no", "waiting", "returned", "backgrounded", "aborted"}]
    /\ poll \in [Pollers -> Runs \cup {None}]
    /\ disposal \in {"no", "closing", "done"}
    /\ handed \subseteq Runs /\ marked \subseteq Runs /\ lost \subseteq Runs /\ overtaken \subseteq Ids

\* Registering a run that is not known yet under an id that is free.
LEMMA RegisterJobs ==
    ASSUME Inv, NEW r \in Runs, Register(r) \/ RegisterForeground(r)
    PROVE  JobTypes' /\ JobsOK'
<1>1. PICK i \in Ids : RegisterAs(r, i) /\ suppressed' \subseteq suppressed \cup {i}
  BY DEF Register, RegisterForeground
<1>2. PICK o \in Owners : owner' = [owner EXCEPT ![r] = o]
  BY <1>1 DEF RegisterAs
<1>3. /\ disposal = "no" /\ status[r] = "none" /\ jobs[i] = None
      /\ jobs' = [jobs EXCEPT ![i] = r] /\ id' = [id EXCEPT ![r] = i]
      /\ status' = [status EXCEPT ![r] = "running"] /\ pending' = pending \cup {r}
  BY <1>1 DEF RegisterAs, FreeIds
<1>4. /\ fg' \in {fg, [fg EXCEPT ![r] = "waiting"]}
      /\ queued' \in {queued, queued \cup {r}} /\ silent' \in {silent, silent \cup {r}}
      /\ UNCHANGED <<watched, timers, poll, handed, marked, disposal, late>>
  BY DEF Register, RegisterForeground, callers
<1>5. JobTypes /\ JobsOK
  BY DEF Inv, TypeOK, JobTypes
<1>6. JobTypes'
  BY <1>1, <1>2, <1>3, <1>4, <1>5 DEF JobTypes, Statuses, late
<1>7. JobsOK'
  <2>1. r # None /\ r \notin pending /\ \A p \in Pollers : poll[p] # r
    BY <1>3, <1>5, SetsAssumption DEF JobsOK
  <2>2. \A x \in Runs : x # r => id'[x] = id[x] /\ owner'[x] = owner[x] /\ status'[x] = status[x]
    BY <1>2, <1>3, <1>5 DEF JobTypes
  <2>3. id'[r] = i /\ owner'[r] = o /\ status'[r] = "running"
    BY <1>2, <1>3, <1>5 DEF JobTypes
  <2>4. jobs'[i] = r /\ \A j \in Ids : j # i => jobs'[j] = jobs[j]
    BY <1>3, <1>5 DEF JobTypes
  <2>5. \A j \in Ids : jobs[j] # r
    BY <1>3, <1>5, <2>1 DEF JobsOK
  <2>6. \A j \in Ids : jobs'[j] # None => id'[jobs'[j]] = j /\ status'[jobs'[j]] # "none"
    BY <1>5, <2>2, <2>3, <2>4, <2>5 DEF JobsOK, JobTypes
  <2>7. \A x \in Runs : status'[x] # "none" => id'[x] \in Ids /\ owner'[x] \in Owners
    BY <1>5, <2>2, <2>3 DEF JobsOK
  <2>8. \A x \in pending' : status'[x] \in {"running", "cancelled"}
    BY <1>3, <1>5, <2>2, <2>3 DEF JobsOK, JobTypes
  <2>9. \A x \in Runs : fg'[x] # "no" => status'[x] # "none"
    BY <1>4, <1>5, <2>2, <2>3 DEF JobsOK, JobTypes
  <2>10. \A p \in Pollers : poll'[p] # None => status'[poll'[p]] # "none"
    BY <1>4, <1>5, <2>1, <2>2 DEF JobsOK, JobTypes
  <2>11. \A j \in watched' : \E p \in Pollers : poll'[p] # None /\ id'[poll'[p]] = j
    BY <1>4, <1>5, <2>1, <2>2 DEF JobsOK, JobTypes
  <2>12. disposal' = "no" /\ \A x \in Runs : status'[x] = "none" => id'[x] = None
    BY <1>3, <1>4, <1>5, <2>2, <2>3 DEF JobsOK
  <2>13. \A x \in lost' : status'[x] # "none" /\ id'[x] \in overtaken'
    <3> SUFFICES ASSUME NEW x \in lost PROVE status'[x] # "none" /\ id'[x] \in overtaken
      BY <1>4 DEF late
    <3>1. x \in Runs /\ status[x] # "none" /\ id[x] \in overtaken
      BY <1>5 DEF JobsOK, JobTypes, Clean
    <3> QED BY <1>3, <2>2, <3>1
  <2> QED
    BY <2>6, <2>7, <2>8, <2>9, <2>10, <2>11, <2>12, <2>13 DEF JobsOK, Clean
<1> QED BY <1>6, <1>7

\* Cancelling running jobs.
LEMMA CancelJobs ==
    ASSUME Inv, NEW rs, CancelRuns(rs),
           fg' \in [Runs -> {"no", "waiting", "returned", "backgrounded", "aborted"}],
           \A x \in Runs : fg'[x] # "no" => fg[x] # "no",
           UNCHANGED <<jobs, id, owner, queued, silent, pending, marked, suppressed, watched,
                       poll, handed, disposal, late>>
    PROVE  JobTypes' /\ JobsOK'
<1>1. JobTypes /\ JobsOK
  BY DEF Inv, TypeOK, JobTypes
<1>2. /\ status' \in [Runs -> Statuses]
      /\ \A x \in Runs : \/ status'[x] = status[x]
                         \/ status[x] = "running" /\ status'[x] = "cancelled"
  BY <1>1 DEF CancelRuns, RunningJobs, JobTypes, Statuses
<1>3. timers' \subseteq Ids
  BY <1>1 DEF CancelRuns, ScheduleEviction, RunningJobs, Registered, JobTypes, JobsOK
<1>4. JobTypes'
  BY <1>1, <1>2, <1>3 DEF JobTypes, late
<1>5. JobsOK'
  <2>1. \A x \in Runs : status'[x] # "none" <=> status[x] # "none"
    BY <1>2
  <2>2. \A j \in Ids : jobs'[j] # None => id'[jobs'[j]] = j /\ status'[jobs'[j]] # "none"
    BY <1>1, <2>1 DEF JobsOK, JobTypes
  <2>3. \A p \in Pollers : poll'[p] # None => status'[poll'[p]] # "none"
    BY <1>1, <2>1 DEF JobsOK, JobTypes
  <2>4. \A x \in pending' : status'[x] \in {"running", "cancelled"}
    BY <1>1, <1>2 DEF JobsOK, JobTypes
  <2>5. \A x \in Runs : status'[x] = "running" => disposal' = "no" \/ x \in lost'
    BY <1>1, <1>2 DEF JobsOK, late
  <2>6. \A x \in Runs : fg'[x] # "no" => status'[x] # "none"
    BY <1>1, <2>1 DEF JobsOK
  <2>7. \A x \in Runs : status'[x] # "none" => id'[x] \in Ids /\ owner'[x] \in Owners
    BY <1>1, <2>1 DEF JobsOK
  <2>8. /\ \A x \in Runs : status'[x] = "none" => id'[x] = None
        /\ \A x \in lost' : status'[x] # "none" /\ id'[x] \in overtaken'
    BY <1>1, <2>1 DEF JobsOK, JobTypes, Clean, late
  <2> QED BY <1>1, <2>2, <2>3, <2>4, <2>5, <2>6, <2>7, <2>8 DEF JobsOK, Clean, late
<1> QED BY <1>4, <1>5

\* A run settles.
LEMMA SettleJobs ==
    ASSUME Inv, NEW r \in Runs, SettleCancelled(r) \/ Succeed(r) \/ FailRun(r)
    PROVE  JobTypes' /\ JobsOK'
<1>1. JobTypes /\ JobsOK
  BY DEF Inv, TypeOK, JobTypes
<1>2. /\ r \in pending /\ pending' = pending \ {r} /\ timers' = timers \cup {id[r]}
      /\ UNCHANGED <<jobs, id, owner, queued, silent, marked, suppressed, watched, callers, disposal,
                     late>>
  BY DEF SettleCancelled, Succeed, FailRun, ScheduleEviction
<1>3. /\ status' \in [Runs -> Statuses] /\ status'[r] \in {"completed", "failed", "cancelled"}
      /\ \A x \in Runs : x # r => status'[x] = status[x]
  BY <1>1 DEF SettleCancelled, Succeed, FailRun, JobTypes, Statuses
<1>4. status[r] # "none" /\ id[r] \in Ids
  BY <1>1, <1>2 DEF JobsOK, JobTypes
<1>5. JobTypes'
  BY <1>1, <1>2, <1>3, <1>4 DEF JobTypes, callers, late
<1>6. JobsOK'
  <2>1. \A x \in Runs : status'[x] # "none" <=> status[x] # "none"
    BY <1>3, <1>4
  <2>2. \A j \in Ids : jobs'[j] # None => id'[jobs'[j]] = j /\ status'[jobs'[j]] # "none"
    BY <1>1, <1>2, <2>1 DEF JobsOK, JobTypes
  <2>3. \A p \in Pollers : poll'[p] # None => status'[poll'[p]] # "none"
    BY <1>1, <1>2, <2>1 DEF JobsOK, JobTypes, callers
  <2>4. \A x \in pending' : status'[x] \in {"running", "cancelled"}
    BY <1>1, <1>2, <1>3 DEF JobsOK, JobTypes
  <2>5. \A x \in Runs : status'[x] = "running" => disposal' = "no" \/ x \in lost'
    BY <1>1, <1>2, <1>3 DEF JobsOK, late
  <2>6. \A x \in Runs : fg'[x] # "no" => status'[x] # "none"
    BY <1>1, <1>2, <2>1 DEF JobsOK, callers
  <2>7. \A x \in Runs : status'[x] # "none" => id'[x] \in Ids /\ owner'[x] \in Owners
    BY <1>1, <1>2, <2>1 DEF JobsOK
  <2>8. \A j \in watched' : \E p \in Pollers : poll'[p] # None /\ id'[poll'[p]] = j
    BY <1>1, <1>2 DEF JobsOK, callers
  <2>9. disposal' = "done" => pending' \subseteq lost' /\ \A j \in Ids : jobs'[j] = None
    BY <1>1, <1>2 DEF JobsOK, late
  <2>10. /\ \A x \in Runs : status'[x] = "none" => id'[x] = None
         /\ \A x \in lost' : status'[x] # "none" /\ id'[x] \in overtaken'
    BY <1>1, <1>2, <2>1 DEF JobsOK, JobTypes, Clean, late
  <2> QED BY <2>2, <2>3, <2>4, <2>5, <2>6, <2>7, <2>8, <2>9, <2>10 DEF JobsOK, Clean
<1> QED BY <1>5, <1>6

\* Tool calls that wait for a job begin and end.
LEMMA CallerJobs ==
    ASSUME Inv,
           UNCHANGED <<job, timers, disposal, late>>,
           fg' \in [Runs -> {"no", "waiting", "returned", "backgrounded", "aborted"}],
           \A x \in Runs : fg'[x] # "no" => fg[x] # "no",
           poll' \in [Pollers -> Runs \cup {None}],
           \A p \in Pollers : poll'[p] # None => status[poll'[p]] # "none",
           \A j \in watched' : j \in Ids /\ \E p \in Pollers : poll'[p] # None /\ id[poll'[p]] = j,
           suppressed' \subseteq Ids, handed' \subseteq Runs
    PROVE  JobTypes' /\ JobsOK'
<1>1. JobTypes /\ JobsOK
  BY DEF Inv, TypeOK, JobTypes
<1>2. JobTypes'
  BY <1>1 DEF JobTypes, job, late
<1>3. JobsOK'
  BY <1>1 DEF JobsOK, job, late, Clean
<1> QED BY <1>2, <1>3

LEMMA ReportTypes ==
    ASSUME Inv, NEW r \in Runs, NEW i \in Ids, Report(r, i)
    PROVE  suppressed' \subseteq Ids /\ handed' \subseteq Runs
<1>1. JobTypes
  BY DEF Inv, TypeOK, JobTypes
<1> QED BY <1>1 DEF Report, Acknowledge, JobTypes

\* Every step keeps the registry in order; one case per action.
LEMMA JobsStep ==
    ASSUME Inv, [Next]_vars
    PROVE  JobTypes' /\ JobsOK'
<1> DEFINE Kept == JobTypes' /\ JobsOK'
<1> SUFFICES Kept
  OBVIOUS
<1> HIDE DEF Kept
<1>t. JobTypes /\ JobsOK
  BY DEF Inv, TypeOK, JobTypes
<1>1. ASSUME NEW r \in Runs, Register(r) \/ RegisterForeground(r)
      PROVE  Kept
  BY <1>1, RegisterJobs DEF Kept
<1>2. ASSUME NEW r \in Runs, SettleCancelled(r) \/ Succeed(r) \/ FailRun(r)
      PROVE  Kept
  BY <1>2, SettleJobs DEF Kept
<1>3. ASSUME NEW r \in Runs, MarkRunning(r)
      PROVE  Kept
  BY <1>t, <1>3 DEF Kept, MarkRunning, marks, callers, late, JobTypes, JobsOK, Clean
<1>4. ASSUME NEW rs, CancelRuns(rs),
             UNCHANGED <<jobs, id, owner, queued, silent, pending, marked, suppressed, watched,
                         callers, disposal, late>>
      PROVE  Kept
  BY <1>t, <1>4, CancelJobs DEF Kept, callers, JobTypes
<1>5. ASSUME NEW i \in Ids, Cancel(i)
      PROVE  Kept
  BY <1>4, <1>5 DEF Cancel
<1>6. ASSUME NEW o \in Owners, CancelAllOf(o)
      PROVE  Kept
  BY <1>4, <1>6 DEF CancelAllOf
<1>7. ASSUME NEW r \in Runs, ForegroundAborts(r)
      PROVE  Kept
  <2>1. /\ fg' = [fg EXCEPT ![r] = "aborted"] /\ fg[r] = "waiting"
        /\ CancelRuns({jobs[id[r]]})
        /\ UNCHANGED <<jobs, id, owner, queued, silent, pending, marked, suppressed, watched,
                       poll, handed, disposal, late>>
    BY <1>7 DEF ForegroundAborts
  <2>2. /\ fg' \in [Runs -> {"no", "waiting", "returned", "backgrounded", "aborted"}]
        /\ \A x \in Runs : fg'[x] # "no" => fg[x] # "no"
    BY <1>t, <2>1 DEF JobTypes
  <2> QED BY <2>1, <2>2, CancelJobs DEF Kept
<1>8. ASSUME NEW i \in Ids, EvictionTimer(i)
      PROVE  Kept
  <2>1. /\ jobs' = [jobs EXCEPT ![i] = None] /\ timers' = timers \ {i}
        /\ suppressed' = suppressed \ {i} /\ watched' = watched \ {i}
        /\ lost' = lost \cup {r \in pending : id[r] = i}
        /\ overtaken' = IF Busy(i) THEN overtaken \cup {i} ELSE overtaken
        /\ UNCHANGED <<id, owner, status, queued, silent, pending, marked, callers, disposal>>
    BY <1>8 DEF EvictionTimer
  <2>2. JobTypes'
    BY <1>t, <2>1 DEF JobTypes, callers
  <2>3. \A j \in Ids : jobs'[j] # None => jobs'[j] = jobs[j]
    BY <1>t, <2>1 DEF JobTypes
  <2>4. \A j \in Ids : jobs'[j] = None \/ jobs'[j] = jobs[j]
    BY <2>3
  <2>5. \A r \in lost' : status'[r] # "none" /\ id'[r] \in overtaken'
    <3>1. ASSUME NEW r \in pending, id[r] = i
          PROVE  status[r] # "none" /\ id[r] \in overtaken'
      <4>1. Busy(i) /\ status[r] # "none"
        BY <1>t, <3>1 DEF Busy, JobsOK, JobTypes
      <4> QED BY <2>1, <3>1, <4>1
    <3>2. ASSUME NEW r \in lost
          PROVE  status[r] # "none" /\ id[r] \in overtaken'
      BY <1>t, <2>1, <3>2 DEF JobsOK, Clean
    <3> QED BY <2>1, <3>1, <3>2
  <2>6. disposal' = "done" => pending' \subseteq lost'
    BY <1>t, <2>1 DEF JobsOK
  <2>7. \A r \in Runs : status'[r] = "running" => disposal' = "no" \/ r \in lost'
    BY <1>t, <2>1 DEF JobsOK
  <2>8. JobsOK'
    BY <1>t, <2>1, <2>4, <2>5, <2>6, <2>7 DEF JobsOK, Clean, callers
  <2> QED BY <2>2, <2>8 DEF Kept
<1>9. ASSUME NEW r \in Runs, ForegroundReturns(r) \/ ForegroundTimesOut(r)
      PROVE  Kept
  <2>1. /\ fg[r] = "waiting" /\ \E x \in {"returned", "backgrounded"} : fg' = [fg EXCEPT ![r] = x]
        /\ handed' \subseteq handed \cup {r} /\ suppressed' \subseteq suppressed
        /\ UNCHANGED <<job, watched, timers, poll, disposal, late>>
    BY <1>9 DEF ForegroundReturns, ForegroundTimesOut, marks
  <2>2. /\ fg' \in [Runs -> {"no", "waiting", "returned", "backgrounded", "aborted"}]
        /\ \A x \in Runs : fg'[x] # "no" => fg[x] # "no"
        /\ suppressed' \subseteq Ids /\ handed' \subseteq Runs
    BY <1>t, <2>1 DEF JobTypes
  <2>3. /\ poll' \in [Pollers -> Runs \cup {None}]
        /\ \A p \in Pollers : poll'[p] # None => status[poll'[p]] # "none"
        /\ \A j \in watched' : j \in Ids /\ \E p \in Pollers : poll'[p] # None /\ id[poll'[p]] = j
    BY <1>t, <2>1 DEF JobTypes, JobsOK
  <2> QED BY <2>1, <2>2, <2>3, CallerJobs DEF Kept
<1>10. ASSUME NEW p \in Pollers, NEW i \in Ids, PollStarts(p, i)
       PROVE  Kept
  <2>1. /\ poll[p] = None /\ jobs[i] # None
        /\ poll' = [poll EXCEPT ![p] = jobs[i]] /\ watched' = watched \cup {i}
        /\ UNCHANGED <<job, suppressed, timers, fg, handed, disposal, late>>
    BY <1>10 DEF PollStarts
  <2>2. jobs[i] \in Runs /\ id[jobs[i]] = i /\ status[jobs[i]] # "none"
    BY <1>t, <2>1 DEF JobTypes, JobsOK
  <2>3. poll'[p] = jobs[i] /\ \A q \in Pollers : q # p => poll'[q] = poll[q]
    BY <1>t, <2>1 DEF JobTypes
  <2>4. /\ poll' \in [Pollers -> Runs \cup {None}]
        /\ \A q \in Pollers : poll'[q] # None => status[poll'[q]] # "none"
    BY <1>t, <2>1, <2>2, <2>3 DEF JobTypes, JobsOK
  <2>5. \A j \in watched' : j \in Ids /\ \E q \in Pollers : poll'[q] # None /\ id[poll'[q]] = j
    <3>1. ASSUME NEW j \in watched
          PROVE  j \in Ids /\ \E q \in Pollers : poll'[q] # None /\ id[poll'[q]] = j
      <4>1. PICK q \in Pollers : poll[q] # None /\ id[poll[q]] = j
        BY <1>t, <3>1 DEF JobsOK
      <4>2. q # p
        BY <2>1, <4>1
      <4> QED BY <1>t, <2>3, <4>1, <4>2 DEF JobTypes
    <3> QED BY <2>1, <2>2, <2>3, <3>1
  <2>6. /\ fg' \in [Runs -> {"no", "waiting", "returned", "backgrounded", "aborted"}]
        /\ suppressed' \subseteq Ids /\ handed' \subseteq Runs
    BY <1>t, <2>1 DEF JobTypes
  <2> QED BY <2>1, <2>4, <2>5, <2>6, CallerJobs DEF Kept
<1>11. ASSUME NEW p \in Pollers, PollReturns(p)
       PROVE  Kept
  <2>1. /\ poll[p] # None /\ poll' = [poll EXCEPT ![p] = None]
        /\ watched' = watched \ {id[poll[p]]} /\ Report(poll[p], id[poll[p]])
        /\ UNCHANGED <<job, timers, fg, disposal, late>>
    BY <1>11 DEF PollReturns
  <2>2. poll[p] \in Runs /\ status[poll[p]] # "none" /\ id[poll[p]] \in Ids
    BY <1>t, <2>1 DEF JobTypes, JobsOK
  <2>3. poll'[p] = None /\ \A q \in Pollers : q # p => poll'[q] = poll[q]
    BY <1>t, <2>1 DEF JobTypes
  <2>4. /\ poll' \in [Pollers -> Runs \cup {None}]
        /\ \A q \in Pollers : poll'[q] # None => status[poll'[q]] # "none"
    BY <1>t, <2>1, <2>3 DEF JobTypes, JobsOK
  <2>5. \A j \in watched' : j \in Ids /\ \E q \in Pollers : poll'[q] # None /\ id[poll'[q]] = j
    <3> SUFFICES ASSUME NEW j \in watched'
                 PROVE  j \in Ids /\ \E q \in Pollers : poll'[q] # None /\ id[poll'[q]] = j
      OBVIOUS
    <3>1. PICK q \in Pollers : poll[q] # None /\ id[poll[q]] = j
      BY <1>t, <2>1 DEF JobsOK
    <3> QED BY <1>t, <2>1, <2>3, <3>1 DEF JobTypes
  <2>6. fg' \in [Runs -> {"no", "waiting", "returned", "backgrounded", "aborted"}]
        /\ suppressed' \subseteq Ids /\ handed' \subseteq Runs
    BY <1>t, <2>1, <2>2, ReportTypes DEF JobTypes
  <2> QED BY <2>1, <2>4, <2>5, <2>6, CallerJobs DEF Kept
<1>12. ASSUME NEW i \in Ids, PollFinished(i)
       PROVE  Kept
  <2>1. /\ jobs[i] # None /\ Report(jobs[i], i)
        /\ UNCHANGED <<job, timers, watched, fg, poll, disposal, late>>
    BY <1>12 DEF PollFinished
  <2>2. suppressed' \subseteq Ids /\ handed' \subseteq Runs
    BY <1>t, <2>1, ReportTypes DEF JobTypes
  <2>3. /\ fg' \in [Runs -> {"no", "waiting", "returned", "backgrounded", "aborted"}]
        /\ poll' \in [Pollers -> Runs \cup {None}]
        /\ \A p \in Pollers : poll'[p] # None => status[poll'[p]] # "none"
        /\ \A j \in watched' : j \in Ids /\ \E p \in Pollers : poll'[p] # None /\ id[poll'[p]] = j
    BY <1>t, <2>1 DEF JobTypes, JobsOK
  <2> QED BY <2>1, <2>2, <2>3, CallerJobs DEF Kept
<1>13. CASE UNCHANGED <<job, marks, callers, disposal, late>>
  BY <1>t, <1>13 DEF Kept, job, marks, callers, late, JobTypes, JobsOK, Clean
<1>14. CASE LoopTop \/ LoopWakes \/ LoopResumes \/ LoopExits
  BY <1>13, <1>14 DEF LoopTop, LoopWakes, LoopResumes, LoopExits
<1>15. ASSUME NEW o \in Owners, DrainTakes(o)
       PROVE  Kept
  BY <1>13, <1>15 DEF DrainTakes
<1>16. ASSUME NEW d, Deliver(d) \/ ShowEntry(d)
       PROVE  Kept
  BY <1>13, <1>16 DEF Deliver, DeliverySucceeds, DeliveryFails, ShowEntry
<1>17. CASE DisposeBegins
  <2>1. /\ status' = [r \in Runs |-> IF r \in RunningJobs THEN "cancelled" ELSE status[r]]
        /\ timers' = {id[r] : r \in RunningJobs} /\ disposal = "no" /\ disposal' = "closing"
        /\ UNCHANGED <<jobs, id, owner, queued, silent, pending, marked, suppressed, watched,
                       callers, late>>
    BY <1>17 DEF DisposeBegins
  <2>2. \A r \in Runs : status[r] = "running" => r \in RunningJobs \/ r \in lost
    <3> SUFFICES ASSUME NEW r \in Runs, status[r] = "running", r \notin lost
                 PROVE  r \in RunningJobs
      OBVIOUS
    <3>1. Known(r)
      BY <1>t, <2>1 DEF Inv, UseOK, JobTypes
    <3> QED BY <3>1, SetsAssumption DEF Known, RunningJobs, Registered
  <2>3. RunningJobs \subseteq Runs /\ \A r \in RunningJobs : status[r] = "running" /\ id[r] \in Ids
    BY <1>t DEF RunningJobs, Registered, JobTypes, JobsOK
  <2>4. \A r \in Runs : \/ status'[r] = status[r] /\ (status[r] = "running" => r \in lost)
                        \/ status[r] = "running" /\ status'[r] = "cancelled"
    BY <2>1, <2>2, <2>3
  <2>5. status' \in [Runs -> Statuses]
    BY <1>t, <2>1 DEF JobTypes, Statuses
  <2>6. JobTypes'
    BY <1>t, <2>1, <2>3, <2>4, <2>5 DEF JobTypes, callers, late
  <2>7. \A r \in Runs : status'[r] # "none" <=> status[r] # "none"
    BY <2>4
  <2>8. \A j \in Ids : jobs'[j] # None => id'[jobs'[j]] = j /\ status'[jobs'[j]] # "none"
    BY <1>t, <2>1, <2>7 DEF JobsOK, JobTypes
  <2>9. \A p \in Pollers : poll'[p] # None => status'[poll'[p]] # "none"
    BY <1>t, <2>1, <2>7 DEF JobsOK, JobTypes, callers
  <2>10. \A x \in pending' : status'[x] \in {"running", "cancelled"}
    BY <1>t, <2>1, <2>4 DEF JobsOK, JobTypes
  <2>11. /\ \A x \in Runs : fg'[x] # "no" => status'[x] # "none"
         /\ \A x \in Runs : status'[x] # "none" => id'[x] \in Ids /\ owner'[x] \in Owners
    BY <1>t, <2>1, <2>7 DEF JobsOK, callers
  <2>12. \A j \in watched' : \E p \in Pollers : poll'[p] # None /\ id'[poll'[p]] = j
    BY <1>t, <2>1 DEF JobsOK, callers
  <2>13. /\ \A x \in Runs : status'[x] = "none" => id'[x] = None
         /\ \A x \in lost' : status'[x] # "none" /\ id'[x] \in overtaken'
         /\ \A x \in Runs : status'[x] = "running" => x \in lost'
    BY <1>t, <2>1, <2>4, <2>7 DEF JobsOK, JobTypes, Clean, late
  <2>14. JobsOK'
    BY <2>1, <2>8, <2>9, <2>10, <2>11, <2>12, <2>13 DEF JobsOK, Clean
  <2> QED BY <2>6, <2>14 DEF Kept
<1>18. CASE DisposeEnds
  <2>1. /\ disposal = "closing" /\ Registered \cap pending = {} /\ disposal' = "done"
        /\ jobs' = [i \in Ids |-> None] /\ suppressed' = {} /\ watched' = {} /\ timers' = {}
        /\ UNCHANGED <<id, owner, status, queued, silent, pending, marked, callers, late>>
    BY <1>18 DEF DisposeEnds
  <2>2. pending \subseteq lost
    <3> SUFFICES ASSUME NEW r \in pending, r \notin lost PROVE FALSE
      OBVIOUS
    <3>1. Known(r) /\ r \in Runs
      BY <1>t, <2>1 DEF Inv, UseOK, JobTypes
    <3> QED BY <2>1, <3>1, SetsAssumption DEF Known, Registered
  <2>3. \A r \in Runs : status[r] = "running" => r \in lost
    BY <1>t, <2>1 DEF JobsOK
  <2>4. JobTypes'
    BY <1>t, <2>1 DEF JobTypes, callers, late
  <2>5. JobsOK'
    BY <1>t, <2>1, <2>2, <2>3 DEF JobsOK, callers, late, Clean
  <2> QED BY <2>4, <2>5 DEF Kept
<1> QED
  BY <1>1, <1>2, <1>3, <1>5, <1>6, <1>7, <1>8, <1>9, <1>10, <1>11, <1>12, <1>13, <1>14, <1>15,
     <1>16, <1>17, <1>18 DEF Next, CallerStep, LoopStep, RunStep, vars

-----------------------------------------------------------------------------
(* What a step leaves of an id that somebody may still look up.            *)

LEMMA InUseBegan ==
    ASSUME Inv, NEW r \in Runs, InUse(r)
    PROVE  status[r] # "none"
  BY SetsAssumption DEF Inv, InUse, JobsOK, CountsOK

\* The run that is registered.
Registers(r, i) ==
    /\ disposal = "no" /\ status[r] = "none" /\ jobs[i] = None
    /\ Register(r) \/ RegisterForeground(r)
    /\ jobs' = [jobs EXCEPT ![i] = r] /\ id' = [id EXCEPT ![r] = i]
    /\ \E o \in Owners : owner' = [owner EXCEPT ![r] = o]
    /\ status' = [status EXCEPT ![r] = "running"] /\ pending' = pending \cup {r}
    /\ suppressed \ {i} \subseteq suppressed'
    /\ fg' = fg \/ (fg' = [fg EXCEPT ![r] = "waiting"] /\ i \in suppressed')
    /\ queued \subseteq queued'
    /\ ~AtCapacity
    /\ UNCHANGED <<poll, handed, marked, disposal>>

LEMMA RegistersSome ==
    ASSUME NEW r \in Runs, Register(r) \/ RegisterForeground(r)
    PROVE  \E i \in Ids : Registers(r, i)
<1> USE DEF job, marks, callers
<1>1. CASE Register(r)
  <2>1. PICK i \in Ids : RegisterAs(r, i) /\ suppressed' = suppressed \ {i}
    BY <1>1 DEF Register
  <2>2. Registers(r, i)
    BY <1>1, <2>1 DEF Register, RegisterAs, FreeIds, Registers
  <2> QED BY <2>2
<1>2. CASE RegisterForeground(r)
  <2>1. PICK i \in Ids : RegisterAs(r, i) /\ suppressed' = suppressed \cup {i}
    BY <1>2 DEF RegisterForeground
  <2>2. Registers(r, i)
    BY <1>2, <2>1 DEF RegisterForeground, RegisterAs, FreeIds, Registers
  <2> QED BY <2>2
<1> QED BY <1>1, <1>2

\* Most steps look nothing up and settle nothing.
LEMMA StepKinds ==
    ASSUME [Next]_vars
    PROVE  \/ UNCHANGED <<jobs, id, owner>> /\ suppressed \subseteq suppressed'
           \/ \E r \in Runs, i \in Ids : Registers(r, i)
           \/ \E i \in Ids : EvictionTimer(i)
           \/ \E r \in Runs : ForegroundTimesOut(r)
           \/ DisposeEnds
<1> USE DEF job, marks, callers
<1>1. ASSUME NEW r \in Runs, Register(r) \/ RegisterForeground(r)
      PROVE  \E i \in Ids : Registers(r, i)
  BY <1>1, RegistersSome
<1>2. ASSUME NEW r \in Runs, \/ SettleCancelled(r) \/ Succeed(r) \/ FailRun(r) \/ MarkRunning(r)
                             \/ ForegroundAborts(r) \/ ForegroundReturns(r)
      PROVE  UNCHANGED <<jobs, id, owner>> /\ suppressed \subseteq suppressed'
  BY <1>2 DEF SettleCancelled, Succeed, FailRun, MarkRunning, ForegroundAborts, ForegroundReturns
<1>3. ASSUME NEW i \in Ids, Cancel(i) \/ PollFinished(i)
      PROVE  UNCHANGED <<jobs, id, owner>> /\ suppressed \subseteq suppressed'
  BY <1>3 DEF Cancel, PollFinished, Report, Acknowledge
<1>4. ASSUME NEW o \in Owners, CancelAllOf(o) \/ DrainTakes(o)
      PROVE  UNCHANGED <<jobs, id, owner>> /\ suppressed \subseteq suppressed'
  BY <1>4 DEF CancelAllOf, DrainTakes
<1>5. ASSUME NEW p \in Pollers, NEW i \in Ids, PollStarts(p, i) \/ PollReturns(p)
      PROVE  UNCHANGED <<jobs, id, owner>> /\ suppressed \subseteq suppressed'
  BY <1>5 DEF PollStarts, PollReturns, Report, Acknowledge
<1>6. ASSUME NEW p \in Pollers, PollReturns(p)
      PROVE  UNCHANGED <<jobs, id, owner>> /\ suppressed \subseteq suppressed'
  BY <1>6 DEF PollReturns, Report, Acknowledge
<1>7. ASSUME NEW d, Deliver(d) \/ ShowEntry(d)
      PROVE  UNCHANGED <<jobs, id, owner>> /\ suppressed \subseteq suppressed'
  BY <1>7 DEF Deliver, DeliverySucceeds, DeliveryFails, ShowEntry
<1>8. CASE LoopStep \/ DisposeBegins \/ UNCHANGED vars
  BY <1>8 DEF LoopStep, LoopTop, LoopWakes, LoopResumes, LoopExits, DisposeBegins, vars
<1> QED
  BY <1>1, <1>2, <1>3, <1>4, <1>5, <1>6, <1>7, <1>8 DEF Next, CallerStep, RunStep

\* Only an eviction makes more runs lost or more ids overtaken, and neither is taken back.
LEMMA LateStep ==
    ASSUME [Next]_vars
    PROVE  /\ lost \subseteq lost' /\ overtaken \subseteq overtaken'
           /\ UNCHANGED late \/ \E i \in Ids : EvictionTimer(i)
<1>1. UNCHANGED late \/ \E i \in Ids : EvictionTimer(i)
  BY DEF Next, CallerStep, LoopStep, RunStep, vars, Register, RegisterForeground, ForegroundAborts,
     MarkRunning, SettleCancelled, Succeed, FailRun, Cancel, PollFinished, CancelAllOf, DrainTakes,
     PollStarts, ForegroundReturns, ForegroundTimesOut, PollReturns, LoopTop, LoopWakes, LoopResumes,
     LoopExits, Deliver, DeliverySucceeds, DeliveryFails, ShowEntry, DisposeBegins, DisposeEnds
<1> QED BY <1>1 DEF late, EvictionTimer

\* A run whose id is in use stays registered under it, and its deliveries stay suppressed until
\* its foreground wait times out.  Only an eviction takes the id away, and the run is then lost
\* (if its promise was pending) or its id overtaken.
LEMMA LookupStep ==
    ASSUME Inv, [Next]_vars
    PROVE  /\ \A r \in Runs : status[r] # "none" => id'[r] = id[r] /\ owner'[r] = owner[r]
           /\ \A r \in Runs : Clean(r)' => Clean(r)
           /\ disposal' # "done" => disposal # "done"
           /\ \A r \in pending \ lost' : disposal' # "done" => Known(r)'
           /\ \A r \in Runs : disposal' # "done" /\ InUse(r) /\ Clean(r)' =>
                 /\ Known(r)'
                 /\ id[r] \in suppressed =>
                       id[r] \in suppressed' \/ (fg[r] = "waiting" /\ fg'[r] = "backgrounded")
<1>t. JobTypes /\ JobsOK /\ UseOK /\ JobTypes'
  BY JobsStep DEF Inv, TypeOK, JobTypes
<1>a. disposal' # "done" => disposal # "done"
  <2>1. UNCHANGED disposal \/ DisposeBegins \/ DisposeEnds
    BY DEF Next, CallerStep, LoopStep, RunStep, vars, Register, RegisterForeground, ForegroundAborts,
       MarkRunning, SettleCancelled, Succeed, FailRun, Cancel, EvictionTimer, PollFinished,
       CancelAllOf, DrainTakes, PollStarts, ForegroundReturns, ForegroundTimesOut, PollReturns,
       LoopTop, LoopWakes, LoopResumes, LoopExits, Deliver, DeliverySucceeds, DeliveryFails,
       ShowEntry
  <2> QED BY <2>1 DEF DisposeBegins, DisposeEnds
<1>b. \A r \in Runs : status[r] # "none" => id'[r] = id[r] /\ owner'[r] = owner[r]
  <2>1. ASSUME NEW s \in Runs, NEW i \in Ids, Registers(s, i)
        PROVE  \A r \in Runs : status[r] # "none" => id'[r] = id[r] /\ owner'[r] = owner[r]
    BY <1>t, <2>1 DEF Registers, JobTypes
  <2> QED BY <2>1, StepKinds DEF EvictionTimer, ForegroundTimesOut, DisposeEnds, job
<1>c. \A r \in Runs : Clean(r)' => Clean(r)
  <2>1. ASSUME NEW r \in Runs, Clean(r)'
        PROVE  Clean(r)
    <3>1. CASE status[r] = "none"
      BY <1>t, <3>1, SetsAssumption DEF Clean, JobTypes, JobsOK
    <3>2. CASE status[r] # "none"
      BY <1>b, <2>1, <3>2, LateStep DEF Clean
    <3> QED BY <3>1, <3>2
  <2> QED BY <2>1
<1>d. \A r \in Runs : InUse(r) /\ Clean(r)' /\ disposal' # "done" => Known(r)
  BY <1>t, <1>a, <1>c DEF UseOK
<1>e. \A r \in pending \ lost' : disposal' # "done" => Known(r)
  BY <1>t, <1>a, LateStep DEF UseOK
<1>f. \A r \in Runs : Known(r) => r # None /\ status[r] # "none"
  BY <1>t, SetsAssumption DEF Known, JobsOK
<1> DEFINE Stays(r) == Known(r)' /\ (id[r] \in suppressed => id[r] \in suppressed')
           Kept == /\ \A r \in pending \ lost' : disposal' # "done" => Known(r)'
                   /\ \A r \in Runs : disposal' # "done" /\ InUse(r) /\ Clean(r)' =>
                         /\ Known(r)'
                         /\ id[r] \in suppressed =>
                               id[r] \in suppressed' \/ (fg[r] = "waiting" /\ fg'[r] = "backgrounded")
<1> HIDE DEF Stays
<1>1. ASSUME UNCHANGED <<jobs, id, owner>>, suppressed \subseteq suppressed'
      PROVE  Kept
  BY <1>t, <1>d, <1>e, <1>1 DEF Known, JobTypes
<1>2. ASSUME NEW s \in Runs, NEW i \in Ids, Registers(s, i)
      PROVE  Kept
  <2>1. ASSUME NEW r \in Runs, Known(r)
        PROVE  Stays(r)
    <3>1. id[r] # i /\ id[r] \in Ids /\ r # s
      BY <1>2, <1>f, <2>1 DEF Registers, Known
    <3>2. jobs'[id[r]] = r /\ id'[r] = id[r]
      BY <1>t, <1>2, <2>1, <3>1 DEF Registers, Known, JobTypes
    <3> QED BY <1>2, <3>1, <3>2 DEF Registers, Known, Stays
  <2> QED BY <1>t, <1>d, <1>e, <2>1 DEF JobTypes, Stays
<1>3. ASSUME NEW i \in Ids, EvictionTimer(i)
      PROVE  Kept
  <2>1. /\ jobs' = [jobs EXCEPT ![i] = None] /\ suppressed' = suppressed \ {i}
        /\ lost' = lost \cup {r \in pending : id[r] = i}
        /\ overtaken' = IF Busy(i) THEN overtaken \cup {i} ELSE overtaken
        /\ UNCHANGED <<id, disposal>>
    BY <1>3 DEF EvictionTimer
  <2>2. ASSUME NEW r \in Runs, Known(r), id[r] # i
        PROVE  Stays(r)
    BY <1>t, <2>1, <2>2 DEF Known, JobTypes, Stays
  <2>3. ASSUME NEW r \in Runs, InUse(r), Clean(r)'
        PROVE  id[r] # i
    <3>1. r # None
      BY SetsAssumption
    <3>2. id[r] = i => Busy(i)
      BY <2>3, <3>1 DEF Busy, InUse, Live, Carried
    <3> QED BY <2>1, <2>3, <3>2 DEF Clean
  <2>4. \A r \in pending \ lost' : id[r] # i /\ r \in Runs
    BY <1>t, <2>1 DEF JobTypes
  <2> QED BY <1>d, <1>e, <2>2, <2>3, <2>4 DEF Stays
<1>4. ASSUME NEW s \in Runs, ForegroundTimesOut(s)
      PROVE  Kept
  <2>1. /\ fg[s] = "waiting" /\ fg' = [fg EXCEPT ![s] = "backgrounded"]
        /\ suppressed' = suppressed \ {id[s]} /\ UNCHANGED <<jobs, id, late>>
    BY <1>4 DEF ForegroundTimesOut, job
  <2>2. ASSUME NEW r \in Runs, disposal' # "done", InUse(r), Clean(r)', id[r] = id[s]
        PROVE  r = s
    <3>1. InUse(s) /\ Clean(s)'
      BY <2>1, <2>2 DEF InUse, Clean
    <3>2. Known(r) /\ Known(s)
      BY <1>d, <2>2, <3>1
    <3> QED BY <2>2, <3>2 DEF Known
  <2>3. fg'[s] = "backgrounded"
    BY <1>t, <2>1 DEF JobTypes
  <2>4. \A r \in Runs : Known(r) => Known(r)'
    BY <2>1 DEF Known
  <2> QED BY <1>t, <1>d, <1>e, <2>1, <2>2, <2>3, <2>4 DEF JobTypes
<1>5. ASSUME DisposeEnds
      PROVE  Kept
  BY <1>5 DEF DisposeEnds
<1>6. Kept
  <2> HIDE DEF Kept
  <2> QED BY <1>1, <1>2, <1>3, <1>4, <1>5, StepKinds
<1> QED BY <1>a, <1>b, <1>c, <1>6

\* Who comes into use: a run that is registered, or one that a poll finds by its id.
LEMMA NewUse ==
    ASSUME Inv, [Next]_vars, NEW r \in Runs
    PROVE  /\ (r \in pending' \/ fg'[r] = "waiting" \/ \E p \in Pollers : poll'[p] = r)
                 => InUse(r) \/ Known(r)'
           /\ r \in pending' => r \in pending \/ Known(r)'
           /\ fg'[r] = "waiting" => fg[r] = "waiting" \/ (status[r] = "none" /\ id'[r] \in suppressed')
<1>t. JobTypes /\ JobsOK
  BY DEF Inv, TypeOK, JobTypes
<1>1. CASE /\ pending' \subseteq pending
           /\ fg'[r] = "waiting" => fg[r] = "waiting"
           /\ \A p \in Pollers : poll'[p] = r => poll[p] = r
  BY <1>1 DEF InUse
<1>2. ASSUME NEW s \in Runs, NEW i \in Ids, Registers(s, i)
      PROVE  /\ (r \in pending' \/ fg'[r] = "waiting" \/ \E p \in Pollers : poll'[p] = r)
                   => InUse(r) \/ Known(r)'
             /\ r \in pending' => r \in pending \/ Known(r)'
             /\ fg'[r] = "waiting" =>
                   fg[r] = "waiting" \/ (status[r] = "none" /\ id'[r] \in suppressed')
  <2>1. id'[s] = i /\ jobs'[i] = s
    BY <1>t, <1>2 DEF Registers, JobTypes
  <2>2. CASE r = s
    BY <1>t, <1>2, <2>1, <2>2 DEF Registers, Known, JobTypes
  <2>3. CASE r # s
    BY <1>t, <1>2, <2>3 DEF Registers, InUse, JobTypes
  <2> QED BY <2>2, <2>3
<1>3. ASSUME NEW p \in Pollers, NEW i \in Ids, PollStarts(p, i)
      PROVE  /\ (r \in pending' \/ fg'[r] = "waiting" \/ \E q \in Pollers : poll'[q] = r)
                   => InUse(r) \/ Known(r)'
             /\ r \in pending' => r \in pending \/ Known(r)'
             /\ fg'[r] = "waiting" => fg[r] = "waiting"
  <2>1. poll' = [poll EXCEPT ![p] = jobs[i]] /\ jobs[i] # None /\ UNCHANGED <<job, fg>>
    BY <1>3 DEF PollStarts
  <2>2. jobs[i] = r => Known(r)'
    BY <1>t, <2>1, SetsAssumption DEF Known, JobsOK, job
  <2> QED BY <1>t, <2>1, <2>2 DEF InUse, JobTypes, job
<1>4. \/ \E s \in Runs, i \in Ids : Registers(s, i)
      \/ \E p \in Pollers, i \in Ids : PollStarts(p, i)
      \/ /\ pending' \subseteq pending
         /\ fg'[r] = "waiting" => fg[r] = "waiting"
         /\ \A p \in Pollers : poll'[p] = r => poll[p] = r
  <2> DEFINE Less == /\ pending' \subseteq pending
                     /\ fg'[r] = "waiting" => fg[r] = "waiting"
                     /\ \A p \in Pollers : poll'[p] = r => poll[p] = r
  <2>1. ASSUME NEW s \in Runs, Register(s) \/ RegisterForeground(s)
        PROVE  \E i \in Ids : Registers(s, i)
    BY <2>1, RegistersSome
  <2>2. ASSUME NEW s \in Runs, \/ SettleCancelled(s) \/ Succeed(s) \/ FailRun(s) \/ MarkRunning(s)
                               \/ ForegroundAborts(s) \/ ForegroundReturns(s) \/ ForegroundTimesOut(s)
        PROVE  Less
    BY <1>t, <2>2 DEF SettleCancelled, Succeed, FailRun, MarkRunning, ForegroundAborts,
       ForegroundReturns, ForegroundTimesOut, job, callers, JobTypes
  <2>3. ASSUME NEW i \in Ids, Cancel(i) \/ PollFinished(i) \/ EvictionTimer(i)
        PROVE  Less
    BY <2>3 DEF Cancel, PollFinished, EvictionTimer, job, callers
  <2>4. ASSUME NEW o \in Owners, CancelAllOf(o) \/ DrainTakes(o)
        PROVE  Less
    BY <2>4 DEF CancelAllOf, DrainTakes, job, callers
  <2>5. ASSUME NEW p \in Pollers, PollReturns(p)
        PROVE  Less
    <3>1. poll' = [poll EXCEPT ![p] = None] /\ UNCHANGED <<job, fg>> /\ r # None
      BY <2>5, SetsAssumption DEF PollReturns
    <3> QED BY <1>t, <3>1 DEF job, JobTypes
  <2>6. ASSUME NEW d, Deliver(d) \/ ShowEntry(d)
        PROVE  Less
    BY <2>6 DEF Deliver, DeliverySucceeds, DeliveryFails, ShowEntry, job, callers
  <2>7. ASSUME LoopStep \/ DisposeBegins \/ DisposeEnds \/ UNCHANGED vars
        PROVE  Less
    BY <2>7 DEF LoopStep, LoopTop, LoopWakes, LoopResumes, LoopExits, DisposeBegins, DisposeEnds,
       vars, job, callers
  <2> HIDE DEF Less
  <2>8. \/ \E s \in Runs, i \in Ids : Registers(s, i)
        \/ \E p \in Pollers, i \in Ids : PollStarts(p, i)
        \/ Less
    BY <2>1, <2>2, <2>3, <2>4, <2>5, <2>6, <2>7 DEF Next, CallerStep, RunStep
  <2> QED BY <2>8 DEF Less
<1> QED BY <1>1, <1>2, <1>3, <1>4

\* A run's status changes once it is registered and once it ends; it counts for the limit no more
\* once it was admitted as queued.
LEMMA LifeStep ==
    ASSUME Inv, [Next]_vars
    PROVE  /\ \/ \E r \in Runs, i \in Ids : Registers(r, i)
              \/ \A r \in Runs : \/ status'[r] = status[r]
                                 \/ /\ status[r] = "running"
                                    /\ status'[r] \in {"completed", "failed", "cancelled"}
           /\ queued \cup marked \subseteq queued' \cup marked'
<1> DEFINE Ends == \A r \in Runs : \/ status'[r] = status[r]
                                   \/ /\ status[r] = "running"
                                      /\ status'[r] \in {"completed", "failed", "cancelled"}
           More == queued \cup marked \subseteq queued' \cup marked'
<1>t. JobTypes
  BY DEF Inv, TypeOK, JobTypes
<1>1. ASSUME NEW r \in Runs, Register(r) \/ RegisterForeground(r)
      PROVE  (\E s \in Runs, i \in Ids : Registers(s, i)) /\ More
  <2>1. PICK i \in Ids : Registers(r, i)
    BY <1>1, RegistersSome
  <2> QED BY <2>1 DEF Registers
<1>2. ASSUME NEW rs, CancelRuns(rs)
      PROVE  Ends
  BY <1>t, <1>2 DEF CancelRuns, RunningJobs, JobTypes
<1>3. ASSUME NEW r \in Runs, MarkRunning(r) \/ SettleCancelled(r) \/ ForegroundReturns(r)
                             \/ ForegroundTimesOut(r)
      PROVE  Ends /\ More
  BY <1>3 DEF MarkRunning, SettleCancelled, ForegroundReturns, ForegroundTimesOut, job
<1>4. ASSUME NEW r \in Runs, Succeed(r) \/ FailRun(r)
      PROVE  Ends /\ More
  BY <1>t, <1>4 DEF Succeed, FailRun, JobTypes
<1>5. ASSUME NEW r \in Runs, ForegroundAborts(r)
      PROVE  Ends /\ More
  BY <1>2, <1>5 DEF ForegroundAborts
<1>6. ASSUME NEW i \in Ids, Cancel(i)
      PROVE  Ends /\ More
  BY <1>2, <1>6 DEF Cancel
<1>7. ASSUME NEW o \in Owners, CancelAllOf(o)
      PROVE  Ends /\ More
  BY <1>2, <1>7 DEF CancelAllOf
<1>8. CASE UNCHANGED job
  BY <1>8 DEF job
<1>9. ASSUME NEW i \in Ids, EvictionTimer(i) \/ PollFinished(i)
      PROVE  Ends /\ More
  BY <1>9 DEF EvictionTimer, PollFinished, job
<1>10. ASSUME NEW p \in Pollers, NEW i \in Ids, PollStarts(p, i)
       PROVE  Ends /\ More
  BY <1>10 DEF PollStarts, job
<1>11. ASSUME NEW p \in Pollers, PollReturns(p)
       PROVE  Ends /\ More
  BY <1>11 DEF PollReturns, job
<1>12. ASSUME NEW o \in Owners, DrainTakes(o)
       PROVE  Ends /\ More
  BY <1>12 DEF DrainTakes, job
<1>13. ASSUME NEW d, Deliver(d) \/ ShowEntry(d)
       PROVE  Ends /\ More
  BY <1>13 DEF Deliver, DeliverySucceeds, DeliveryFails, ShowEntry, job
<1>14. ASSUME LoopStep \/ DisposeEnds \/ UNCHANGED vars
       PROVE  Ends /\ More
  BY <1>14 DEF LoopStep, LoopTop, LoopWakes, LoopResumes, LoopExits, DisposeEnds, vars, job
<1>15. ASSUME DisposeBegins
       PROVE  Ends /\ More
  BY <1>t, <1>15 DEF DisposeBegins, RunningJobs, JobTypes
<1> HIDE DEF Ends, More
<1>16. ((\E r \in Runs, i \in Ids : Registers(r, i)) \/ Ends) /\ More
  BY <1>1, <1>3, <1>4, <1>5, <1>6, <1>7, <1>9, <1>10, <1>11, <1>12, <1>13, <1>14, <1>15
     DEF Next, CallerStep, RunStep
<1> QED BY <1>16 DEF Ends, More

\* What is over stays over.
LEMMA Over ==
    ASSUME Inv, [Next]_vars, NEW r \in Runs, status[r] \in {"completed", "failed", "cancelled"}
    PROVE  status'[r] = status[r]
<1>t. JobTypes
  BY DEF Inv, TypeOK, JobTypes
<1>1. ASSUME NEW s \in Runs, NEW i \in Ids, Registers(s, i)
      PROVE  status'[r] = status[r]
  BY <1>t, <1>1 DEF Registers, JobTypes
<1>2. CASE \A s \in Runs : \/ status'[s] = status[s]
                           \/ status[s] = "running" /\ status'[s] \in {"completed", "failed", "cancelled"}
  BY <1>2
<1> QED BY <1>1, <1>2, LifeStep

-----------------------------------------------------------------------------
(* The other parts of the invariant, one lemma each.                       *)

\* A delivery under way is for a run that is over, and nobody waits for a clean one.
LEMMA LiveBegan ==
    ASSUME Inv, NEW r \in Runs, Live(r)
    PROVE  /\ status[r] \in {"completed", "failed"} /\ enq[r] # 0
           /\ r \in CleanRuns => fg[r] # "waiting" /\ enq[r] = 1 /\ shown[r] = 0
  BY DEF Inv, CountsOK

LEMMA CarriedTyped ==
    ASSUME Inv
    PROVE  Carried \subseteq Delivery /\ \A d \in Carried : d.run \in Runs /\ Live(d.run)
<1>1. Carried \subseteq Delivery
  BY DEF Inv, TypeOK, Carried, ToSet
<1> QED BY <1>1 DEF Delivery, Live

\* A step that queues adds one delivery.
LEMMA QueuedOne ==
    ASSUME Inv, NEW r \in Runs, Queues(r)
    PROVE  \E d \in Delivery :
               /\ d.run = r /\ (r \notin lost => d.owner = owner[r])
               /\ deliveries' = Append(deliveries, d)
               /\ deliveries' \in Seq(Delivery) /\ Carried' = Carried \cup {d}
               /\ ToSet(deliveries') = ToSet(deliveries) \cup {d} /\ Once(deliveries', CleanRuns)
<1>1. PICK d \in Delivery : /\ d.run = r /\ (r \notin lost => d.owner = owner[r])
                           /\ deliveries' = Append(deliveries, d)
  BY DEF Queues
<1>2. /\ deliveries \in Seq(Delivery) /\ Once(deliveries, CleanRuns)
      /\ d.run \in CleanRuns => \A e \in ToSet(deliveries) : e.run # d.run
  BY <1>1 DEF Inv, TypeOK, Copies, Queues, Live, Carried
<1>3. /\ deliveries' \in Seq(Delivery) /\ Once(deliveries', CleanRuns)
      /\ ToSet(deliveries') = ToSet(deliveries) \cup {d}
  BY <1>1, <1>2, AppendJoins
<1>4. Carried' = Carried \cup {d}
  BY <1>3 DEF Carried, Queues
<1> QED BY <1>1, <1>3, <1>4

\* No step brings a delivery to life but the one that queues it, and showing a clean one ends it.
LEMMA LiveStep ==
    ASSUME Inv, [Next]_vars, NEW r \in Runs, Live(r)'
    PROVE  \/ Live(r) /\ enq'[r] = enq[r] /\ (r \in CleanRuns => shown'[r] = shown[r])
           \/ Queues(r)
<1>1. CASE Keeps
  BY <1>1 DEF Keeps, Live
<1>2. ASSUME NEW s \in Runs, Queues(s)
      PROVE  (Live(r) /\ UNCHANGED <<enq[r], shown[r]>>) \/ Queues(r)
  <2>1. PICK d \in Delivery : d.run = s /\ Carried' = Carried \cup {d}
    BY <1>2, QueuedOne
  <2>2. CASE r = s
    BY <1>2, <2>2
  <2>3. CASE r # s
    <3>1. Live(r)
      BY <2>1, <2>3 DEF Live
    <3>2. enq'[r] = enq[r] /\ shown' = shown
      BY <1>2, <2>3 DEF Queues, Inv, TypeOK
    <3> QED BY <3>1, <3>2
  <2> QED BY <2>2, <2>3
<1>3. ASSUME NEW d \in entries, Shows(d)
      PROVE  Live(r) /\ enq'[r] = enq[r] /\ (r \in CleanRuns => shown'[r] = shown[r])
  <2>1. PICK e \in Carried' : e.run = r
    BY DEF Live
  <2>2. e \in ToSet(deliveries) \cup inFlight \cup (entries \ {d})
    BY <1>3, <2>1 DEF Shows, Carried
  <2>3. r \in CleanRuns => e.run # d.run
    BY <2>1, <2>2 DEF Inv, Copies
  <2>4. e \in Carried
    BY <2>2 DEF Carried
  <2>5. enq' = enq /\ (r \in CleanRuns => shown'[r] = shown[r])
    BY <1>3, <2>1, <2>3 DEF Shows, Inv, TypeOK
  <2> QED BY <2>1, <2>4, <2>5 DEF Live
<1> QED BY <1>1, <1>2, <1>3, ChannelStep

LEMMA UseStep ==
    ASSUME Inv, [Next]_vars
    PROVE  UseOK'
<1> SUFFICES ASSUME disposal' # "done"
             PROVE  /\ \A r \in pending' \ lost' : Known(r)'
                    /\ \A r \in Runs : InUse(r)' /\ Clean(r)' => Known(r)'
                    /\ \A r \in Runs : fg'[r] = "waiting" /\ Clean(r)' => id'[r] \in suppressed'
  BY DEF UseOK
<1>1. ASSUME NEW r \in pending' \ lost'
      PROVE  Known(r)'
  <2>1. r \in Runs
    BY JobsStep DEF JobTypes
  <2>2. r \in pending \/ Known(r)'
    BY <1>1, <2>1, NewUse
  <2> QED BY <1>1, <2>2, LookupStep
<1>2. ASSUME NEW r \in Runs, InUse(r)', Clean(r)'
      PROVE  Known(r)'
  <2>1. r \in CleanRuns
    BY <1>2, LookupStep DEF CleanRuns
  <2>2. Live(r)' => InUse(r)
    BY <2>1, LiveStep DEF InUse, Queues
  <2>3. InUse(r) \/ Known(r)'
    BY <1>2, <2>2, NewUse DEF InUse
  <2> QED BY <1>2, <2>3, LookupStep
<1>3. ASSUME NEW r \in Runs, fg'[r] = "waiting", Clean(r)'
      PROVE  id'[r] \in suppressed'
  <2>1. CASE fg[r] = "waiting"
    <3>1. InUse(r) /\ Clean(r) /\ disposal # "done"
      BY <1>3, <2>1, LookupStep DEF InUse
    <3>2. status[r] # "none" /\ id[r] \in suppressed
      BY <2>1, <3>1, InUseBegan DEF Inv, UseOK
    <3> QED BY <1>3, <3>1, <3>2, LookupStep
  <2> QED BY <1>3, <2>1, NewUse
<1> QED BY <1>1, <1>2, <1>3

\* What a tool returned in a step: what its foreground wait saw, or the result of a run that is over
\* and whose deliveries are suppressed by that step.
LEMMA HandedKinds ==
    ASSUME Inv, [Next]_vars, NEW r \in handed', r \notin handed
    PROVE  /\ r \in Runs /\ status[r] # "none" /\ UNCHANGED <<id, status>>
           /\ \/ fg[r] = "waiting" /\ fg'[r] = "returned" /\ UNCHANGED <<suppressed, disposal>>
              \/ status[r] # "running" /\ id[r] \in suppressed' /\ id[r] \in Ids
<1>t. JobTypes /\ JobsOK
  BY DEF Inv, TypeOK, JobTypes
<1>1. ASSUME NEW s \in Runs, ForegroundReturns(s)
      PROVE  /\ r = s /\ fg[r] = "waiting" /\ fg'[r] = "returned"
             /\ UNCHANGED <<id, status, suppressed, disposal>> /\ status[r] # "none"
  <2>1. /\ r = s /\ fg[s] = "waiting" /\ fg' = [fg EXCEPT ![s] = "returned"]
        /\ UNCHANGED <<id, status, suppressed, disposal>>
    BY <1>1 DEF ForegroundReturns, job, marks
  <2> QED BY <1>t, <2>1 DEF JobTypes, JobsOK
<1>2. ASSUME NEW s \in Runs, NEW i \in Ids, Report(s, i), id[s] = i, status[s] # "none",
             UNCHANGED <<id, status>>
      PROVE  /\ r \in Runs /\ status[r] \notin {"none", "running"} /\ id[r] \in suppressed'
             /\ id[r] \in Ids
  <2>1. PICK t : t = IF jobs[i] # None THEN jobs[i] ELSE s
    OBVIOUS
  <2>2. t \in Runs /\ id[t] = i /\ status[t] # "none"
    BY <1>t, <1>2, <2>1 DEF JobTypes, JobsOK
  <2>3. r = t /\ status[t] # "running" /\ suppressed' = suppressed \cup {i}
    BY <1>2, <2>1 DEF Report, Acknowledge
  <2> QED BY <2>2, <2>3
<1>3. ASSUME NEW p \in Pollers, PollReturns(p)
      PROVE  /\ r \in Runs /\ status[r] \notin {"none", "running"} /\ id[r] \in suppressed'
             /\ id[r] \in Ids /\ UNCHANGED <<id, status>>
  <2>1. poll[p] # None /\ Report(poll[p], id[poll[p]]) /\ UNCHANGED <<id, status>>
    BY <1>3 DEF PollReturns, job
  <2>2. poll[p] \in Runs /\ status[poll[p]] # "none" /\ id[poll[p]] \in Ids
    BY <1>t, <2>1 DEF JobTypes, JobsOK
  <2> QED BY <1>2, <2>1, <2>2
<1>4. ASSUME NEW i \in Ids, PollFinished(i)
      PROVE  /\ r \in Runs /\ status[r] \notin {"none", "running"} /\ id[r] \in suppressed'
             /\ id[r] \in Ids /\ UNCHANGED <<id, status>>
  <2>1. jobs[i] # None /\ Report(jobs[i], i) /\ UNCHANGED <<id, status>>
    BY <1>4 DEF PollFinished, job
  <2>2. jobs[i] \in Runs /\ status[jobs[i]] # "none" /\ id[jobs[i]] = i
    BY <1>t, <2>1 DEF JobTypes, JobsOK
  <2> QED BY <1>2, <2>1, <2>2
<1>5. handed' # handed
  OBVIOUS
<1>6. \/ \E s \in Runs : ForegroundReturns(s)
      \/ \E p \in Pollers : PollReturns(p)
      \/ \E i \in Ids : PollFinished(i)
  BY <1>5 DEF Next, CallerStep, LoopStep, RunStep, vars, callers, Register, RegisterForeground,
     ForegroundAborts, MarkRunning, SettleCancelled, Succeed, FailRun, Cancel, EvictionTimer,
     CancelAllOf, DrainTakes, PollStarts, ForegroundTimesOut, LoopTop, LoopWakes, LoopResumes,
     LoopExits, Deliver, DeliverySucceeds, DeliveryFails, ShowEntry, DisposeBegins, DisposeEnds
<1> QED BY <1>1, <1>3, <1>4, <1>6

LEMMA HandedStep ==
    ASSUME Inv, [Next]_vars
    PROVE  HandedOK'
<1>t. JobTypes /\ HandedOK
  BY DEF Inv, TypeOK, JobTypes
<1>1. ASSUME NEW r \in handed, status'[r] = "none" \/ status'[r] = "running"
      PROVE  status'[r] = "running" /\ status[r] = "running"
  <2>1. r \in Runs /\ status[r] # "none"
    BY <1>t DEF JobTypes, HandedOK
  <2>2. status[r] = "running"
    BY <1>t, <1>1, <2>1, Over DEF JobTypes, Statuses
  <2>3. status'[r] # "none"
    <3>1. ASSUME NEW s \in Runs, NEW i \in Ids, Registers(s, i)
          PROVE  status'[r] # "none"
      BY <1>t, <2>1, <3>1 DEF Registers, JobTypes
    <3> QED BY <2>1, <2>2, <3>1, LifeStep
  <2> QED BY <1>1, <2>2, <2>3
<1>2. ASSUME NEW r \in handed
      PROVE  /\ status'[r] # "none" /\ (fg'[r] = "waiting" => status'[r] # "running")
             /\ disposal' # "done" /\ Clean(r)' /\ (Live(r)' \/ status'[r] = "running")
                   => id'[r] \in suppressed'
  <2>1. r \in Runs /\ status[r] # "none" /\ (fg[r] = "waiting" => status[r] # "running")
    BY <1>t DEF JobTypes, HandedOK
  <2>2. fg'[r] = "waiting" => status'[r] # "running"
    BY <1>1, <2>1, NewUse
  <2>3. ASSUME disposal' # "done", Clean(r)', Live(r)' \/ status'[r] = "running"
        PROVE  id'[r] \in suppressed'
    <3>1. Clean(r) /\ r \in CleanRuns /\ disposal # "done" /\ id'[r] = id[r]
      BY <2>1, <2>3, LookupStep DEF CleanRuns
    <3>2. Live(r) \/ status[r] = "running"
      BY <1>1, <2>1, <2>3, <3>1, LiveStep DEF Queues
    <3>3. id[r] \in suppressed /\ InUse(r)
      BY <1>t, <2>1, <3>1, <3>2 DEF HandedOK, InUse, JobTypes
    <3>4. fg[r] # "waiting"
      BY <2>1, <3>1, <3>2, LiveBegan
    <3> QED BY <2>1, <2>3, <3>1, <3>3, <3>4, LookupStep
  <2> QED BY <1>1, <2>2, <2>3
<1>3. ASSUME NEW r \in handed', r \notin handed
      PROVE  /\ status'[r] # "none" /\ (fg'[r] = "waiting" => status'[r] # "running")
             /\ disposal' # "done" /\ Clean(r)' => id'[r] \in suppressed'
  <2>1. r \in Runs /\ status[r] # "none" /\ UNCHANGED <<id, status>>
    BY <1>3, HandedKinds
  <2>2. CASE fg[r] = "waiting" /\ fg'[r] = "returned" /\ UNCHANGED <<suppressed, disposal>>
    <3>1. disposal' # "done" /\ Clean(r)' => id[r] \in suppressed
      BY <2>1, <2>2, LookupStep DEF Inv, UseOK
    <3> QED BY <2>1, <2>2, <3>1
  <2>3. CASE status[r] # "running" /\ id[r] \in suppressed'
    BY <2>1, <2>3
  <2> QED BY <1>3, <2>2, <2>3, HandedKinds
<1> QED BY <1>2, <1>3 DEF HandedOK

LEMMA CountsStep ==
    ASSUME Inv, [Next]_vars
    PROVE  CountsOK'
<1>t. enq \in [Runs -> Nat] /\ shown \in [Runs -> Nat] /\ CountsOK
  BY DEF Inv, TypeOK
<1>c. CleanRuns' \subseteq CleanRuns
  BY LookupStep DEF CleanRuns
<1> SUFFICES ASSUME NEW r \in Runs
             PROVE  /\ enq'[r] = 0 => shown'[r] = 0 /\ ~Live(r)'
                    /\ enq'[r] # 0 => status'[r] \in {"completed", "failed"}
                    /\ r \in CleanRuns =>
                          /\ enq'[r] \in {0, 1} /\ shown'[r] \in 0 .. enq'[r]
                          /\ enq'[r] = 1 => fg'[r] # "waiting"
                          /\ Live(r)' => shown'[r] = 0
  BY <1>c DEF CountsOK, CleanRuns
<1>1. ASSUME enq[r] # 0
      PROVE  /\ status'[r] \in {"completed", "failed"}
             /\ r \in CleanRuns /\ enq[r] = 1 => fg'[r] # "waiting"
  <2>1. status[r] \in {"completed", "failed"}
    BY <1>1 DEF Inv, CountsOK
  <2>2. r \in CleanRuns /\ enq[r] = 1 => fg[r] # "waiting"
    BY DEF Inv, CountsOK
  <2> QED BY <2>1, <2>2, Over, NewUse
<1>2. CASE Queues(r)
  <2>1. enq'[r] = enq[r] + 1 /\ shown'[r] = shown[r] /\ enq[r] \in Nat
    BY <1>t, <1>2 DEF Queues
  <2>2. r \in CleanRuns => enq[r] = 0 /\ shown[r] = 0
    BY <1>t, <1>2 DEF Queues, CountsOK
  <2> QED BY <1>2, <2>1, <2>2 DEF Queues
<1>3. CASE ~Queues(r)
  <2>1. /\ enq'[r] = enq[r]
        /\ \/ shown'[r] = shown[r]
           \/ /\ enq[r] # 0 /\ shown'[r] = shown[r] + 1
              /\ r \in CleanRuns => enq[r] = 1 /\ shown[r] = 0
    <3>1. CASE Keeps
      BY <3>1 DEF Keeps
    <3>2. ASSUME NEW s \in Runs, Queues(s)
          PROVE  enq'[r] = enq[r] /\ shown'[r] = shown[r]
      BY <1>t, <1>3, <3>2 DEF Queues
    <3>3. ASSUME NEW d \in entries, Shows(d)
          PROVE  /\ enq'[r] = enq[r]
                 /\ \/ shown'[r] = shown[r]
                    \/ /\ enq[r] # 0 /\ shown'[r] = shown[r] + 1
                       /\ r \in CleanRuns => enq[r] = 1 /\ shown[r] = 0
      <4>1. shown' = [shown EXCEPT ![d.run] = @ + 1] /\ enq' = enq
        BY <3>3 DEF Shows
      <4>2. d \in Carried
        BY DEF Carried
      <4>3. d.run \in Runs /\ Live(d.run)
        BY <4>2, CarriedTyped
      <4>4. enq[d.run] # 0 /\ (d.run \in CleanRuns => enq[d.run] = 1 /\ shown[d.run] = 0)
        BY <4>3, LiveBegan
      <4> QED BY <1>t, <4>1, <4>3, <4>4
    <3> QED BY <3>1, <3>2, <3>3, ChannelStep
  <2>2. Live(r)' => Live(r) /\ (r \in CleanRuns => shown'[r] = shown[r])
    BY <1>3, LiveStep
  <2>3. Live(r) => enq[r] # 0 /\ (r \in CleanRuns => shown[r] = 0)
    BY LiveBegan
  <2>4. enq[r] = 0 => shown[r] = 0
    BY <1>t DEF CountsOK
  <2>5. r \in CleanRuns => enq'[r] \in {0, 1} /\ shown'[r] \in 0 .. enq'[r]
    <3>1. r \in CleanRuns => enq[r] \in {0, 1} /\ shown[r] \in 0 .. enq[r]
      BY <1>t DEF CountsOK
    <3> QED BY <2>1, <3>1
  <2> QED BY <1>1, <2>1, <2>2, <2>3, <2>4, <2>5
<1> QED BY <1>2, <1>3

LEMMA CopiesStep ==
    ASSUME Inv, [Next]_vars
    PROVE  Copies(deliveries, inFlight, entries, CleanRuns)'
<1>0. CleanRuns' \subseteq CleanRuns
  BY LookupStep DEF CleanRuns
<1>1. CASE Keeps
  BY <1>0, <1>1 DEF Keeps, Copies, Once
<1>2. ASSUME NEW r \in Runs, Queues(r)
      PROVE  Copies(deliveries', inFlight', entries', CleanRuns')
  <2>1. PICK d \in Delivery :
            /\ d.run = r /\ ToSet(deliveries') = ToSet(deliveries) \cup {d}
            /\ Once(deliveries', CleanRuns)
    BY <1>2, QueuedOne
  <2>2. /\ UNCHANGED <<inFlight, entries>>
        /\ r \in CleanRuns => \A e \in inFlight \cup entries : e.run # r
    BY <1>2 DEF Queues, Live, Carried
  <2>3. Copies(deliveries', inFlight', entries', CleanRuns)
    BY <2>1, <2>2 DEF Inv, Copies
  <2> QED BY <1>0, <2>3 DEF Copies, Once
<1>3. ASSUME NEW d \in entries, Shows(d)
      PROVE  Copies(deliveries', inFlight', entries', CleanRuns')
  <2>1. UNCHANGED <<deliveries, inFlight>> /\ entries' \subseteq entries
    BY <1>3 DEF Shows
  <2> QED BY <1>0, <2>1 DEF Inv, Copies, Once
<1> QED BY <1>1, <1>2, <1>3, ChannelStep

LEMMA OwnerStep ==
    ASSUME Inv, [Next]_vars
    PROVE  DeliveredToOwner'
<1>0. lost \subseteq lost'
  BY LateStep
<1>1. ASSUME NEW d \in Carried, d.run \notin lost'
      PROVE  d.owner = owner'[d.run]
  <2>1. d.run \in Runs /\ Live(d.run)
    BY <1>1, CarriedTyped
  <2>2. owner'[d.run] = owner[d.run]
    BY <2>1, LiveBegan, LookupStep
  <2> QED BY <1>0, <1>1, <2>2 DEF Inv, DeliveredToOwner, Carried
<1>2. ASSUME NEW r \in Runs, Queues(r)
      PROVE  \A d \in Carried' : d.run \notin lost' => d.owner = owner'[d.run]
  <2>1. PICK e \in Delivery :
            e.run = r /\ (r \notin lost => e.owner = owner[r]) /\ Carried' = Carried \cup {e}
    BY <1>2, QueuedOne
  <2>2. owner'[r] = owner[r]
    BY <1>2, LookupStep DEF Queues
  <2> QED BY <1>0, <1>1, <2>1, <2>2
<1>3. Carried' \subseteq Carried \/ \E r \in Runs : Queues(r)
  <2>1. ASSUME NEW d \in entries, Shows(d)
        PROVE  Carried' \subseteq Carried
    BY <2>1 DEF Shows, Carried
  <2> QED BY <2>1, ChannelStep DEF Keeps
<1>4. \A d \in Carried' : d.run \notin lost' => d.owner = owner'[d.run]
  BY <1>1, <1>2, <1>3
<1> QED BY <1>4 DEF DeliveredToOwner, Carried

LEMMA LimitStep ==
    ASSUME Inv, [Next]_vars
    PROVE  LimitOK'
<1> DEFINE S == {r \in Runs : status[r] # "none"}
           X == {r \in Runs : status[r] = "running" /\ r \notin queued \cup marked \cup lost}
<1>t. JobTypes /\ JobsOK /\ UseOK
  BY DEF Inv, TypeOK, JobTypes
<1>1. IsFiniteSet(S) /\ Cardinality(X) <= MaxRunning /\ MaxRunning \in Nat
  BY LimitsAssumption DEF Inv, LimitOK, WithinLimit
<1>2. IsFiniteSet(X) /\ Cardinality(X) \in Nat
  <2>1. X \subseteq S
    OBVIOUS
  <2> QED BY <1>1, <2>1, FS_Subset, FS_CardinalityType
<1>3. ASSUME NEW s \in Runs, NEW i \in Ids, Registers(s, i)
      PROVE  LimitOK'
  <2>1. status' = [status EXCEPT ![s] = "running"] /\ queued \subseteq queued' /\ marked' = marked
        /\ ~AtCapacity /\ disposal = "no"
    BY <1>3 DEF Registers
  <2>2. S' = S \cup {s} /\ X' \subseteq X \cup {s}
    BY <1>t, <2>1, LateStep DEF JobTypes
  <2>3. X \subseteq ActiveJobs
    <3> SUFFICES ASSUME NEW r \in X PROVE r \in ActiveJobs
      OBVIOUS
    <3>1. r \in pending \ lost
      BY <1>t DEF JobTypes
    <3>2. Known(r) /\ r # None
      BY <1>t, <2>1, <3>1, SetsAssumption DEF UseOK
    <3> QED BY <3>2 DEF ActiveJobs, Registered, Known
  <2>4. ActiveJobs \subseteq S
    BY <1>t DEF ActiveJobs, Registered, JobTypes
  <2>5. IsFiniteSet(ActiveJobs) /\ Cardinality(ActiveJobs) \in Nat
    BY <1>1, <2>4, FS_Subset, FS_CardinalityType
  <2>6. Cardinality(X) <= Cardinality(ActiveJobs)
    BY <2>3, <2>5, FS_Subset
  <2>7. Cardinality(ActiveJobs) < MaxRunning
    BY <1>1, <2>1, <2>5 DEF AtCapacity
  <2>8. IsFiniteSet(X \cup {s}) /\ Cardinality(X \cup {s}) <= Cardinality(X) + 1
    <3> HIDE DEF X
    <3>1. IsFiniteSet(X \cup {s})
      BY <1>2, FS_AddElement
    <3>2. s \in X => Cardinality(X \cup {s}) = Cardinality(X)
      BY <1>2, FS_AddElement
    <3>3. s \notin X => Cardinality(X \cup {s}) = Cardinality(X) + 1
      BY <1>2, FS_AddElement
    <3> QED BY <1>2, <3>1, <3>2, <3>3
  <2>9. Cardinality(X') <= Cardinality(X \cup {s})
    BY <2>2, <2>8, FS_Subset
  <2>10. IsFiniteSet(X') /\ Cardinality(X') \in Nat /\ Cardinality(X \cup {s}) \in Nat
    BY <2>2, <2>8, FS_Subset, FS_CardinalityType
  <2>11. IsFiniteSet(S')
    BY <1>1, <2>2, FS_AddElement
  <2>12. Cardinality(X') <= MaxRunning
    <3> HIDE DEF X
    <3> QED BY <1>1, <1>2, <2>5, <2>6, <2>7, <2>8, <2>9, <2>10
  <2> QED BY <2>11, <2>12 DEF LimitOK, WithinLimit
<1>4. ASSUME \A r \in Runs : \/ status'[r] = status[r]
                             \/ /\ status[r] = "running"
                                /\ status'[r] \in {"completed", "failed", "cancelled"},
             queued \cup marked \subseteq queued' \cup marked'
      PROVE  LimitOK'
  <2>1. S' = S /\ X' \subseteq X
    BY <1>4, LateStep
  <2>2. IsFiniteSet(X') /\ Cardinality(X') \in Nat /\ Cardinality(X') <= Cardinality(X)
    BY <1>2, <2>1, FS_Subset, FS_CardinalityType
  <2>3. Cardinality(X') <= MaxRunning
    <3> HIDE DEF X
    <3> QED BY <1>1, <1>2, <2>2
  <2> QED BY <1>1, <2>1, <2>3 DEF LimitOK, WithinLimit
<1> QED BY <1>3, <1>4, LifeStep

\* What the other lemmas do not say of the loop, and the types of the channel.
LEMMA TypeStep ==
    ASSUME Inv, [Next]_vars
    PROVE  TypeOK'
<1>t. TypeOK
  BY DEF Inv
<1>1. JobTypes'
  BY JobsStep
<1>2. /\ deliveries' \in Seq(Delivery) /\ inFlight' \subseteq Delivery /\ entries' \subseteq Delivery
      /\ enq' \in [Runs -> Nat] /\ shown' \in [Runs -> Nat]
  <2>1. CASE Keeps
    BY <1>t, <2>1 DEF Keeps, TypeOK
  <2>2. ASSUME NEW r \in Runs, Queues(r)
        PROVE  /\ deliveries' \in Seq(Delivery) /\ UNCHANGED <<inFlight, entries, shown>>
               /\ enq' \in [Runs -> Nat]
    BY <1>t, <2>2, QueuedOne DEF Queues, TypeOK
  <2>3. ASSUME NEW d \in entries, Shows(d)
        PROVE  /\ UNCHANGED <<deliveries, inFlight, enq>> /\ entries' \subseteq entries
               /\ shown' \in [Runs -> Nat]
    <3>1. d.run \in Runs
      BY CarriedTyped DEF Carried
    <3> QED BY <1>t, <2>3, <3>1 DEF Shows, TypeOK
  <2> QED BY <1>t, <2>1, <2>2, <2>3, ChannelStep DEF TypeOK
<1> DEFINE Rest == /\ loop' \in {"none", "top", "sleep", "deliver", "exit"}
                   /\ cur' \in Delivery \cup {NoDelivery} /\ fails' \in 0 .. MaxFails
<1> SUFFICES Rest
  BY <1>1, <1>2 DEF JobTypes, TypeOK
<1>3. CASE UNCHANGED channel
  BY <1>t, <1>3 DEF channel, TypeOK
<1>4. CASE UNCHANGED <<cur, fails>> /\ loop' \in {loop, "top"}
  BY <1>t, <1>4 DEF TypeOK
<1> HIDE DEF Rest
<1>5. ASSUME NEW r \in Runs, \/ Register(r) \/ MarkRunning(r) \/ SettleCancelled(r)
                             \/ ForegroundAborts(r) \/ ForegroundReturns(r)
      PROVE  Rest
  BY <1>3, <1>5 DEF Register, MarkRunning, SettleCancelled, ForegroundAborts, ForegroundReturns, Rest
<1>6. ASSUME NEW r \in Runs, Succeed(r) \/ FailRun(r) \/ RegisterForeground(r)
                             \/ ForegroundTimesOut(r)
      PROVE  Rest
  BY <1>4, <1>6 DEF Succeed, FailRun, RegisterForeground, ForegroundTimesOut, Enqueue, EnsureLoop,
     Rest
<1>7. ASSUME NEW i \in Ids, Cancel(i) \/ EvictionTimer(i) \/ PollFinished(i)
      PROVE  Rest
  BY <1>3, <1>4, <1>7 DEF Cancel, EvictionTimer, PollFinished, Rest
<1>8. ASSUME NEW o \in Owners, CancelAllOf(o) \/ DrainTakes(o)
      PROVE  Rest
  BY <1>3, <1>4, <1>8 DEF CancelAllOf, DrainTakes, Rest
<1>9. ASSUME NEW p \in Pollers, NEW i \in Ids, PollStarts(p, i)
      PROVE  Rest
  BY <1>3, <1>9 DEF PollStarts, Rest
<1>10. ASSUME NEW p \in Pollers, PollReturns(p)
       PROVE  Rest
  BY <1>4, <1>10 DEF PollReturns, Rest
<1>11. ASSUME LoopStep
       PROVE  Rest
  <2>1. deliveries # <<>> => Head(deliveries) \in Delivery
    BY <1>t DEF TypeOK
  <2> QED BY <1>t, <1>11, <2>1 DEF LoopStep, LoopTop, LoopWakes, LoopResumes, LoopExits, Rest, TypeOK
<1>12. ASSUME NEW d, DeliverySucceeds(d) \/ ShowEntry(d)
       PROVE  Rest
  BY <1>4, <1>12 DEF DeliverySucceeds, ShowEntry, LoopAfter, Rest
<1>13. ASSUME NEW d, DeliveryFails(d)
       PROVE  Rest
  BY <1>t, <1>13, LimitsAssumption DEF DeliveryFails, LoopAfter, Rest, TypeOK
<1>14. ASSUME DisposeBegins \/ DisposeEnds \/ UNCHANGED vars
       PROVE  Rest
  BY <1>3, <1>4, <1>14 DEF DisposeBegins, DisposeEnds, vars, channel, Rest
<1> QED
  BY <1>5, <1>6, <1>7, <1>8, <1>9, <1>10, <1>11, <1>12, <1>13, <1>14
     DEF Next, CallerStep, RunStep, Deliver

LEMMA InitInv == Init => Inv
<1> SUFFICES ASSUME Init PROVE Inv
  OBVIOUS
<1>1. TypeOK
  BY LimitsAssumption DEF Init, TypeOK, Statuses
<1>2. ~(\E r \in Runs : Live(r)) /\ ToSet(deliveries) = {} /\ DOMAIN deliveries = {}
  BY DEF Init, Live, Carried, ToSet
<1>3. Copies(deliveries, inFlight, entries, CleanRuns) /\ DeliveredToOwner
  BY <1>2 DEF Init, Copies, Once, DeliveredToOwner
<1>4. JobsOK
  BY DEF Init, JobsOK
<1>5. UseOK
  BY <1>2, SetsAssumption DEF Init, UseOK, InUse
<1>6. HandedOK
  BY DEF Init, HandedOK
<1>7. CountsOK
  BY <1>2 DEF Init, CountsOK, CleanRuns
<1>8. LimitOK
  <2>1. {r \in Runs : status[r] # "none"} = {}
        /\ {r \in Runs : status[r] = "running" /\ r \notin queued \cup marked \cup lost} = {}
    BY DEF Init
  <2>2. IsFiniteSet({}) /\ Cardinality({}) <= MaxRunning
    BY FS_EmptySet, LimitsAssumption
  <2> QED BY <2>1, <2>2 DEF LimitOK, WithinLimit
<1> QED BY <1>1, <1>3, <1>4, <1>5, <1>6, <1>7, <1>8 DEF Inv

LEMMA InvStep ==
    ASSUME Inv, [Next]_vars
    PROVE  Inv'
  BY JobsStep, UseStep, HandedStep, CountsStep, CopiesStep, OwnerStep, LimitStep, TypeStep DEF Inv

THEOREM InvAlways == Spec => []Inv
<1>1. Inv /\ [Next]_vars => Inv'
  BY InvStep
<1> QED BY <1>1, InitInv, PTL DEF Spec

-----------------------------------------------------------------------------
(* The properties.                                                         *)

\* A result is shown once at most, and one delivery at a time tries to show it, whatever resumes,
\* retries, polls, drains and evictions overlap: no retry or drain doubles what the loop of
\* #runDeliveryLoop carries.  Only a run under an id that was evicted too early is given up.
THEOREM AtMostOnceAlways == Spec => []AtMostOnce
<1>1. Inv => AtMostOnce
  <2> SUFFICES ASSUME Inv PROVE AtMostOnce
    OBVIOUS
  <2>1. Copies(deliveries, inFlight, entries, CleanRuns)
    BY DEF Inv
  <2>2. ASSUME NEW r \in CleanRuns
        PROVE  Cardinality({k \in DOMAIN deliveries : deliveries[k].run = r})
               + Cardinality({d \in inFlight \cup entries : d.run = r}) <= 1
    <3> DEFINE Q == {k \in DOMAIN deliveries : deliveries[k].run = r}
               T == {d \in inFlight \cup entries : d.run = r}
    <3>1. Cardinality({}) = 0 /\ \A x : Cardinality({x}) = 1
      BY FS_EmptySet, FS_Singleton
    <3>2. CASE Q = {} /\ T = {}
      <4>1. Cardinality(Q) = 0 /\ Cardinality(T) = 0
        BY <3>1, <3>2, Zenon
      <4> HIDE DEF Q, T
      <4>2. Cardinality(Q) + Cardinality(T) <= 1
        BY <4>1
      <4> QED BY <4>2 DEF Q, T
    <3>3. ASSUME NEW k \in Q
          PROVE  Cardinality(Q) + Cardinality(T) <= 1
      <4>1. Q = {k}
        BY <2>1, <3>3 DEF Copies, Once
      <4>2. deliveries[k] \in ToSet(deliveries)
        BY <3>3 DEF ToSet
      <4>3. T = {}
        BY <2>1, <3>3, <4>2 DEF Copies
      <4>4. Cardinality(Q) = 1 /\ Cardinality(T) = 0
        BY <3>1, <4>1, <4>3, Zenon
      <4> HIDE DEF Q, T
      <4> QED BY <4>4
    <3>4. ASSUME NEW d \in T, Q = {}
          PROVE  Cardinality(Q) + Cardinality(T) <= 1
      <4>1. T = {d}
        BY <2>1, <3>4 DEF Copies
      <4>2. Cardinality(Q) = 0 /\ Cardinality(T) = 1
        BY <3>1, <3>4, <4>1, Zenon
      <4> HIDE DEF Q, T
      <4> QED BY <4>2
    <3> QED BY <3>2, <3>3, <3>4
  <2>3. ShownOnce
    BY DEF Inv, CountsOK, ShownOnce, CleanRuns
  <2> QED BY <2>2, <2>3 DEF AtMostOnce, OneDelivery, CleanRuns
<1> QED BY <1>1, InvAlways, PTL

\* A cancelled job reports nothing, even if its run goes on for a while, and disposing of the
\* manager leaves no job running but those whose id was evicted while they ran (cancel, cancelAll,
\* dispose, #scheduleEviction).
THEOREM CancelledIsOverAlways == Spec => []CancelledIsOver
<1>1. Inv => CancelledNotShown
  BY DEF Inv, CountsOK, CancelledNotShown
<1>2. Inv => DisposeMissesLost
  BY DEF Inv, JobsOK, DisposeMissesLost
<1> QED BY <1>1, <1>2, InvAlways, PTL DEF CancelledIsOver

\* No more jobs run than the limit of register(), and every delivery goes to the agent that owns
\* the job it reports, though ids are looked up and reused: an early eviction costs this the run
\* that was pending under the id, and no other.
THEOREM AccountedForAlways == Spec => []AccountedFor
<1>1. Inv => AccountedFor
  BY DEF Inv, LimitOK, AccountedFor
<1> QED BY <1>1, InvAlways, PTL

\* A run goes to the background only where its foreground wait times out.
LEMMA Backgrounded ==
    ASSUME Inv, [Next]_vars, NEW r \in Runs, fg[r] = "waiting", fg'[r] = "backgrounded"
    PROVE  ForegroundTimesOut(r)
<1>t. JobTypes
  BY DEF Inv, TypeOK, JobTypes
<1>1. ASSUME NEW s \in Runs, \/ RegisterForeground(s) \/ ForegroundAborts(s) \/ ForegroundReturns(s)
      PROVE  FALSE
  BY <1>t, <1>1 DEF RegisterForeground, ForegroundAborts, ForegroundReturns, JobTypes
<1>2. ASSUME NEW s \in Runs, ForegroundTimesOut(s)
      PROVE  s = r
  BY <1>t, <1>2 DEF ForegroundTimesOut, JobTypes
<1>3. fg' # fg
  OBVIOUS
<1> QED
  BY <1>1, <1>2, <1>3 DEF Next, CallerStep, LoopStep, RunStep, vars, callers, Register, MarkRunning,
     SettleCancelled, Succeed, FailRun, Cancel, EvictionTimer, PollFinished, CancelAllOf,
     DrainTakes, PollStarts, PollReturns, LoopTop, LoopWakes, LoopResumes, LoopExits, Deliver,
     DeliverySucceeds, DeliveryFails, ShowEntry, DisposeBegins, DisposeEnds

\* What a foreground command or a poll returned is not shown again, and a command that ended while
\* its tool call gave up waiting is queued for delivery (resumeDeliveries), not lost, unless its id
\* was evicted under it.
THEOREM HandedOnceAlways == Spec => HandedOnce
<1>1. ASSUME Inv, [Next]_vars, NEW r \in Runs, r \in handed, Clean(r), disposal # "done"
      PROVE  shown'[r] = shown[r]
  <2>1. ASSUME NEW d \in entries, Shows(d)
        PROVE  shown'[r] = shown[r]
    <3>1. d \in Carried
      BY DEF Carried
    <3>2. d.run \in Runs /\ Live(d.run)
      BY <1>1, <3>1, CarriedTyped
    <3>3. r # d.run
      BY <1>1, <2>1, <3>2 DEF Inv, HandedOK, Shows, Suppressed
    <3> QED BY <1>1, <2>1, <3>2, <3>3 DEF Shows, Inv, TypeOK
  <2> QED BY <1>1, <2>1, ChannelStep DEF Keeps, Queues
<1>2. ASSUME Inv, [Next]_vars, NEW r \in Runs, fg[r] = "waiting", fg'[r] = "backgrounded",
             status[r] \in {"completed", "failed"}, r \notin handed, disposal = "no", Clean(r),
             \A p \in Pollers : poll[p] # r
      PROVE  enq'[r] > 0
  <2>1. ForegroundTimesOut(r)
    BY <1>2, Backgrounded
  <2>2. InUse(r) /\ Known(r) /\ id[r] \in suppressed
    BY <1>2 DEF Inv, UseOK, InUse
  <2>3. jobs[id[r]] = r /\ r # None
    BY <2>2, SetsAssumption DEF Known
  <2>4. \A d \in ToSet(deliveries) \cup inFlight : id[d.run] # id[r]
    <3> SUFFICES ASSUME NEW d \in ToSet(deliveries) \cup inFlight, id[d.run] = id[r] PROVE FALSE
      OBVIOUS
    <3>1. d.run \in Runs /\ Live(d.run) /\ Clean(d.run)
      BY <1>2, CarriedTyped DEF Carried, Clean
    <3>2. jobs[id[d.run]] = d.run
      BY <1>2, <3>1 DEF Inv, UseOK, InUse, Known
    <3>3. Live(r)
      BY <2>3, <3>1, <3>2
    <3> QED BY <1>2, <3>3, LiveBegan DEF CleanRuns
  <2>5. id[r] \notin watched
    <3> SUFFICES ASSUME id[r] \in watched PROVE FALSE
      OBVIOUS
    <3>1. PICK p \in Pollers : poll[p] # None /\ id[poll[p]] = id[r]
      BY <1>2 DEF Inv, JobsOK
    <3>2. poll[p] \in Runs /\ Clean(poll[p])
      BY <1>2, <3>1 DEF Inv, TypeOK, Clean
    <3>3. Known(poll[p])
      BY <1>2, <3>2 DEF Inv, UseOK, InUse
    <3> QED BY <1>2, <2>3, <3>1, <3>3 DEF Known
  <2>6. enq' = [enq EXCEPT ![r] = @ + 1]
    BY <1>2, <2>1, <2>2, <2>3, <2>4, <2>5 DEF ForegroundTimesOut
  <2> QED BY <1>2, <2>6 DEF Inv, TypeOK
<1> DEFINE Repeats == \A r \in Runs : r \in handed /\ Clean(r) /\ disposal # "done" => shown'[r] = shown[r]
           Resumes == \A r \in Runs :
                          /\ fg[r] = "waiting" /\ fg'[r] = "backgrounded"
                          /\ status[r] \in {"completed", "failed"}
                          /\ r \notin handed /\ disposal = "no" /\ Clean(r)
                          /\ \A p \in Pollers : poll[p] # r
                          => enq'[r] > 0
<1>3. Inv /\ [Next]_vars => [Repeats]_vars
  BY <1>1
<1>4. Inv /\ [Next]_vars => [Resumes]_vars
  BY <1>2
<1>5. Spec => [][Repeats]_vars
  <2> HIDE DEF Repeats
  <2> QED BY <1>3, InvAlways, PTL DEF Spec
<1>6. Spec => [][Resumes]_vars
  <2> HIDE DEF Resumes
  <2> QED BY <1>4, InvAlways, PTL DEF Spec
<1> QED BY <1>5, <1>6 DEF HandedOnce, HandedNotShown, ResumedIsQueued
=============================================================================
