------------------------------ MODULE TaskSpawns -------------------------------
(***************************************************************************)
(* How the task tool bounds its subagents (packages/coding-agent/src/task/ *)
(* parallel.ts, index.ts): the Semaphore of a session, the fan-outs of     *)
(* mapWithConcurrencyLimit, whose items take a permit each, and the spawns *)
(* that run alone (a background job, or a call with one item).  A fan-out  *)
(* that is not in Gated takes no permits: worktree.ts reads files so.      *)
(*                                                                         *)
(* A worker is known by the item it works on; what it does between two     *)
(* awaits is a step.  A call launches its workers without an await, so     *)
(* nothing else runs until the last of them waits.                         *)
(*                                                                         *)
(* Definitions named ..._Fault are not part of the model: each is a bug    *)
(* the definition after it could have, for which a property must fail.     *)
(***************************************************************************)
EXTENDS Integers, FiniteSets, Sequences

CONSTANTS
    Fanouts,            \* calls of mapWithConcurrencyLimit
    Gated,              \* those whose items take a permit
    ItemsOf, LimitOf,   \* the number of items of a fan-out, and of its workers
    Singles,            \* spawns of their own
    Jobs,               \* those that are background jobs
    Max                 \* task.maxConcurrency

Items == UNION {{c} \X (1 .. ItemsOf[c]) : c \in Fanouts}
Spawns == Singles \cup Items
Permitted == Singles \cup {t \in Items : t[1] \in Gated}
None == "none"

ASSUME CallsAssumption ==
    /\ Gated \subseteq Fanouts /\ Jobs \subseteq Singles /\ None \notin Fanouts
    /\ ItemsOf \in [Fanouts -> Nat] /\ LimitOf \in [Fanouts -> Nat \ {0}]
    /\ Singles \cap Items = {}
ASSUME MaxAssumption == Max \in Nat \ {0}

VARIABLES
    task,       \* of each spawn: "queued" and "granted" await acquire(), "done" and
                \* "failed" have settled and their worker has not seen it
    current,    \* #current of the semaphore
    queue,      \* #queue: the spawns whose resolve functions it holds
    calling,    \* the fan-out that launches its workers, or None
    call,       \* each fan-out: nextIndex, workers launched and not yet returned, the internal
                \* abort, the results, and what the call has returned
    aborted     \* the fan-outs and jobs whose signal is aborted

semaphore == <<current, queue>>
vars == <<task, semaphore, calling, call, aborted>>

States == {"none", "queued", "granted", "running", "done", "failed", "over"}
CallRecord ==
    [phase : {"idle", "running", "returned", "threw"}, next : Nat, launched : Nat, live : Int,
     failed : BOOLEAN, results : SUBSET Nat, returned : SUBSET Nat, saidAborted : BOOLEAN]

TypeOK ==
    /\ task \in [Spawns -> States]
    /\ current \in 0 .. Max /\ queue \in Seq(Permitted)
    /\ calling \in Fanouts \cup {None}
    /\ call \in [Fanouts -> CallRecord]
    /\ \A c \in Fanouts :
        /\ call[c].launched <= LimitOf[c] /\ call[c].live \in 0 .. call[c].launched
        /\ call[c].results \subseteq 1 .. call[c].next - 1 /\ call[c].next <= ItemsOf[c] + 1
    /\ aborted \subseteq Fanouts \cup Jobs

Init ==
    /\ task = [t \in Spawns |-> "none"]
    /\ current = 0 /\ queue = <<>>
    /\ calling = None
    /\ call = [c \in Fanouts |->
                [phase |-> "idle", next |-> 1, launched |-> 0, live |-> 0, failed |-> FALSE,
                 results |-> {}, returned |-> {}, saidAborted |-> FALSE]]
    /\ aborted = {}

-----------------------------------------------------------------------------
(* The semaphore.  tk is what the step has made of the tasks so far.       *)

Acquire(tk, t) ==
    IF current < Max
    THEN /\ task' = [tk EXCEPT ![t] = "granted"]
         /\ current' = current + 1
         /\ UNCHANGED queue
    ELSE /\ task' = [tk EXCEPT ![t] = "queued"]
         /\ queue' = Append(queue, t)
         /\ UNCHANGED current

\* The first waiter takes the permit over.
Release_Idle_Fault(tk) ==
    /\ current' = current - 1
    /\ task' = tk
    /\ UNCHANGED queue
Release_Newest_Fault(tk) ==
    IF queue # <<>>
    THEN /\ task' = [tk EXCEPT ![queue[Len(queue)]] = "granted"]
         /\ queue' = SubSeq(queue, 1, Len(queue) - 1)
         /\ UNCHANGED current
    ELSE /\ current' = current - 1
         /\ task' = tk
         /\ UNCHANGED queue
Release(tk) ==
    IF queue # <<>>
    THEN /\ task' = [tk EXCEPT ![Head(queue)] = "granted"]
         /\ queue' = Tail(queue)
         /\ UNCHANGED current
    ELSE /\ current' = current - 1
         /\ task' = tk
         /\ UNCHANGED queue

-----------------------------------------------------------------------------
(* mapWithConcurrencyLimit.                                                *)

\* workerSignal.aborted
Stopped(c) == c \in aborted \/ call[c].failed

\* A worker takes the next item, unless the work has been stopped or is used up.
Takes(c) == ~Stopped(c) /\ call[c].next <= ItemsOf[c]

\* One turn of a worker's loop up to its next await; cl is the call as the step has left it.
Loop(tk, c, cl) ==
    IF Takes(c)
    THEN /\ call' = [call EXCEPT ![c] = [cl EXCEPT !.next = @ + 1]]
         /\ IF <<c, cl.next>> \in Permitted
            THEN Acquire(tk, <<c, cl.next>>)
            ELSE task' = [tk EXCEPT ![<<c, cl.next>>] = "running"] /\ UNCHANGED semaphore
    ELSE /\ call' = [call EXCEPT ![c] = [cl EXCEPT !.live = @ - 1]]
         /\ task' = tk /\ UNCHANGED semaphore

Call(c) ==
    /\ calling = None /\ call[c].phase = "idle"
    /\ calling' = c
    /\ call' = [call EXCEPT ![c].phase = "running"]
    /\ UNCHANGED <<task, semaphore, aborted>>

Launch(c) ==
    /\ calling = c
    /\ LET cl == [call[c] EXCEPT !.launched = @ + 1, !.live = @ + 1]
       IN /\ Loop(task, c, cl)
          /\ calling' = IF cl.launched = LimitOf[c] THEN None ELSE c
    /\ UNCHANGED aborted

\* The item has been answered, and its worker goes on.
Stores(c, i) ==
    /\ calling = None /\ task[<<c, i>>] = "done"
    /\ Loop([task EXCEPT ![<<c, i>>] = "over"], c, [call[c] EXCEPT !.results = @ \cup {i}])
    /\ UNCHANGED <<calling, aborted>>

\* It threw after the work was stopped: the worker goes on, and returns.
Swallows(c, i) ==
    /\ calling = None /\ task[<<c, i>>] = "failed" /\ Stopped(c)
    /\ Loop([task EXCEPT ![<<c, i>>] = "over"], c, call[c])
    /\ UNCHANGED <<calling, aborted>>

\* It threw: the first to do so stops the others and fails the call.
FailsFast(c, i) ==
    /\ calling = None /\ task[<<c, i>>] = "failed" /\ ~Stopped(c)
    /\ task' = [task EXCEPT ![<<c, i>>] = "over"]
    /\ call' = [call EXCEPT ![c].failed = TRUE, ![c].live = @ - 1]
    /\ UNCHANGED <<semaphore, calling, aborted>>

\* The race has settled, and the function goes on after it.
Settled_FirstWorker_Fault(c) == call[c].failed \/ call[c].live < call[c].launched
Settled(c) == call[c].failed \/ call[c].live = 0

Return(c) ==
    /\ calling = None /\ call[c].phase = "running" /\ Settled(c)
    /\ call' = [call EXCEPT
        ![c].phase = IF call[c].failed /\ c \notin aborted THEN "threw" ELSE "returned",
        ![c].returned = call[c].results,
        ![c].saidAborted = c \in aborted]
    /\ UNCHANGED <<task, semaphore, calling, aborted>>

-----------------------------------------------------------------------------
(* Spawns.                                                                 *)

\* A spawn of its own acquires in the call that starts it.
Start(t) ==
    /\ calling = None /\ task[t] = "none"
    /\ Acquire(task, t)
    /\ UNCHANGED <<calling, call, aborted>>

\* After `await semaphore.acquire()`: only a job looks at its signal.
Run(t) ==
    /\ calling = None /\ task[t] = "granted"
    /\ t \in Jobs => t \notin aborted
    /\ task' = [task EXCEPT ![t] = "running"]
    /\ UNCHANGED <<semaphore, calling, call, aborted>>

AbortedBeforeRun_Kept_Fault(t) ==
    /\ calling = None /\ task[t] = "granted" /\ t \in Jobs \cap aborted
    /\ task' = [task EXCEPT ![t] = "over"]
    /\ UNCHANGED <<semaphore, calling, call, aborted>>
AbortedBeforeRun(t) ==
    /\ calling = None /\ task[t] = "granted" /\ t \in Jobs \cap aborted
    /\ Release([task EXCEPT ![t] = "over"])
    /\ UNCHANGED <<calling, call, aborted>>

\* #executeSync returns or throws; the finally block gives the permit back.
End(t, outcome) ==
    /\ calling = None /\ task[t] = "running"
    /\ LET tk == [task EXCEPT ![t] = IF t \in Singles THEN "over" ELSE outcome]
       IN IF t \in Permitted THEN Release(tk) ELSE task' = tk /\ UNCHANGED semaphore
    /\ UNCHANGED <<calling, call, aborted>>

\* The user interrupts the turn, or cancels a job.
Abort(x) ==
    /\ calling = None /\ x \notin aborted
    /\ aborted' = aborted \cup {x}
    /\ UNCHANGED <<task, semaphore, calling, call>>

-----------------------------------------------------------------------------
Finishes(t) == \E outcome \in {"done", "failed"} : End(t, outcome)
Progress(t) == Run(t) \/ AbortedBeforeRun(t) \/ Finishes(t)
Resumes(t) == Stores(t[1], t[2]) \/ Swallows(t[1], t[2]) \/ FailsFast(t[1], t[2])

Next ==
    \/ \E c \in Fanouts : Call(c) \/ Launch(c) \/ Return(c)
    \/ \E t \in Items : Resumes(t)
    \/ \E t \in Singles : Start(t)
    \/ \E t \in Spawns : Progress(t)
    \/ \E x \in Gated \cup Jobs : Abort(x)

\* Subagents end and awaited promises go on.  Nobody has to call or abort anything.
Fairness ==
    /\ \A c \in Fanouts : WF_vars(Launch(c)) /\ WF_vars(Return(c))
    /\ \A t \in Items : WF_vars(Resumes(t))
    /\ \A t \in Spawns : WF_vars(Progress(t))

Spec == Init /\ [][Next]_vars /\ Fairness

-----------------------------------------------------------------------------
(* Properties.                                                             *)

Holders == {t \in Permitted : task[t] \in {"granted", "running"}}
Waiting == {t \in Permitted : task[t] = "queued"}

\* The semaphore's number is the number of spawns that hold a permit, however they came by
\* it and whichever way they end: it is never above task.maxConcurrency, nobody waits while a
\* permit is free, and who waits is queued once.
PermitsCounted ==
    /\ IsFiniteSet(Holders) /\ current = Cardinality(Holders) /\ current <= Max
    /\ queue # <<>> => current = Max
    /\ {queue[k] : k \in DOMAIN queue} = Waiting
    /\ \A j, k \in DOMAIN queue : queue[j] = queue[k] => j = k

\* Permits go to those who waited, in the order they came: nobody overtakes the queue.
NobodyOvertakes ==
    [][\A t \in Permitted :
        task[t] \notin {"granted", "running"} /\ task'[t] = "granted"
            => queue = <<>> \/ t = Head(queue)]_vars

\* What a fan-out says is true: a call that returns without `aborted` has every result; one that
\* returns aborted lacks only items that were not taken or threw, or was cut short by a
\* failure; one that throws had an item that threw while nobody had stopped it.
TruthfulReturn ==
    TypeOK /\ \A c \in Fanouts :
        LET cl == call[c] IN
        /\ cl.phase = "returned" /\ ~cl.saidAborted => cl.returned = 1 .. ItemsOf[c]
        /\ cl.phase = "returned" /\ ~cl.failed =>
              \A i \in 1 .. ItemsOf[c] : task[<<c, i>>] \in {"none", "over"}
        /\ cl.phase = "threw" => cl.failed /\ ~cl.saidAborted

\* An abort or a failure of one call does not cost the session its permits: every spawn that
\* has begun comes to its end, every call returns, and all permits are free in the end.
EverythingSettles ==
    /\ \A t \in Spawns : task[t] # "none" ~> task[t] = "over"
    /\ \A c \in Fanouts : call[c].phase = "running" ~> call[c].phase \in {"returned", "threw"}
    /\ <>[](current = 0)

=============================================================================
