------------------------------ MODULE WorkerPool -------------------------------
(***************************************************************************)
(* Robomp's event queue and worker pool: python/robomp/src/queue.py with   *)
(* the events table (db.py), the pool of slot uids (slot_pool.py), the     *)
(* worker thread that drives one amaze subprocess per event (worker.py,    *)
(* cancellation.py) and the requests that reach them (server.py).          *)
(*                                                                         *)
(* Three kinds of actors interleave: the asyncio loop (dispatcher, one     *)
(* _run_event task per claimed event, the API), the threads that           *)
(* asyncio.to_thread starts (database calls of the dispatcher, the RPC     *)
(* driver of each event), and the process, which stops, dies and starts    *)
(* again over the same database.  A step is what one of them does between  *)
(* two points where another may run.                                       *)
(*                                                                         *)
(* Definitions named ..._Fault are not part of the model: each is a bug    *)
(* the definition after it could have, for which a property must fail.     *)
(***************************************************************************)
EXTENDS Naturals, Sequences, FiniteSets, SequencesExt

CONSTANTS
    Events,     \* deliveries, by delivery_id
    IssueOf,    \* issue_key of each
    Slots,      \* slot uids, one amaze subprocess at a time each
    MaxRetries, \* event_max_retries
    MaxRestarts, MaxCancels, MaxReruns  \* bounds: exits, operator requests

None == "none"

ASSUME EventsAssumption == IsFiniteSet(Events) /\ None \notin Events /\ DOMAIN IssueOf = Events
ASSUME SlotsAssumption == IsFiniteSet(Slots) /\ Slots # {} /\ None \notin Slots
ASSUME BoundsAssumption == {MaxRetries, MaxRestarts, MaxCancels, MaxReruns} \subseteq Nat

VARIABLES
    row, attempts,  \* the events table: state and attempts of each delivery
    backoff,        \* queued rows whose available_at is still ahead
    received,       \* the deliveries in the order of received_at
    up,             \* the process runs
    stopping,       \* WorkerPool.stop: "no", "drain", "kill", "done"
    victims,        \* tasks stop() has yet to interrupt
    disp,           \* the dispatcher: "idle", "claiming", "claimed", "putback",
                    \* "nap" under _inflight_lock; "off", with a database call of
                    \* it still running: "strayclaim", "strayback"
    cand,           \* the event it has claimed
    inflight,       \* _inflight: issues with a task
    task,           \* _run_event: "none", "slot" (waits for one), "run", "release"
    slot, free,     \* the uid each task or thread was given; those in the pool
    thread,         \* the RPC driver: "none", "prep", "spawned" (client runs, hook not
                    \* armed), "unmarked" (_arm_cancel has seen no cancellation),
                    \* "armed"; how it ended: "ok", "fail", "stopped"
    client,         \* the uid of the event's amaze subprocess, None without one
    cancelled, shutdownCancelled,   \* _cancelled, _shutdown_cancelled
    hooks,          \* _cancel_hooks
    firing,         \* hooks popped and handed to a thread, not run yet
    restarts, cancels, reruns,      \* history: bounded above
    asked           \* history: cancellations answered 202 by this process, not settled

table == <<row, attempts, backoff, received>>
process == <<up, stopping, victims, restarts>>
dispatcher == <<disp, cand>>
work == <<task, slot, free, thread, client, inflight>>
marks == <<cancelled, shutdownCancelled, hooks, firing>>
requests == <<cancels, reruns, asked>>
vars == <<table, process, dispatcher, work, marks, requests>>

TypeOK ==
    /\ row \in [Events -> {"absent", "queued", "running", "done", "failed"}]
    /\ attempts \in [Events -> Nat]
    /\ backoff \subseteq {e \in Events : row[e] = "queued"}
    /\ received \in Seq(Events) /\ IsInjective(received)
    /\ ToSet(received) = {e \in Events : row[e] # "absent"}
    /\ up \in BOOLEAN /\ stopping \in {"no", "drain", "kill", "done"}
    /\ victims \subseteq Events
    /\ disp \in {"idle", "claiming", "claimed", "putback", "nap", "off", "strayclaim", "strayback"}
    /\ cand \in Events \cup {None}
    /\ inflight \subseteq {IssueOf[e] : e \in Events}
    /\ task \in [Events -> {"none", "slot", "run", "release"}]
    /\ slot \in [Events -> Slots \cup {None}]
    /\ client \in [Events -> Slots \cup {None}]
    /\ free = Slots \ {slot[e] : e \in {f \in Events : task[f] = "run"}}
    /\ thread \in [Events -> {"none", "prep", "spawned", "unmarked", "armed", "ok", "fail", "stopped"}]
    /\ cancelled \subseteq Events /\ shutdownCancelled \subseteq Events
    /\ hooks \subseteq {e \in Events : thread[e] = "armed"}
    /\ firing \subseteq {e \in Events : thread[e] = "armed"}
    /\ asked \subseteq Events
    /\ restarts \in 0 .. MaxRestarts /\ cancels \in 0 .. MaxCancels /\ reruns \in 0 .. MaxReruns

Init ==
    /\ row = [e \in Events |-> "absent"]
    /\ attempts = [e \in Events |-> 0]
    /\ backoff = {} /\ received = <<>>
    /\ up = TRUE /\ stopping = "no" /\ victims = {} /\ restarts = 0
    /\ disp = "idle" /\ cand = None
    /\ inflight = {}
    /\ task = [e \in Events |-> "none"]
    /\ slot = [e \in Events |-> None]
    /\ free = Slots
    /\ thread = [e \in Events |-> "none"]
    /\ client = [e \in Events |-> None]
    /\ cancelled = {} /\ shutdownCancelled = {} /\ hooks = {} /\ firing = {}
    /\ cancels = 0 /\ reruns = 0 /\ asked = {}

-----------------------------------------------------------------------------
(* Requests.  The server has stopped answering when stop() is called.      *)

Serving == up /\ stopping = "no"
Inactive == {"done", "failed"}

\* The row of e is written anew, with the latest received_at.
Position(e) == CHOOSE k \in DOMAIN received : received[k] = e
Stamped(e) ==
    IF e \in ToSet(received) THEN Append(RemoveAt(received, Position(e)), e) ELSE Append(received, e)

\* The webhook: record_event ignores a delivery the table already holds.
Recorded_Replaced_Fault(e) == row[e] \in {"queued", "running"}
Recorded(e) == row[e] # "absent"

Receive(e) ==
    /\ Serving
    /\ ~Recorded(e)
    /\ row' = [row EXCEPT ![e] = "queued"]
    /\ received' = Stamped(e)
    /\ UNCHANGED <<attempts, backoff, process, dispatcher, work, marks, requests>>

\* POST /api/retry: only an inactive row is queued again.
Retry(e) ==
    /\ Serving
    /\ row[e] \in Inactive /\ reruns < MaxReruns
    /\ reruns' = reruns + 1
    /\ row' = [row EXCEPT ![e] = "queued"]
    /\ UNCHANGED <<attempts, backoff, received, process, dispatcher, work, marks, cancels, asked>>

\* Manual triage replaces the row: a new receipt and a new retry budget.
Retrigger(e) ==
    /\ Serving
    /\ row[e] \in Inactive /\ reruns < MaxReruns
    /\ reruns' = reruns + 1
    /\ row' = [row EXCEPT ![e] = "queued"]
    /\ attempts' = [attempts EXCEPT ![e] = 0]
    /\ received' = Stamped(e)
    /\ UNCHANGED <<backoff, process, dispatcher, work, marks, cancels, asked>>

\* POST /api/cancel of a running row: the delivery is marked whatever its task
\* does, and a hook that is armed is fired on a thread.
Cancel(e) ==
    /\ Serving
    /\ row[e] = "running" /\ cancels < MaxCancels
    /\ cancels' = cancels + 1
    /\ asked' = asked \cup {e}
    /\ cancelled' = cancelled \cup {e}
    /\ hooks' = hooks \ {e}
    /\ firing' = IF e \in hooks THEN firing \cup {e} ELSE firing
    /\ UNCHANGED <<table, process, dispatcher, work, shutdownCancelled, reruns>>

-----------------------------------------------------------------------------
(* The dispatcher.  _inflight_lock is held from "claiming" to the end of   *)
(* "nap"; asyncio's lock is fair, so a task that waits to release its key  *)
(* goes before the next claim.  The pauses of the loop (10 s without work, *)
(* a wake-up) end at any moment.                                           *)

BeginClaim ==
    /\ up /\ stopping = "no" /\ disp = "idle"
    /\ \A e \in Events : task[e] # "release"
    /\ disp' = "claiming"
    /\ UNCHANGED <<table, process, cand, work, marks, requests>>

\* claim_next_event: the oldest queued row that is due and whose issue has no
\* running row.
Claimable(e) ==
    /\ row[e] = "queued" /\ e \notin backoff
    /\ ~ \E f \in Events : row[f] = "running" /\ IssueOf[f] = IssueOf[e]

Oldest(k) == Claimable(received[k]) /\ \A j \in 1 .. k - 1 : ~Claimable(received[j])

ClaimReturns ==
    /\ up /\ disp \in {"claiming", "strayclaim"}
    /\ \/ /\ \A e \in Events : ~Claimable(e)
          /\ disp' = IF disp = "claiming" THEN "idle" ELSE "off"
          /\ UNCHANGED <<row, attempts, cand>>
       \/ \E k \in DOMAIN received :
          /\ Oldest(k)
          /\ row' = [row EXCEPT ![received[k]] = "running"]
          /\ attempts' = [attempts EXCEPT ![received[k]] = @ + 1]
          /\ disp' = IF disp = "claiming" THEN "claimed" ELSE "off"
          /\ cand' = IF disp = "claiming" THEN received[k] ELSE None
    /\ UNCHANGED <<backoff, received, process, work, marks, requests>>

\* The claim window: the row of a finished task no longer runs while its issue
\* is still in _inflight.
Taken(e) == IssueOf[e] \in inflight

PutBackBegins ==
    /\ up /\ disp = "claimed" /\ Taken(cand)
    /\ disp' = "putback"
    /\ UNCHANGED <<table, process, cand, work, marks, requests>>

\* requeue_event from "running"; the dispatcher sleeps half a second with the lock.
PutBack ==
    /\ up /\ disp \in {"putback", "strayback"}
    /\ row' = [row EXCEPT ![cand] = IF @ = "running" THEN "queued" ELSE @]
    /\ disp' = IF disp = "putback" THEN "nap" ELSE "off"
    /\ cand' = None
    /\ UNCHANGED <<attempts, backoff, received, process, work, marks, requests>>

NapEnds ==
    /\ up /\ disp = "nap"
    /\ disp' = "idle"
    /\ UNCHANGED <<table, process, cand, work, marks, requests>>

\* The key is taken, the lock released and the task created in one step.
Dispatch ==
    /\ up /\ disp = "claimed" /\ ~Taken(cand)
    /\ inflight' = inflight \cup {IssueOf[cand]}
    /\ task' = [task EXCEPT ![cand] = "slot"]
    /\ disp' = "idle" /\ cand' = None
    /\ UNCHANGED <<table, process, slot, free, thread, client, marks, requests>>

BackoffEnds(e) ==
    /\ e \in backoff
    /\ backoff' = backoff \ {e}
    /\ UNCHANGED <<row, attempts, received, process, dispatcher, work, marks, requests>>

-----------------------------------------------------------------------------
(* _run_event, on the loop.                                                *)

AcquireSlot(e) ==
    /\ up /\ task[e] = "slot"
    /\ \E s \in free :
        /\ free' = free \ {s}
        /\ slot' = [slot EXCEPT ![e] = s]
    /\ task' = [task EXCEPT ![e] = "run"]
    /\ UNCHANGED <<table, process, dispatcher, thread, client, inflight, marks, requests>>

\* The handler's own work on the loop is over: the RPC driver starts on a
\* thread, or the event needs none, or the handler fails.
HandlerReaches(e) ==
    /\ up /\ task[e] = "run" /\ thread[e] = "none"
    /\ \E next \in {"prep", "ok", "fail"} : thread' = [thread EXCEPT ![e] = next]
    /\ UNCHANGED <<table, process, dispatcher, task, slot, free, client, inflight, marks, requests>>

Ended(e) == thread[e] \in {"ok", "fail", "stopped"}

\* What _dispatch_and_mark and the exception path do to the row.
Settled_Failed_Fault(e) ==
    IF thread[e] = "ok" /\ e \notin cancelled THEN "done" ELSE "failed"
Settled_RetryFirst_Fault(e) ==
    CASE thread[e] = "ok" -> IF e \in cancelled THEN "failed" ELSE "done"
      [] thread[e] # "ok" /\ e \in shutdownCancelled -> "kept"
      [] OTHER -> IF attempts[e] \in 1 .. MaxRetries THEN "retry" ELSE "failed"
Settled(e) ==
    CASE thread[e] = "ok" -> IF e \in cancelled THEN "failed" ELSE "done"
      [] thread[e] # "ok" /\ e \in shutdownCancelled -> "kept"
      [] OTHER -> IF e \notin cancelled /\ attempts[e] \in 1 .. MaxRetries THEN "retry" ELSE "failed"

\* _reap_slot kills what still runs under the uid before the slot is free.
Reaped(e) == [f \in Events |-> IF client[f] = slot[e] THEN None ELSE client[f]]

SettledRow(e, outcome) ==
    CASE outcome = "kept" -> row[e]
      [] outcome = "retry" -> "queued"
      [] OTHER -> outcome

Settle(e) ==
    /\ up /\ task[e] = "run" /\ Ended(e)
    /\ LET outcome == Settled(e) IN
        /\ row' = [row EXCEPT ![e] = SettledRow(e, outcome)]
        /\ backoff' = IF outcome = "retry" THEN backoff \cup {e} ELSE backoff
        /\ asked' = IF outcome = "failed" THEN asked \ {e} ELSE asked
    /\ cancelled' = cancelled \ {e}
    /\ shutdownCancelled' = shutdownCancelled \ {e}
    /\ hooks' = hooks \ {e}
    /\ client' = Reaped(e)
    /\ free' = free \cup {slot[e]}
    /\ slot' = [slot EXCEPT ![e] = None]
    /\ thread' = [thread EXCEPT ![e] = "none"]
    /\ task' = [task EXCEPT ![e] = "release"]
    /\ UNCHANGED <<attempts, received, process, dispatcher, inflight, firing, cancels, reruns>>

\* _release waits for the lock of the dispatcher.
Unlocked == disp \in {"idle", "off", "strayclaim", "strayback"}

Release(e) ==
    /\ up /\ task[e] = "release" /\ Unlocked
    /\ inflight' = inflight \ {IssueOf[e]}
    /\ task' = [task EXCEPT ![e] = "none"]
    /\ UNCHANGED <<table, process, dispatcher, slot, free, thread, client, marks, requests>>

-----------------------------------------------------------------------------
(* The RPC driver on its thread.  It outlives a cancelled task: then       *)
(* nobody takes its result.                                                *)

Outcome(e, o) == IF task[e] = "run" THEN o ELSE "none"

\* The with statement ends the client, the finally clause disarms the hook.
Leave(e, o) ==
    /\ thread' = [thread EXCEPT ![e] = Outcome(e, o)]
    /\ client' = [client EXCEPT ![e] = None]
    /\ slot' = IF task[e] = "run" THEN slot ELSE [slot EXCEPT ![e] = None]
    /\ hooks' = hooks \ {e}
    /\ firing' = firing \ {e}
    /\ UNCHANGED <<table, process, dispatcher, task, free, inflight, cancelled, shutdownCancelled, requests>>

PrepFails(e) == up /\ thread[e] = "prep" /\ Leave(e, "fail")

Spawn(e) ==
    /\ up /\ thread[e] = "prep"
    /\ thread' = [thread EXCEPT ![e] = "spawned"]
    /\ client' = [client EXCEPT ![e] = slot[e]]
    /\ UNCHANGED <<table, process, dispatcher, task, slot, free, inflight, marks, requests>>

\* _arm_cancel looks for a cancellation and then stores the hook: two steps of
\* this thread, with the loop free to run between them.
ArmChecks(e) ==
    /\ up /\ thread[e] = "spawned" /\ e \notin cancelled
    /\ thread' = [thread EXCEPT ![e] = "unmarked"]
    /\ UNCHANGED <<table, process, dispatcher, task, slot, free, client, inflight, marks, requests>>

ArmFires(e) == up /\ thread[e] = "spawned" /\ e \in cancelled /\ Leave(e, "stopped")

ArmStores(e) ==
    /\ up /\ thread[e] = "unmarked"
    /\ thread' = [thread EXCEPT ![e] = "armed"]
    /\ hooks' = hooks \cup {e}
    /\ UNCHANGED <<table, process, dispatcher, task, slot, free, client, inflight,
                   cancelled, shutdownCancelled, firing, requests>>

\* The turn ends, the hard timer stops the client at the latest.
DriveEnds(e) ==
    /\ up /\ thread[e] = "armed"
    /\ \E o \in IF client[e] = None THEN {"fail"} ELSE {"ok", "fail"} : Leave(e, o)

\* A popped hook stops the client and wakes the driver with an error.
HookRuns(e) == up /\ e \in firing /\ Leave(e, "stopped")

-----------------------------------------------------------------------------
(* The process.                                                            *)

\* stop() cancels the dispatcher; a database call it waits for goes on.
StopBegins ==
    /\ Serving /\ restarts < MaxRestarts
    /\ stopping' = "drain"
    /\ disp' = CASE disp = "claiming" -> "strayclaim"
                 [] disp = "putback" -> "strayback"
                 [] OTHER -> "off"
    /\ cand' = IF disp = "putback" THEN cand ELSE None
    /\ UNCHANGED <<table, up, victims, restarts, work, marks, requests>>

Tasks == {e \in Events : task[e] # "none"}

\* The drain timeout has passed, or everything has drained.
DrainEnds ==
    /\ up /\ stopping = "drain"
    /\ stopping' = IF Tasks = {} THEN "done" ELSE "kill"
    /\ victims' = Tasks
    /\ UNCHANGED <<table, up, restarts, dispatcher, work, marks, requests>>

\* stop() goes through its victims and awaits the hook of each that has one; in
\* between, tasks without a hook are cancelled where they wait.  Their finally
\* clauses run when stop() waits next; their threads do not notice.
HookAwaited == \E e \in shutdownCancelled : e \in firing

Interrupt(S) ==
    LET stopped == S \cap hooks
        ended == {e \in S \ hooks : task[e] \in {"slot", "run"}}
        left == {e \in ended : task[e] = "run"}    \* had a slot
        quiet == {e \in ended : thread[e] = "none" \/ Ended(e)}  \* no thread
    IN
    /\ up /\ stopping = "kill" /\ ~HookAwaited
    /\ Cardinality(stopped) <= 1 /\ (stopped = {} => S = victims)
    /\ victims' = victims \ S
    /\ shutdownCancelled' = shutdownCancelled \cup stopped
    /\ hooks' = hooks \ stopped
    /\ firing' = firing \cup stopped
    /\ task' = [e \in Events |-> IF e \in ended THEN "none" ELSE task[e]]
    /\ thread' = [e \in Events |-> IF e \in quiet THEN "none" ELSE thread[e]]
    /\ client' = [e \in Events |-> IF client[e] \in {slot[f] : f \in left} THEN None ELSE client[e]]
    /\ free' = free \cup {slot[e] : e \in left}
    /\ slot' = [e \in Events |-> IF e \in quiet THEN None ELSE slot[e]]
    /\ inflight' = inflight \ {IssueOf[e] : e \in ended}
    /\ cancelled' = cancelled \ ended
    /\ UNCHANGED <<table, up, stopping, restarts, dispatcher, requests>>

\* Every task is interrupted, and the settling time is over.
StopReturns ==
    /\ up /\ stopping = "kill" /\ victims = {} /\ ~HookAwaited
    /\ stopping' = "done"
    /\ UNCHANGED <<table, up, victims, restarts, dispatcher, work, marks, requests>>

\* The process exits or is killed.  Its threads are gone, the amaze
\* subprocesses it had started may go on.
Exit ==
    /\ up /\ restarts < MaxRestarts
    /\ up' = FALSE /\ restarts' = restarts + 1
    /\ stopping' = "no" /\ victims' = {}
    /\ disp' = "idle" /\ cand' = None
    /\ task' = [e \in Events |-> "none"] /\ thread' = [e \in Events |-> "none"]
    /\ slot' = [e \in Events |-> None] /\ free' = Slots /\ inflight' = {}
    /\ \E left \in SUBSET {e \in Events : client[e] # None} :
        client' = [e \in Events |-> IF e \in left THEN client[e] ELSE None]
    /\ cancelled' = {} /\ shutdownCancelled' = {} /\ hooks' = {} /\ firing' = {}
    /\ asked' = {}
    /\ UNCHANGED <<table, cancels, reruns>>

Survivors_All_Fault == client
Survivors == [e \in Events |-> None]

\* start(): _reap_all_slots kills what runs under any uid, reset_stuck_running
\* queues what was running.
Start ==
    /\ ~up
    /\ up' = TRUE
    /\ client' = Survivors
    /\ row' = [e \in Events |-> IF row[e] = "running" THEN "queued" ELSE row[e]]
    /\ UNCHANGED <<attempts, backoff, received, stopping, victims, restarts, dispatcher,
                   task, slot, free, thread, inflight, marks, requests>>

-----------------------------------------------------------------------------
Dispatcher == BeginClaim \/ ClaimReturns \/ PutBackBegins \/ PutBack \/ NapEnds \/ Dispatch
TaskOf(e) == AcquireSlot(e) \/ HandlerReaches(e) \/ Settle(e) \/ Release(e)
ThreadOf(e) ==
    \/ PrepFails(e) \/ Spawn(e) \/ ArmChecks(e) \/ ArmFires(e) \/ ArmStores(e)
    \/ DriveEnds(e) \/ HookRuns(e)
Stop == DrainEnds \/ StopReturns \/ \E S \in SUBSET victims : S # {} /\ Interrupt(S)

Next ==
    \/ \E e \in Events : Receive(e) \/ Retry(e) \/ Retrigger(e) \/ Cancel(e)
    \/ Dispatcher
    \/ \E e \in Events : TaskOf(e) \/ ThreadOf(e) \/ BackoffEnds(e)
    \/ StopBegins \/ Stop \/ Exit \/ Start

\* The loop and the threads run, the hard timer bounds a turn, backoffs end, a
\* stop goes on to the exit, and the process is started again.
Fairness ==
    /\ WF_vars(Dispatcher) /\ WF_vars(Stop) /\ WF_vars(Start)
    /\ WF_vars(stopping = "done" /\ Exit)
    /\ \A e \in Events : WF_vars(TaskOf(e)) /\ WF_vars(ThreadOf(e)) /\ WF_vars(BackoffEnds(e))

Spec == Init /\ [][Next]_vars /\ Fairness

-----------------------------------------------------------------------------
(* Properties.                                                             *)

\* Neither a crash that leaves subprocesses behind nor a claim in the window of
\* a finishing task makes two amaze subprocesses work on one issue (_inflight,
\* claim_next_event, _reap_slot, _reap_all_slots); a slot is free when no task has it.
OneClientPerIssue ==
    /\ TypeOK
    /\ \A e, f \in Events :
          client[e] # None /\ client[f] # None /\ e # f => IssueOf[e] # IssueOf[f]

\* Until stop() cancels tasks, no two subprocesses run under one uid.
OneClientPerSlot ==
    stopping = "no" =>
        \A e, f \in Events : client[e] # None /\ client[e] = client[f] => e = f

\* Shutting down fails no event: one that stop() interrupts stays running in the
\* table for the next start, whatever its thread makes of the dead client.
StopFailsNothing ==
    [][\A e \in Events :
        row[e] = "running" /\ row'[e] = "failed"
        => e \in asked \/ (thread[e] = "fail" /\ e \notin shutdownCancelled)]_vars

\* The table, the tasks and the threads together keep the promise of the ledger:
\* issues are worked on one event at a time, and nothing accepted is lost or done
\* twice without an operator asking.
Busy(e) == client[e] # None \/ thread[e] # "none" \/ task[e] = "run"
Stage(e) ==
    CASE Busy(e) -> "working"
      [] ~Busy(e) /\ row[e] \in {"queued", "running"} -> "waiting"
      [] OTHER -> row[e]
Ledger == INSTANCE EventLedger WITH ledger <- [e \in Events |-> Stage(e)], asked <- reruns
ImplementsLedger == Ledger!Spec

\* Every event the queue accepts is done or given up in the end: through put
\* backs, retries, restarts and operators.
EventsSettle == \A e \in Events : row[e] \in {"queued", "running"} ~> row[e] \in Inactive

\* A cancellation the API answered ends in a failed row, unless the process
\* exits first: not in a retry, and not in a done row.
CancelEndsFailed == \A e \in Events : e \in asked ~> e \notin asked

\* Every event comes to rest, and as the operator was told.
AllSettle == EventsSettle /\ CancelEndsFailed

\* cancel_event: "Marks the delivery as cancelled regardless of whether a worker
\* is currently armed, so a late-armed hook still observes the request".
LateHookObserves == cancelled \cap hooks = {}

\* stop: a cancelled task "cannot proceed to spawn a fresh subprocess after
\* stop() returns".
NoSpawnAfterStop ==
    [][\A e \in Events : client[e] = None /\ client'[e] # None => stopping # "done"]_vars
=============================================================================
