------------------------------- MODULE AsyncJobs -------------------------------
(***************************************************************************)
(* Background jobs and the delivery of their results to the agent:         *)
(* packages/coding-agent/src/async/job-manager.ts, with the callers that   *)
(* wait for a job (tools/bash.ts in the foreground, tools/job.ts polling)  *)
(* and the queue that shows a delivered result (sdk.ts, yield-queue.ts).   *)
(*                                                                         *)
(* A run is one registration.  The manager knows a run by its id, which is *)
(* free again once the job is evicted: ids are reused, runs are not.       *)
(*                                                                         *)
(* Definitions named ..._Fault are not part of the model: each is a bug    *)
(* the definition after it could have, for which a property must fail.     *)
(***************************************************************************)
EXTENDS Naturals, Sequences, FiniteSets, SequencesExt

CONSTANTS
    Runs,       \* registrations, as numbers from 1 (bound)
    Ids,        \* job ids (bound)
    Owners,     \* registry ids of the agents that own jobs
    Batched,    \* runs that may have to wait for their batch's semaphore (bound)
    Pollers,    \* `job` tool calls that may wait at the same time
    MaxRunning, \* #maxRunningJobs
    MaxFails    \* bound: failed deliveries

None == 0       \* no run, undefined

ASSUME SetsAssumption == None \notin Runs /\ None \notin Owners /\ None \notin Ids
ASSUME LimitsAssumption == MaxRunning \in Nat \ {0} /\ MaxFails \in Nat

VARIABLES
    jobs,       \* #jobs: the run registered under each id, or None
    id, owner, status, queued, \* of each run's AsyncJob
    silent,     \* deliverOnSuccess = false
    pending,    \* runs whose promise is not settled
    suppressed, watched, timers,    \* #suppressedDeliveries, #watchedJobs, #evictionTimers
    deliveries, \* #deliveries
    inFlight,   \* deliveries handed to onJobComplete, not settled yet
    loop,       \* where #runDeliveryLoop is: "none", "top", "sleep", "deliver", "exit"
    cur,        \* the delivery the loop sleeps or waits for
    entries,    \* "async-result" entries of the yield queue
    fg, poll,   \* foreground waits; the run each poller waits for
    disposal,   \* "no", "closing" (dispose awaits its jobs), "done"
    enq, shown, handed, fails,  \* history: enqueued, shown by the queue, returned by a tool
    marked,     \* history: runs that left the queued state
    lost,       \* history: runs whose promise was pending when their id was evicted
    overtaken   \* history: ids evicted while somebody was still concerned with a run under them

job == <<jobs, id, owner, status, queued, silent, pending, marked>>
marks == <<suppressed, watched, timers>>
channel == <<deliveries, inFlight, loop, cur, entries, enq, shown, fails>>
callers == <<fg, poll, handed>>
late == <<lost, overtaken>>
vars == <<job, marks, channel, callers, disposal, late>>

NoDelivery == [run |-> None, n |-> 0, owner |-> None]
Delivery == [run: Runs, n: Nat, owner: Owners \cup {None}]
Statuses == {"none", "running", "completed", "failed", "cancelled"}

TypeOK ==
    /\ jobs \in [Ids -> Runs \cup {None}]
    /\ id \in [Runs -> Ids \cup {None}]
    /\ owner \in [Runs -> Owners \cup {None}]
    /\ status \in [Runs -> Statuses]
    /\ queued \subseteq Runs /\ silent \subseteq Runs /\ pending \subseteq Runs
    /\ {r \in Runs : status[r] = "running"} \subseteq pending
    /\ suppressed \subseteq Ids /\ watched \subseteq Ids /\ timers \subseteq Ids
    /\ deliveries \in Seq(Delivery) /\ inFlight \subseteq Delivery /\ entries \subseteq Delivery
    /\ loop \in {"none", "top", "sleep", "deliver", "exit"}
    /\ cur \in Delivery \cup {NoDelivery}
    /\ fg \in [Runs -> {"no", "waiting", "returned", "backgrounded", "aborted"}]
    /\ poll \in [Pollers -> Runs \cup {None}]
    /\ disposal \in {"no", "closing", "done"}
    /\ enq \in [Runs -> Nat] /\ shown \in [Runs -> Nat]
    /\ handed \subseteq Runs /\ marked \subseteq Runs /\ lost \subseteq Runs /\ overtaken \subseteq Ids
    /\ fails \in 0 .. MaxFails

Init ==
    /\ jobs = [i \in Ids |-> None]
    /\ id = [r \in Runs |-> None]
    /\ owner = [r \in Runs |-> None]
    /\ status = [r \in Runs |-> "none"]
    /\ queued = {} /\ silent = {} /\ pending = {} /\ marked = {}
    /\ suppressed = {} /\ watched = {} /\ timers = {}
    /\ deliveries = <<>> /\ inFlight = {} /\ entries = {}
    /\ loop = "none" /\ cur = NoDelivery
    /\ fg = [r \in Runs |-> "no"]
    /\ poll = [p \in Pollers |-> None]
    /\ disposal = "no"
    /\ enq = [r \in Runs |-> 0] /\ shown = [r \in Runs |-> 0]
    /\ handed = {} /\ fails = 0
    /\ lost = {} /\ overtaken = {}

-----------------------------------------------------------------------------
(* Helpers of the manager.                                                 *)

Suppressed(i) == i \in suppressed \cup watched

Registered == {jobs[i] : i \in Ids} \ {None}
ActiveJobs == {r \in Registered : status[r] = "running" /\ r \notin queued}

RunningJobs == {r \in Registered : status[r] = "running"}

AtCapacity == Cardinality(ActiveJobs) >= MaxRunning

\* #resolveJobId returns an id that is not in #jobs: the lowest free bg_ number
\* or a free variant of the caller's choice.
FreeIds_Any_Fault == Ids
FreeIds == {i \in Ids : jobs[i] = None}

\* #scheduleEviction for a set of ids (retentionMs > 0: every session leaves it
\* at its default).  It restarts a timer that runs.
ScheduleEviction(is) == timers' = timers \cup is

EnsureLoop == loop' = IF loop = "none" THEN "top" ELSE loop

\* #enqueueDelivery: the owner is looked up by id.
Enqueue(r) ==
    IF Suppressed(id[r])
    THEN UNCHANGED <<deliveries, enq, loop>>
    ELSE LET found == jobs[id[r]]
             d == [run |-> r, n |-> enq[r] + 1,
                   owner |-> IF found = None THEN None ELSE owner[found]]
         IN  /\ deliveries' = Append(deliveries, d)
             /\ enq' = [enq EXCEPT ![r] = @ + 1]
             /\ EnsureLoop

\* The deliveries for a set of ids are taken from the queue; the others keep their order.
DropDeliveries(is) ==
    LET kept == {k \in DOMAIN deliveries : id[deliveries[k].run] \notin is}
    IN  \E f \in [1 .. Cardinality(kept) -> kept] :
            /\ \A j, k \in DOMAIN f : j < k => f[j] < f[k]
            /\ deliveries' = [k \in DOMAIN f |-> deliveries[f[k]]]

Acknowledge_QueueOnly_Fault(is) ==
    /\ DropDeliveries(is \cup watched')
    /\ UNCHANGED suppressed

\* acknowledgeDeliveries for a set of ids
Acknowledge(is) ==
    /\ suppressed' = suppressed \cup is
    /\ DropDeliveries(suppressed' \cup watched')

-----------------------------------------------------------------------------
(* register() and the life of a run.                                       *)

RegisterAs(r, i) ==
    /\ disposal = "no"
    /\ status[r] = "none" /\ \A s \in Runs : s < r => status[s] # "none"
    /\ ~AtCapacity
    /\ i \in FreeIds
    /\ jobs' = [jobs EXCEPT ![i] = r]
    /\ id' = [id EXCEPT ![r] = i]
    /\ \E o \in Owners : owner' = [owner EXCEPT ![r] = o]
    /\ status' = [status EXCEPT ![r] = "running"]
    /\ pending' = pending \cup {r}

\* A task (maybe queued behind its batch's semaphore, maybe delivered by other
\* means when it succeeds) or a bash command started in the background.
Register(r) ==
    /\ \E i \in Ids : RegisterAs(r, i) /\ suppressed' = suppressed \ {i}
    /\ \E q \in SUBSET ({r} \cap Batched) : queued' = queued \cup q
    /\ \E s \in {{}, {r}} : silent' = silent \cup s
    /\ UNCHANGED <<marked, watched, timers, channel, callers, disposal, late>>

\* A bash command the tool first waits for: its delivery is suppressed at once.
RegisterForeground(r) ==
    /\ \E i \in Ids :
          /\ RegisterAs(r, i)
          /\ suppressed' = suppressed \cup {i}
          /\ DropDeliveries(suppressed' \cup watched)
    /\ fg' = [fg EXCEPT ![r] = "waiting"]
    /\ UNCHANGED <<queued, silent, marked, watched, timers, inFlight, loop, cur, entries, enq, shown,
                   fails, poll, handed, disposal, late>>

MarkRunning(r) ==
    /\ r \in pending
    /\ r \in queued
    /\ queued' = queued \ {r}
    /\ marked' = marked \cup {r}
    /\ UNCHANGED <<jobs, id, owner, status, silent, pending, marks, channel, callers, disposal, late>>

SettleCancelled_Delivers_Fault(r) ==
    /\ r \in pending
    /\ status[r] = "cancelled"
    /\ pending' = pending \ {r}
    /\ Enqueue(r)
    /\ ScheduleEviction({id[r]})
    /\ UNCHANGED <<jobs, id, owner, status, queued, silent, marked, suppressed, watched, inFlight, cur,
                   entries, shown, fails, callers, disposal, late>>

\* The run settled: its job was cancelled, completed or failed.
SettleCancelled(r) ==
    /\ r \in pending
    /\ status[r] = "cancelled"
    /\ pending' = pending \ {r}
    /\ ScheduleEviction({id[r]})
    /\ UNCHANGED <<jobs, id, owner, status, queued, silent, marked, suppressed, watched, channel,
                   callers, disposal, late>>

Succeed(r) ==
    /\ r \in pending
    /\ status[r] = "running"
    /\ pending' = pending \ {r}
    /\ status' = [status EXCEPT ![r] = "completed"]
    /\ IF r \in silent THEN UNCHANGED <<deliveries, enq, loop>> ELSE Enqueue(r)
    /\ ScheduleEviction({id[r]})
    /\ UNCHANGED <<jobs, id, owner, queued, silent, marked, suppressed, watched, inFlight, cur,
                   entries, shown, fails, callers, disposal, late>>

FailRun(r) ==
    /\ r \in pending
    /\ status[r] = "running"
    /\ pending' = pending \ {r}
    /\ status' = [status EXCEPT ![r] = "failed"]
    /\ Enqueue(r)
    /\ ScheduleEviction({id[r]})
    /\ UNCHANGED <<jobs, id, owner, queued, silent, marked, suppressed, watched, inFlight, cur,
                   entries, shown, fails, callers, disposal, late>>

\* The status change of cancel() and cancelAll() on the running ones of rs
CancelRuns(rs) ==
    LET running == rs \cap RunningJobs
    IN  /\ status' = [r \in Runs |-> IF r \in running THEN "cancelled" ELSE status[r]]
        /\ ScheduleEviction({id[r] : r \in running})

Cancel(i) ==
    /\ jobs[i] # None
    /\ status[jobs[i]] = "running"
    /\ CancelRuns({jobs[i]})
    /\ UNCHANGED <<jobs, id, owner, queued, silent, pending, marked, suppressed, watched, channel,
                   callers, disposal, late>>

\* An agent's session is disposed: its own jobs are cancelled.
CancelAllOf(o) ==
    /\ \E r \in RunningJobs : owner[r] = o
    /\ CancelRuns({r \in Runs : owner[r] = o})
    /\ UNCHANGED <<jobs, id, owner, queued, silent, pending, marked, suppressed, watched, channel,
                   callers, disposal, late>>

\* Somebody may still look a run up by this id.
Busy(i) ==
    \/ \E r \in Runs : id[r] = i /\ (r \in pending \/ fg[r] = "waiting")
    \/ \E p \in Pollers : poll[p] # None /\ id[poll[p]] = i
    \/ \E d \in ToSet(deliveries) \cup inFlight \cup entries : id[d.run] = i

EvictionTimer(i) ==
    /\ i \in timers
    /\ timers' = timers \ {i}
    /\ jobs' = [jobs EXCEPT ![i] = None]
    /\ suppressed' = suppressed \ {i}
    /\ watched' = watched \ {i}
    /\ lost' = lost \cup {r \in pending : id[r] = i}
    /\ overtaken' = IF Busy(i) THEN overtaken \cup {i} ELSE overtaken
    /\ UNCHANGED <<id, owner, status, queued, silent, pending, marked, channel, callers, disposal>>

-----------------------------------------------------------------------------
(* The callers.                                                            *)

\* The foreground wait sees the command end and returns its result: the run resolves
\* `completion` before its own promise settles.
ForegroundReturns(r) ==
    /\ fg[r] = "waiting"
    /\ fg' = [fg EXCEPT ![r] = "returned"]
    /\ handed' = handed \cup {r}
    /\ UNCHANGED <<job, marks, channel, poll, disposal, late>>

\* The wait times out and the command goes on in the background: resumeDeliveries
\* lifts the suppression.  The command may end in the microtasks between the two,
\* but no other tool call runs there and reports it.
ForegroundTimesOut(r) ==
    /\ fg[r] = "waiting"
    /\ r \in pending \/ r \notin handed
    /\ fg' = [fg EXCEPT ![r] = "backgrounded"]
    /\ suppressed' = suppressed \ {id[r]}
    /\ LET found == jobs[id[r]]
           live == ToSet(deliveries) \cup inFlight
       IN  IF /\ id[r] \in suppressed
              /\ found # None /\ status[found] \in {"completed", "failed"}
              /\ \A d \in live : id[d.run] # id[r]
              /\ id[r] \notin watched
           THEN /\ deliveries' = Append(deliveries,
                                        [run |-> found, n |-> enq[found] + 1, owner |-> owner[found]])
                /\ enq' = [enq EXCEPT ![found] = @ + 1]
                /\ EnsureLoop
           ELSE UNCHANGED <<deliveries, enq, loop>>
    /\ UNCHANGED <<job, watched, timers, inFlight, cur, entries, shown, fails, poll, handed, disposal, late>>

\* The tool call is aborted: the command is cancelled by its id.
ForegroundAborts(r) ==
    /\ fg[r] = "waiting"
    /\ r \in pending
    /\ fg' = [fg EXCEPT ![r] = "aborted"]
    /\ CancelRuns({jobs[id[r]]})
    /\ UNCHANGED <<jobs, id, owner, queued, silent, pending, marked, suppressed, watched, channel,
                   poll, handed, disposal, late>>

PollStarts(p, i) ==
    /\ poll[p] = None
    /\ jobs[i] # None /\ status[jobs[i]] = "running"
    /\ poll' = [poll EXCEPT ![p] = jobs[i]]
    /\ watched' = watched \cup {i}
    /\ UNCHANGED <<job, suppressed, timers, channel, fg, handed, disposal, late>>

\* The poll reports the job its id names now and acknowledges it if it is over.
Report(r, i) ==
    LET reported == IF jobs[i] # None THEN jobs[i] ELSE r
    IN  IF status[reported] = "running"
        THEN UNCHANGED <<suppressed, deliveries, handed>>
        ELSE /\ Acknowledge({i})
             /\ handed' = handed \cup {reported}

\* A watched job settled, the wait window elapsed or the call was aborted.
PollReturns(p) ==
    /\ poll[p] # None
    /\ poll' = [poll EXCEPT ![p] = None]
    /\ watched' = watched \ {id[poll[p]]}
    /\ Report(poll[p], id[poll[p]])
    /\ UNCHANGED <<job, timers, inFlight, loop, cur, entries, enq, shown, fails, fg, disposal, late>>

\* A poll of a job that is over returns at once.
PollFinished(i) ==
    /\ jobs[i] # None /\ status[jobs[i]] # "running"
    /\ UNCHANGED watched
    /\ Report(jobs[i], i)
    /\ UNCHANGED <<job, timers, inFlight, loop, cur, entries, enq, shown, fails, fg, poll, disposal, late>>

-----------------------------------------------------------------------------
(* Deliveries.  The loop takes the first one, sleeping until it is due; a  *)
(* drain of one owner takes any of its own meanwhile.                      *)

LoopTop ==
    /\ loop = "top"
    /\ \/ deliveries = <<>> /\ loop' = "exit" /\ UNCHANGED <<deliveries, cur>>
       \/ /\ deliveries # <<>> /\ Suppressed(id[Head(deliveries).run])
          /\ deliveries' = Tail(deliveries)
          /\ UNCHANGED <<loop, cur>>
       \/ /\ deliveries # <<>> /\ ~Suppressed(id[Head(deliveries).run])
          /\ loop' = "sleep" /\ cur' = Head(deliveries)
          /\ UNCHANGED deliveries
    /\ UNCHANGED <<job, marks, inFlight, entries, enq, shown, fails, callers, disposal, late>>

LoopWakes_NoShift_Fault ==
    /\ loop = "sleep"
    /\ IF deliveries = <<>> \/ Head(deliveries) # cur \/ Suppressed(id[cur.run])
       THEN loop' = "top" /\ cur' = NoDelivery /\ UNCHANGED inFlight
       ELSE loop' = "deliver" /\ inFlight' = inFlight \cup {cur} /\ UNCHANGED cur
    /\ UNCHANGED <<job, marks, deliveries, entries, enq, shown, fails, callers, disposal, late>>

\* After the sleep the queue and the suppression are looked at again.
LoopWakes ==
    /\ loop = "sleep"
    /\ IF deliveries = <<>> \/ Head(deliveries) # cur
       THEN loop' = "top" /\ cur' = NoDelivery /\ UNCHANGED <<deliveries, inFlight>>
       ELSE /\ deliveries' = Tail(deliveries)
            /\ IF Suppressed(id[cur.run])
               THEN loop' = "top" /\ cur' = NoDelivery /\ UNCHANGED inFlight
               ELSE loop' = "deliver" /\ inFlight' = inFlight \cup {cur} /\ UNCHANGED cur
    /\ UNCHANGED <<job, marks, entries, enq, shown, fails, callers, disposal, late>>

LoopResumes ==
    /\ loop = "deliver"
    /\ cur \notin inFlight
    /\ loop' = "top" /\ cur' = NoDelivery
    /\ UNCHANGED <<job, marks, deliveries, inFlight, entries, enq, shown, fails, callers, disposal, late>>

LoopExits_NoRestart_Fault ==
    /\ loop = "exit"
    /\ loop' = "none"
    /\ UNCHANGED <<job, marks, deliveries, inFlight, cur, entries, enq, shown, fails, callers, disposal, late>>

\* The loop's promise settled: it is started again if something arrived.
LoopExits ==
    /\ loop = "exit"
    /\ loop' = IF deliveries # <<>> THEN "top" ELSE "none"
    /\ UNCHANGED <<job, marks, deliveries, inFlight, cur, entries, enq, shown, fails, callers, disposal, late>>

\* drainDeliveries with an owner: #deliverNextFiltered
DrainTakes(o) ==
    /\ \E k \in DOMAIN deliveries :
          LET d == deliveries[k]
          IN  /\ d.owner = o
              /\ ~Suppressed(id[d.run])
              /\ deliveries' = RemoveAt(deliveries, k)
              /\ inFlight' = inFlight \cup {d}
    /\ UNCHANGED <<job, marks, loop, cur, entries, enq, shown, fails, callers, disposal, late>>

LoopAfter(ds) == loop' = IF ds # <<>> /\ loop = "none" THEN "top" ELSE loop

\* onJobComplete formats the result, looks at the suppression again and puts
\* the result into the yield queue.
DeliverySucceeds(d) ==
    /\ d \in inFlight
    /\ inFlight' = inFlight \ {d}
    /\ entries' = IF Suppressed(id[d.run]) THEN entries ELSE entries \cup {d}
    /\ LoopAfter(deliveries)
    /\ UNCHANGED <<job, marks, deliveries, cur, enq, shown, fails, callers, disposal, late>>

\* It threw: the delivery is queued again, to be retried after a delay.
DeliveryFails(d) ==
    /\ d \in inFlight
    /\ fails < MaxFails
    /\ fails' = fails + 1
    /\ inFlight' = inFlight \ {d}
    /\ deliveries' = IF Suppressed(id[d.run]) THEN deliveries ELSE Append(deliveries, d)
    /\ LoopAfter(deliveries')
    /\ UNCHANGED <<job, marks, cur, entries, enq, shown, callers, disposal, late>>

\* The agent loop injects the entry, unless it has become stale.  The kind is skipIdleFlush:
\* an idle agent does so with its next prompt only.
ShowEntry(d) ==
    /\ d \in entries
    /\ entries' = entries \ {d}
    /\ shown' = IF Suppressed(id[d.run]) THEN shown ELSE [shown EXCEPT ![d.run] = @ + 1]
    /\ UNCHANGED <<job, marks, deliveries, inFlight, loop, cur, enq, fails, callers, disposal, late>>

-----------------------------------------------------------------------------
(* dispose()                                                               *)

DisposeBegins ==
    /\ disposal = "no"
    /\ disposal' = "closing"
    /\ status' = [r \in Runs |-> IF r \in RunningJobs THEN "cancelled" ELSE status[r]]
    /\ timers' = {id[r] : r \in RunningJobs}
    /\ UNCHANGED <<jobs, id, owner, queued, silent, pending, marked, suppressed, watched, channel,
                   callers, late>>

\* The jobs have settled and the deliveries are drained, or time has run out.
DisposeEnds ==
    /\ disposal = "closing"
    /\ Registered \cap pending = {}
    /\ disposal' = "done"
    /\ jobs' = [i \in Ids |-> None]
    /\ deliveries' = <<>>
    /\ suppressed' = {} /\ watched' = {} /\ timers' = {}
    /\ UNCHANGED <<id, owner, status, queued, silent, pending, marked, inFlight, loop, cur, entries,
                   enq, shown, fails, callers, late>>

RunStep(r) == MarkRunning(r) \/ SettleCancelled(r) \/ Succeed(r) \/ FailRun(r)
CallerStep ==
    \/ \E r \in Runs : ForegroundReturns(r) \/ ForegroundTimesOut(r)
    \/ \E p \in Pollers : PollReturns(p)
LoopStep == LoopTop \/ LoopWakes \/ LoopResumes \/ LoopExits
Deliver(d) == DeliverySucceeds(d) \/ DeliveryFails(d)

Next ==
    \/ \E r \in Runs : Register(r) \/ RegisterForeground(r) \/ ForegroundAborts(r) \/ RunStep(r)
    \/ \E i \in Ids : Cancel(i) \/ EvictionTimer(i) \/ PollFinished(i)
    \/ \E o \in Owners : CancelAllOf(o) \/ DrainTakes(o)
    \/ \E p \in Pollers, i \in Ids : PollStarts(p, i)
    \/ CallerStep \/ LoopStep
    \/ \E d \in inFlight : Deliver(d)
    \/ \E d \in entries : ShowEntry(d)
    \/ DisposeBegins \/ DisposeEnds

Spec == Init /\ [][Next]_vars

\* Waits have time limits, sleeps end and onJobComplete settles (it fails MaxFails times at
\* the most).  Runs need not settle, and an idle agent need not be prompted again.
FairSpec ==
    /\ Spec
    /\ WF_vars(LoopStep)
    /\ \A r \in Runs : WF_vars(ForegroundReturns(r) \/ ForegroundTimesOut(r))
    /\ \A p \in Pollers : WF_vars(PollReturns(p))
    /\ WF_vars(\E d \in inFlight : Deliver(d))

-----------------------------------------------------------------------------
(* Properties.  The marks and the lookups go by id, and nothing keeps an   *)
(* eviction timer from firing while an id is in use: each property names   *)
(* the runs or the ids it then gives up.                                   *)

Clean(r) == id[r] \notin overtaken

\* A run's result has at most one delivery under way, wherever it is.
OneDelivery ==
    \A r \in Runs :
        LET queue == {k \in DOMAIN deliveries : deliveries[k].run = r}
        IN  Clean(r) => Cardinality(queue) + Cardinality({d \in inFlight \cup entries : d.run = r}) <= 1

\* No result is shown twice, whatever resumes, retries and drains overlap.
ShownOnce == \A r \in Runs : Clean(r) => shown[r] <= 1

\* A result reaches the agent at most once, and only one delivery at a time tries to.
AtMostOnce == OneDelivery /\ ShownOnce

\* What a tool call has returned is not repeated by the delivery channel, as long
\* as the manager lives (dispose forgets what was acknowledged).
HandedNotShown ==
    [][\A r \in Runs : r \in handed /\ Clean(r) /\ disposal # "done" => shown'[r] = shown[r]]_vars

\* The result of a cancelled job is never shown, however late its run settles.
CancelledNotShown == \A r \in Runs : status[r] = "cancelled" => shown[r] = 0 /\ enq[r] = 0

\* A delivery is queued for the agent that owns the run (drains go by owner), unless the
\* run was evicted under way: its id may belong to another agent's job by then.
DeliveredToOwner ==
    \A d \in ToSet(deliveries) \cup inFlight \cup entries : d.run \notin lost => d.owner = owner[d.run]

\* The limit counts every run that executes, unless it was admitted as queued or evicted.
WithinLimit ==
    Cardinality({r \in Runs : status[r] = "running" /\ r \notin queued \cup marked \cup lost})
        <= MaxRunning

\* Doc of cancelAll: "with no filter, cancels every running job (used by
\* dispose() ...)".
DisposeCancelsAll == disposal # "no" => \A r \in Runs : status[r] # "running"

\* What a disposal may miss: runs whose id was evicted while they were running.
DisposeMissesLost == disposal # "no" => {r \in Runs : status[r] = "running"} \subseteq lost

\* Doc of resumeDeliveries: a job that "already finished while suppressed" is
\* re-enqueued "so the result is still delivered exactly once".
ResumedIsQueued ==
    [][\A r \in Runs :
          /\ fg[r] = "waiting" /\ fg'[r] = "backgrounded"
          /\ status[r] \in {"completed", "failed"}
          /\ r \notin handed /\ disposal = "no" /\ Clean(r)
          /\ \A p \in Pollers : poll[p] # r
          => enq'[r] > 0]_vars

\* A result that a tool waited for comes by the tool or by the channel, not by both and
\* not by neither.
HandedOnce == HandedNotShown /\ ResumedIsQueued

\* A cancelled job is over: it reports nothing, and disposal leaves none running but the
\* evicted ones.
CancelledIsOver == CancelledNotShown /\ DisposeMissesLost

\* Jobs count for the limit and report to their owner under whatever id they run.
AccountedFor == TypeOK /\ DeliveredToOwner /\ WithinLimit

\* Every result that is to be delivered gets as far as the agent in the end: a tool call returns
\* it, or it is shown or staged for the agent's next request.  From then on it is not lost, unless
\* the manager is disposed of.
Deliverable(r) == status[r] = "failed" \/ (status[r] = "completed" /\ r \notin silent)
Arrived(r) ==
    \/ shown[r] > 0 \/ r \in handed \/ \E d \in entries : d.run = r
    \/ disposal # "no" \/ ~Clean(r)
ResultArrives ==
    /\ \A r \in Runs : Deliverable(r) ~> Arrived(r)
    /\ [][\A r \in Runs : Arrived(r) => Arrived(r)']_vars
=============================================================================
