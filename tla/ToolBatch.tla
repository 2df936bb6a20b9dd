------------------------------- MODULE ToolBatch -------------------------------
(***************************************************************************)
(* The execution of one assistant message's tool calls: executeToolCalls   *)
(* of packages/agent/src/agent-loop.ts.                                    *)
(*                                                                         *)
(* Every call is a promise (a task).  An exclusive call waits for every    *)
(* call before it, a shared one for the last exclusive call before it.     *)
(* JavaScript runs a task from one await to the next without interruption, *)
(* so an action is the code between two awaits; pc[i] names the await the  *)
(* task of call i is suspended at.                                         *)
(*                                                                         *)
(* Definitions named ..._Fault are not part of the model: each is a bug    *)
(* the definition after it could have, for which a property must fail.     *)
(***************************************************************************)
EXTENDS Naturals

CONSTANTS
    N,          \* number of tool calls in the assistant message
    Kinds,      \* the tools a call may name (what the batch tells apart)
    HasPeek,    \* config.hasSteeringMessages is given (Agent always gives it)
    MaxSteer    \* bound: steering messages queued at the same time

Calls == 1 .. N

\* valid: found and its arguments accepted; interruptible: the tool's flag;
\* stuck: its execute() may answer only once the signal is aborted (a `job` poll).
Kind == [exclusive: BOOLEAN, valid: BOOLEAN, interruptible: BOOLEAN, stuck: BOOLEAN]

ASSUME NAssumption == N \in Nat
ASSUME KindsAssumption == Kinds \subseteq Kind
ASSUME HasPeekAssumption == HasPeek \in BOOLEAN
ASSUME MaxSteerAssumption == MaxSteer \in Nat

VARIABLES
    kind,           \* the tool named by each call
    immediate,      \* interruptMode # "wait"
    phase,          \* "scheduling", "running" (Promise.allSettled), "returned"
    next,           \* index of the scheduling loop
    lastExclusive,  \* last exclusive task scheduled, 0 for Promise.resolve()
    sharedTasks,    \* shared tasks scheduled since then
    deps,           \* the tasks whose promises each task's `start` waits for
    pc,             \* where each task is
    draft,          \* runTool's result so far (isError: it is not "ok")
    completed,      \* runTool's completedToolExecution
    result,         \* what the emitted tool result says, "none" before that
    starts,         \* tool_execution_start events pushed for a call
    ends,           \* tool_execution_end events (and result messages) pushed
    recorded,       \* telemetry records of a call: finished spans and orphans
    interrupted,    \* interruptState.triggered; steeringAbortController aborted
    userAborted,    \* the run's own signal is aborted
    steering,       \* length of the steering queue
    peek,           \* answer of the hasSteeringMessages() a checker awaits
    executed,       \* history: calls whose tool.execute() was invoked
    landed          \* history: calls whose execute() ended before the interrupt

plan == <<kind, immediate, next, lastExclusive, sharedTasks, deps>>
records == <<draft, completed, result, starts, ends, recorded>>
signals == <<interrupted, userAborted, steering, peek>>
history == <<executed, landed>>
vars == <<plan, phase, pc, records, signals, history>>

\* The interval timer is one more caller of checkSteering.
Watch == 0
Checkers == Calls \cup {Watch}

Finished == {"settled", "rejected"}
Suspended == {"hook", "executing", "after", "report", "checking"}
PCs == {"unscheduled", "queued"} \cup Suspended \cup Finished
Results == {"none", "ok", "error", "aborted", "skipped"}

TypeOK ==
    /\ kind \in [Calls -> Kinds]
    /\ immediate \in BOOLEAN
    /\ phase \in {"scheduling", "running", "returned"}
    /\ next \in 1 .. N + 1
    /\ lastExclusive \in 0 .. N
    /\ sharedTasks \in SUBSET Calls
    /\ deps \in [Calls -> SUBSET Calls]
    /\ pc \in [Calls -> PCs]
    /\ draft \in [Calls -> {"none", "ok", "error", "aborted"}]
    /\ completed \in [Calls -> BOOLEAN]
    /\ result \in [Calls -> Results]
    /\ starts \in [Calls -> Nat]
    /\ ends \in [Calls -> Nat]
    /\ recorded \in [Calls -> Nat]
    /\ interrupted \in BOOLEAN
    /\ userAborted \in BOOLEAN
    /\ steering \in 0 .. MaxSteer
    /\ peek \in [Checkers -> {"none", "empty", "queued"}]
    /\ executed \in SUBSET Calls
    /\ landed \in SUBSET Calls

Init ==
    /\ kind \in [Calls -> Kinds]
    /\ immediate \in BOOLEAN
    /\ phase = "scheduling"
    /\ next = 1
    /\ lastExclusive = 0
    /\ sharedTasks = {}
    /\ deps = [i \in Calls |-> {}]
    /\ pc = [i \in Calls |-> "unscheduled"]
    /\ draft = [i \in Calls |-> "none"]
    /\ completed = [i \in Calls |-> FALSE]
    /\ result = [i \in Calls |-> "none"]
    /\ starts = [i \in Calls |-> 0]
    /\ ends = [i \in Calls |-> 0]
    /\ recorded = [i \in Calls |-> 0]
    /\ interrupted = FALSE
    /\ userAborted \in BOOLEAN
    /\ steering \in 0 .. MaxSteer
    /\ peek = [c \in Checkers |-> "none"]
    /\ executed = {}
    /\ landed = {}

\* AbortSignal.any([signal, steeringAbortController.signal])
Aborted == interrupted \/ userAborted

-----------------------------------------------------------------------------
(* Scheduling: the loop that chains the tasks.  It runs without an await,  *)
(* so no task starts before it ends.                                       *)

Exclusive(i) == kind[i].exclusive

\* A call waits for the last exclusive one and, if exclusive, for the shared ones since.
DepsOf_NoShared_Fault(i) == {lastExclusive} \ {0}
DepsOf_Itself_Fault(i) == IF Exclusive(i) THEN {i} \cup sharedTasks ELSE {lastExclusive} \ {0}
DepsOf(i) == ({lastExclusive} \ {0}) \cup (IF Exclusive(i) THEN sharedTasks ELSE {})

Advance == next' = next + 1

Schedule ==
    /\ phase = "scheduling"
    /\ next \in Calls
    /\ deps' = [deps EXCEPT ![next] = DepsOf(next)]
    /\ pc' = [pc EXCEPT ![next] = "queued"]
    /\ lastExclusive' = IF Exclusive(next) THEN next ELSE lastExclusive
    /\ sharedTasks' = IF Exclusive(next) THEN {} ELSE sharedTasks \cup {next}
    /\ Advance
    /\ UNCHANGED <<kind, immediate, phase, records, signals, history>>

\* All tasks are chained; the batch awaits them (and starts the interval timer).
AwaitTasks ==
    /\ phase = "scheduling"
    /\ next = N + 1
    /\ phase' = "running"
    /\ UNCHANGED <<plan, pc, records, signals, history>>

-----------------------------------------------------------------------------
(* emitToolResult: a start event unless the record has started, then the   *)
(* end event and the result message; nothing when a result is out already. *)

Emit(i, r) ==
    IF ends[i] > 0
    THEN UNCHANGED <<result, starts, ends>>
    ELSE /\ result' = [result EXCEPT ![i] = r]
         /\ starts' = [starts EXCEPT ![i] = IF @ = 0 THEN 1 ELSE @]
         /\ ends' = [ends EXCEPT ![i] = @ + 1]

(* The part of runTool before its first await, run when `start` resolves.  *)

CanStart(i) ==
    /\ phase = "running"
    /\ pc[i] = "queued"
    /\ \A j \in deps[i] : pc[j] = "settled"

\* The batch was interrupted before the call ran: left to the final sweep.
SkipInterrupted(i) ==
    /\ CanStart(i)
    /\ interrupted
    /\ pc' = [pc EXCEPT ![i] = "settled"]
    /\ UNCHANGED <<plan, phase, records, signals, history>>

\* Unknown tool or rejected arguments.
RefuseInvalid(i) ==
    /\ CanStart(i)
    /\ ~interrupted
    /\ ~kind[i].valid
    /\ Emit(i, "error")
    /\ pc' = [pc EXCEPT ![i] = "settled"]
    /\ UNCHANGED <<plan, phase, draft, completed, recorded, signals, history>>

\* The user aborted the run before the call ran.
RefuseAborted(i) ==
    /\ CanStart(i)
    /\ ~interrupted
    /\ kind[i].valid
    /\ Aborted
    /\ Emit(i, "aborted")
    /\ recorded' = [recorded EXCEPT ![i] = @ + 1]
    /\ pc' = [pc EXCEPT ![i] = "settled"]
    /\ UNCHANGED <<plan, phase, draft, completed, signals, history>>

\* The call starts: its start event is pushed and beforeToolCall is awaited.
StartTool(i) ==
    /\ CanStart(i)
    /\ ~interrupted
    /\ kind[i].valid
    /\ ~Aborted
    /\ starts' = [starts EXCEPT ![i] = @ + 1]
    /\ pc' = [pc EXCEPT ![i] = "hook"]
    /\ UNCHANGED <<plan, phase, draft, completed, result, ends, recorded, signals, history>>

\* A task whose `start` rejected never calls runTool and rejects too.
RejectTask(i) ==
    /\ phase = "running"
    /\ pc[i] = "queued"
    /\ \E j \in deps[i] : pc[j] = "rejected"
    /\ pc' = [pc EXCEPT ![i] = "rejected"]
    /\ UNCHANGED <<plan, phase, records, signals, history>>

-----------------------------------------------------------------------------
(* The awaits of a started call.                                           *)

\* The callback of runInActiveSpan goes on to afterToolCall, unless the signal
\* is aborted and execute() did not complete.
AfterOrReport(i, done) == IF ~Aborted \/ done THEN "after" ELSE "report"

\* beforeToolCall blocked the call or threw (or building the arguments did).
HookBlocks(i) ==
    /\ pc[i] = "hook"
    /\ draft' = [draft EXCEPT ![i] = "error"]
    /\ pc' = [pc EXCEPT ![i] = AfterOrReport(i, FALSE)]
    /\ UNCHANGED <<plan, phase, completed, result, starts, ends, recorded, signals, history>>

\* beforeToolCall allowed the call, but the signal was aborted meanwhile.
HookFindsAborted(i) ==
    /\ pc[i] = "hook"
    /\ Aborted
    /\ draft' = [draft EXCEPT ![i] = "aborted"]
    /\ pc' = [pc EXCEPT ![i] = "report"]
    /\ UNCHANGED <<plan, phase, completed, result, starts, ends, recorded, signals, history>>

HookAllows_Unchecked_Fault(i) ==
    /\ pc[i] = "hook"
    /\ pc' = [pc EXCEPT ![i] = "executing"]
    /\ executed' = executed \cup {i}
    /\ UNCHANGED <<plan, phase, records, signals, landed>>

\* beforeToolCall allowed the call: tool.execute() is invoked and awaited.
HookAllows(i) ==
    /\ pc[i] = "hook"
    /\ ~Aborted
    /\ pc' = [pc EXCEPT ![i] = "executing"]
    /\ executed' = executed \cup {i}
    /\ UNCHANGED <<plan, phase, records, signals, landed>>

Land(i) == landed' = IF interrupted THEN landed ELSE landed \cup {i}

\* execute() resolved with a result, or with one that reports an error.
ExecuteResolves(i) ==
    /\ pc[i] = "executing"
    /\ \E r \in {"ok", "error"} : draft' = [draft EXCEPT ![i] = r]
    /\ completed' = [completed EXCEPT ![i] = TRUE]
    /\ pc' = [pc EXCEPT ![i] = AfterOrReport(i, TRUE)]
    /\ Land(i)
    /\ UNCHANGED <<plan, phase, result, starts, ends, recorded, signals, executed>>

\* execute() threw.
ExecuteThrows(i) ==
    /\ pc[i] = "executing"
    /\ draft' = [draft EXCEPT ![i] = "error"]
    /\ pc' = [pc EXCEPT ![i] = AfterOrReport(i, FALSE)]
    /\ Land(i)
    /\ UNCHANGED <<plan, phase, completed, result, starts, ends, recorded, signals, executed>>

\* afterToolCall left the result alone, replaced it, or threw.
AfterReturns(i) ==
    /\ pc[i] = "after"
    /\ \E r \in {"ok", "error"} : draft' = [draft EXCEPT ![i] = r]
    /\ pc' = [pc EXCEPT ![i] = "report"]
    /\ UNCHANGED <<plan, phase, completed, result, starts, ends, recorded, signals, history>>

-----------------------------------------------------------------------------
(* checkSteering: nothing to do in "wait" mode, once interrupted or once   *)
(* the run is aborted; otherwise it asks hasSteeringMessages() and acts on *)
(* the answer after an await.  Without that function it asks               *)
(* getSteeringMessages(), which dequeues (in one of two modes).            *)

ChecksSteering == immediate /\ ~interrupted /\ ~userAborted

Peek(c) ==
    /\ peek' = [peek EXCEPT ![c] = IF steering > 0 THEN "queued" ELSE "empty"]
    /\ IF HasPeek \/ steering = 0
       THEN UNCHANGED steering
       ELSE steering' \in {0, steering - 1}

\* The answer arrives: interrupt, unless that happened or became pointless.
Interrupt(c) ==
    /\ interrupted' = (interrupted \/ (peek[c] = "queued" /\ ~userAborted))
    /\ peek' = [peek EXCEPT ![c] = "none"]

\* In an interrupted batch a call that failed is reported as skipped.
Reported_AnyInterrupted_Fault(i) == IF interrupted THEN "skipped" ELSE draft[i]
Reported(i) == IF interrupted /\ draft[i] # "ok" THEN "skipped" ELSE draft[i]

\* The span ends and the call's result is emitted.  Then the tail checkSteering begins.
Report(i) ==
    /\ pc[i] = "report"
    /\ Emit(i, Reported(i))
    /\ recorded' = [recorded EXCEPT ![i] = @ + 1]
    /\ IF ChecksSteering
       THEN /\ pc' = [pc EXCEPT ![i] = "checking"]
            /\ Peek(i)
       ELSE /\ pc' = [pc EXCEPT ![i] = "settled"]
            /\ UNCHANGED <<peek, steering>>
    /\ UNCHANGED <<plan, phase, draft, completed, interrupted, userAborted, history>>

TailCheckReturns(i) ==
    /\ pc[i] = "checking"
    /\ Interrupt(i)
    /\ pc' = [pc EXCEPT ![i] = "settled"]
    /\ UNCHANGED <<plan, phase, records, userAborted, steering, history>>

\* hasSteeringMessages() threw: runTool, and with it the task, rejects.
TailCheckThrows(i) ==
    /\ pc[i] = "checking"
    /\ peek' = [peek EXCEPT ![i] = "none"]
    /\ pc' = [pc EXCEPT ![i] = "rejected"]
    /\ UNCHANGED <<plan, phase, records, interrupted, userAborted, steering, history>>

\* The timer runs if a tool of the batch is interruptible.
Watched_All_Fault == \A i \in Calls : kind[i].interruptible
Watched == \E i \in Calls : kind[i].interruptible

WatchTick ==
    /\ phase = "running"
    /\ Watched
    /\ ChecksSteering
    /\ peek[Watch] = "none"
    /\ Peek(Watch)
    /\ UNCHANGED <<plan, phase, pc, records, interrupted, userAborted, history>>

WatchReturns ==
    /\ peek[Watch] # "none"
    /\ Interrupt(Watch)
    /\ UNCHANGED <<plan, phase, pc, records, userAborted, steering, history>>

-----------------------------------------------------------------------------
(* The end of the batch, and what the user does meanwhile.                 *)

Unanswered_SettledOnly_Fault == {i \in Calls : ends[i] = 0 /\ pc[i] = "settled"}
Unanswered == {i \in Calls : ends[i] = 0}

\* All tasks are settled: calls without a result message get a skipped one.
Return ==
    /\ phase = "running"
    /\ \A i \in Calls : pc[i] \in Finished
    /\ result' = [i \in Calls |-> IF i \in Unanswered THEN "skipped" ELSE result[i]]
    /\ starts' = [i \in Calls |-> IF i \in Unanswered /\ starts[i] = 0 THEN 1 ELSE starts[i]]
    /\ ends' = [i \in Calls |-> IF i \in Unanswered THEN 1 ELSE ends[i]]
    /\ recorded' = [i \in Calls |-> IF i \in Unanswered THEN recorded[i] + 1 ELSE recorded[i]]
    /\ phase' = "returned"
    /\ UNCHANGED <<plan, pc, draft, completed, signals, history>>

Steer ==
    /\ phase = "running"
    /\ steering < MaxSteer
    /\ steering' = steering + 1
    /\ UNCHANGED <<plan, phase, pc, records, interrupted, userAborted, peek, history>>

\* popLastSteer, clearSteeringQueue: the user takes queued messages back.
Unsteer ==
    /\ phase = "running"
    /\ steering > 0
    /\ steering' \in 0 .. steering - 1
    /\ UNCHANGED <<plan, phase, pc, records, interrupted, userAborted, peek, history>>

UserAbort ==
    /\ phase = "running"
    /\ ~userAborted
    /\ userAborted' = TRUE
    /\ UNCHANGED <<plan, phase, pc, records, interrupted, steering, peek, history>>

Terminated ==
    /\ phase = "returned"
    /\ peek[Watch] = "none"
    /\ UNCHANGED vars

Task(i) ==
    \/ SkipInterrupted(i) \/ RefuseInvalid(i) \/ RefuseAborted(i)
    \/ StartTool(i) \/ RejectTask(i)
    \/ HookBlocks(i) \/ HookFindsAborted(i) \/ HookAllows(i)
    \/ ExecuteResolves(i) \/ ExecuteThrows(i) \/ AfterReturns(i)
    \/ Report(i) \/ TailCheckReturns(i) \/ TailCheckThrows(i)

Next ==
    \/ Schedule \/ AwaitTasks \/ Return
    \/ \E i \in Calls : Task(i)
    \/ WatchTick \/ WatchReturns
    \/ Steer \/ Unsteer \/ UserAbort
    \/ Terminated

Spec == Init /\ [][Next]_vars

\* Promises are resumed, hooks answer, and execute() answers in the end: a
\* stuck one at least when its signal is aborted.  The timer keeps ticking.
\* Nothing obliges the user.
Answers(i) == Task(i) /\ (pc[i] = "executing" /\ kind[i].stuck => Aborted)

Fairness ==
    /\ WF_vars(Schedule) /\ WF_vars(AwaitTasks) /\ WF_vars(Return)
    /\ WF_vars(WatchTick) /\ WF_vars(WatchReturns)
    /\ \A i \in Calls : WF_vars(Answers(i))

FairSpec == Spec /\ Fairness

-----------------------------------------------------------------------------
(* Properties.                                                             *)

\* Two calls of which one is exclusive must not overlap.
Conflict(i, j) == Exclusive(i) \/ Exclusive(j)
Begun(i) == pc[i] \in Suspended \cup {"settled"}

\* The barrier of the scheduling loop: when a call runs, every earlier call it
\* conflicts with has finished, so an exclusive tool runs alone and in order.
ExclusiveRunsAlone ==
    \A i, j \in Calls : j < i /\ Conflict(i, j) /\ Begun(i) => pc[j] = "settled"

\* tool_use/tool_result pairing: a call has at most one start event, one end
\* event and one result, and when the batch returns it has exactly one of
\* each, whatever was refused, skipped, aborted, thrown or rejected.
OneResultPerCall ==
    \A i \in Calls :
        /\ ends[i] <= starts[i] /\ starts[i] <= 1
        /\ (result[i] # "none") <=> (ends[i] = 1)
        /\ phase = "returned" => ends[i] = 1

\* Telemetry sees a call once, as a span or as a skipped orphan; a call whose
\* arguments were refused is not seen at all (the sweep must not count it).
RecordedOnce ==
    \A i \in Calls :
        /\ recorded[i] <= 1
        /\ phase = "returned" =>
             (recorded[i] = 0) <=> (pc[i] = "settled" /\ ~kind[i].valid /\ result[i] = "error")

\* "Tool was not executed" is true when it is said, and a call that the sweep
\* or the interrupt reports as skipped is not one that ended with success.
ResultIsTrue ==
    \A i \in Calls :
        /\ result[i] = "aborted" => i \notin executed
        /\ result[i] = "skipped" => draft[i] # "ok"
        /\ i \in executed /\ pc[i] \in {"checking"} \cup Finished => result[i] # "none"

\* A call is reported as skipped only in a batch that was interrupted or whose
\* chain of tasks collapsed.
SkippedHasCause ==
    \A i \in Calls :
        result[i] = "skipped" => interrupted \/ \E j \in Calls : pc[j] = "rejected"

\* Every call is answered once and accounted for once.
EveryCallAnswered == TypeOK /\ OneResultPerCall /\ RecordedOnce

\* What the model is told of a call is what happened to it.
ReportedTruly == ResultIsTrue /\ SkippedHasCause

\* No tool's side effects begin once the signal is aborted, although
\* beforeToolCall was awaited between the check and the call.
NoExecuteAfterAbort == [][Aborted => executed' = executed]_vars

\* Source comment of runTool: a tool that finished, "successfully or with a
\* genuine error", before the interrupt landed keeps its real result.
GenuineResultKept ==
    \A i \in Calls : i \in landed /\ completed[i] => result[i] # "skipped"

\* A batch whose tools all answer returns.
BatchReturns == (\A i \in Calls : ~kind[i].stuck) ~> phase = "returned"

\* A steer cuts an interruptible tool short: with a message waiting in the
\* queue the batch returns although a tool would wait for ever.
SteerEndsBatch == immediate /\ steering > 0 ~> phase = "returned" \/ steering = 0
=============================================================================
