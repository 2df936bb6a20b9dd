# Amaze: TLA+ models of the agent runtime

Amaze is a terminal coding agent written in TypeScript. A user and a model
provider talk through an `Agent`; the agent's loop samples the model, runs the
tools the model asks for, and injects whatever arrives meanwhile: steering
messages, follow-ups, results of background jobs, messages of other agents. It
runs on one JavaScript thread, so nothing is preempted, but every `await` is a
point where all other activities may run. Nearly all of its hard behaviour is
in those points, and in the timers, signals and queues that connect them.

Paths below are relative to `src/packages` unless they begin with `src/`.

## 1. Inventory

For each part: its state, its operations, what it talks to, what is hard, and
what makes it correct.

**Tool batch** (`agent/src/agent-loop.ts`, `executeToolCalls`, 1590-2020).
State: one record and one promise per tool call, the last exclusive promise and
the shared ones since, an interrupt flag with its abort controller, an interval
timer. Operations: schedule, start, hook before, execute, hook after, report,
check for steering, sweep. Talks to: the tools, the steering queue (a peek), the
run's abort signal, telemetry. Hard: exclusive and shared tools interleave with
interrupts, aborts, late answers of the peek and tasks that reject. Correct
when: an exclusive tool runs alone and in order; every call gets exactly one
result; what a result says is true; nothing begins on an aborted signal.

**Turn loop** (`agent/src/agent-loop.ts`, `runLoopBody`, 698-1095). State: pending
messages, the flags of the turn, counters of paused turns, Harmony retries and
soft escalations, the forced tool choice. Operations: poll, begin turn, inject,
resolve the directive, sample, run the batch, end the turn, drain. Talks to: the
queues, the provider, the batch. Hard: a `continue` that restarts the turn in
the middle, four kinds of retry, a deadline and an abort between any two polls.
Correct when: no message is lost, duplicated or reordered; the provider's pairing
of calls and results holds; the loop stops only when it has answered; it stops.

**Model call** (`agent/src/agent-loop.ts`, `streamAssistantResponse`, 1118-1588). State:
whether the message was announced, the tool calls whose end was read, the last
message of the context; the provider's event queue and its message object, which
the events share. Operations: open, read an event or be aborted, start, update,
finish, discard a Harmony leak, commit a trailing result. Hard: the provider runs
ahead of what was read, starts its message again after an error, or hangs; the
abort comes at any await. Correct when: a message is announced and closed once
and is in the context, or left open by a throw at most; an interrupted one keeps only complete tool calls.

**Agent queues and runs** (`agent/src/agent.ts`). State: steering queue, follow-up
queue, the running flag and the abort controller. Operations: `steer`,
`followUp`, pops, `prompt`, `continue`, `abort`. Hard: a message that arrives
during the last polls of a run.

**Background jobs** (`coding-agent/src/async/job-manager.ts`, used by `tools/bash.ts`,
`tools/job.ts`, `sdk.ts`). State: registered jobs, suppressed and watched ids,
eviction timers, the delivery queue, deliveries in flight, the loop, disposal.
Operations: register, mark running, cancel, settle, suppress, resume,
acknowledge, watch, deliver, drain, evict, dispose. Talks to: tools that wait
for a job, the yield queue, subagents that drain their own deliveries. Hard: a
result can reach the agent three ways (foreground wait, poll, delivery) and every
mark that keeps them apart is kept by id, while ids are reused after eviction.
Correct when: a result is shown at most once, never after a tool returned it,
never for a cancelled job, and always in the end.

**Yield queue** (`coding-agent/src/session/yield-queue.ts`). State: entries per kind,
flush flags. Operations: register a dispatcher, enqueue, drain lazily at a
turn boundary, flush when idle. Hard: entries that become stale between enqueueing
and building the message. Every kind production code registers is `skipIdleFlush`, so the
idle flush has nothing to flush today.

**Turn scheduler** (`coding-agent/src/session/turn-scheduler.ts`). State: per session and
source, the automatic turns admitted and those in a row, the keys seen. Correct when:
automatic turns cannot feed themselves for ever and a user turn resets what it must.

**Tool choice queue** (`coding-agent/src/session/tool-choice-queue.ts`, `tools/resolve.ts`). State: the queue
of directives, the one in flight with its rejection handler, the stack of previews that wait for `resolve`.
Operations: push, next, resolve, reject, remove by label; register, peek and remove a preview. Hard: what is in flight is
settled by the handler of `turn_end`, after awaits, or by nobody; a preview is removed after its application was awaited.
Correct when: a directive forces exactly the turn it was made for, also over aborts; a preview is applied once and not dropped.

**Agent registry and lifecycle** (`coding-agent/src/registry/`, `task/persisted-revive.ts`, parts of
`sdk.ts`). State: each subagent's ref with its status and session, its adoption with the
time-to-live timer, the revival in progress, the ids being parked. Operations: register, attach, set
status, adopt, park, ensureLive, release, dispose. Hard: everything is keyed by id while
disposal and revival are awaited, so what a step finds under the id need not be what
it started with. Correct when: an agent has one live session, peers reach it, a caller
gets a session or an error, an idle agent is parked and one in a turn is not.

**IRC bus** (`coding-agent/src/irc/bus.ts`). State: mailboxes with a cap, waiters with
timers. Operations: send (which may revive the addressee), wait, inbox. Hard:
a wait that times out as a message arrives; a recipient parked or killed while
the sender awaits its revival. Correct when: a message ends in one place and its sender is
told which, and nobody waits for mail that is already there.

**Parallel work of the task tool** (`coding-agent/src/task/parallel.ts`, `task/index.ts`).
State: a semaphore's count and waiters, a fan-out's next index, its internal abort and its results. Hard:
abort while waiting, fail-fast with tasks under way, permits handed over to a waiter that was cancelled. Correct when: permits are
neither leaked nor granted twice, and what a fan-out returns is what happened.

**Robomp** (`src/python/robomp/src`). A GitHub worker with its own event queue in SQLite.
State: rows with state, attempts and retry time; the issues in flight; a task per claimed
event; slot uids; cancelled deliveries and their hooks; a thread and an amaze subprocess per running event.
Operations: receive, claim, put back, mark, retry, cancel, stop, start. Hard: a crash between two
writes, cancellation and shutdown of a running event, subprocesses that outlive the process. Correct when: an issue
has at most one subprocess, every event is done or given up, and a shutdown fails none.

**Session storage** (`coding-agent/src/session/session-manager.ts`,
`session-persistence.ts`, `session-storage.ts`). An append-only tree of entries
in a file, flushed lazily. Hard: a crash between two appends, a branch during a
flush. Correct when: what is reloaded is a prefix of what was written, with the
leaf in it.

**Credentials** (`ai/src/auth-storage.ts`, `ai/src/auth-retry.ts`). Shared
credentials refreshed by concurrent requests. Hard: a refresh token used twice.

**MCP client** (`coding-agent/src/mcp/`). Connections, reconnection, correlation of
requests and answers, cached tool lists.

**Agent session** (`coding-agent/src/session/agent-session.ts`). Thirteen thousand lines that
wire the above together. The part with state of its own to get wrong is when a turn starts: prompts,
wakes for IRC messages and drains of stranded messages share one in-flight count, one Agent and three
queues; `abort()` resets the count under all of them. Correct when: no message is lost or
left where nobody polls, the session does not stay busy, and an interrupt of the user holds.

**The rest**: providers and streaming (`ai/src/stream.ts`, I/O and parsing), the
terminal interface, Rust helpers (`src/crates`, partly vendored), the model
catalog, statistics, goals and advisor (policies on top of the turn loop),
append-only context and compaction (pure functions over messages).

### How the parts interact

    user ──steer/followUp/prompt/abort──▶ Agent queues ◀─peek── Tool batch ──▶ tools
                                             │ poll                 ▲            │ register/poll/cancel
                                             ▼                      │ RunTools   ▼
    provider ◀──────── sample ─────────── Turn loop ──────────────── ┘     Background jobs
                                             ▲ asides                            │ onJobComplete
                                             └──────── Yield queue ◀─────────────┘
    Agent session: decides when the loop runs (prompt, IRC wake, drain), abort() stops it
    subagents: registry/lifecycle ◀─ IRC bus ─▶ Agent session; task tool ─▶ parallel.ts ─▶ Agent
    robomp: webhook ─▶ events table ─▶ dispatcher ─▶ task ─▶ thread ─▶ one amaze subprocess

Calls are synchronous between awaits. Signals (`AbortSignal`), timers and promises
are the only concurrency; the shared state is the queues and the maps keyed by id.

## 2. Modules

| module | models | state to code |
| --- | --- | --- |
| `ToolBatch` | one call of `executeToolCalls` | `pc[i]` is the await the task of call `i` is suspended at; `draft`, `completed`, `result`, `starts`, `ends` are the fields of its record and the events pushed; `deps`, `lastExclusive`, `sharedTasks` are the scheduling loop's promises; `interrupted` is `interruptState.triggered` |
| `SessionTurns` | the turns of one `AgentSession`, with the caps of `TurnScheduler` | `frame[f]` is one asynchronous function that counts itself (a prompt, a wake, a drain) and the await it is at; `inFlight` is `#promptInFlightCount`; `runner` is the frame whose run the Agent executes; `abort[a]` is a call of `abort()`; the queues are sets of messages |
| `SessionTurns_proofs` | theorems about `SessionTurns` | – |
| `AgentLifecycle` | registry, lifecycle manager, reviver and the registering part of `createAgentSession`; a library of actions without a `Next` | `status`, `attached` are the refs; `adopted`, `timer`, `parking`, `inflight` the manager's maps; `revival[c]` is the await of the revival that call `c` started; `state`, `turn` are the sessions' |
| `IrcBus` | `IrcBus` composed with `AgentLifecycle`, which it extends: a sender is a caller of `ensureLive` | `mailbox`, `waiters` are the bus's maps; `receipt[m]` is what `send` returned; `taken[m]` (history) who got the message |
| `IrcBus_proofs` | theorems about `IrcBus` with `AgentLifecycle` | – |
| `EventLedger` | abstract: what robomp's queue promises | – |
| `WorkerPool` | robomp's queue, dispatcher, tasks, threads and process; implements `EventLedger` | `row`, `attempts`, `backoff`, `received` are the table; `task[e]`, `thread[e]` the await and the line the event's task and thread are at; `client[e]` the uid of its subprocess; the rest are `WorkerPool`'s fields |
| `WorkerPool_proofs` | theorems about `WorkerPool`, and that it implements `EventLedger` | – |
| `TaskSpawns` | the task tool's `Semaphore`, `mapWithConcurrencyLimit` and the three ways a spawn uses them | `task[t]` is the await of spawn `t`; `current`, `queue` are the semaphore's fields; `call[c]` the local variables of a fan-out; `aborted` the signals |
| `TaskSpawns_proofs` | theorems about `TaskSpawns` | – |
| `ToolChoiceQueue` | the directives of `ToolChoiceQueue` with the session functions that push, fetch and settle them | `directives`, `inFlight` are its `#queue` and `#inFlight`, a generator being the choices it has `left`; `prompt[p]` is the await of `prompt()`; `serving` the choice of the turn; `handlers` the turn_end handlers that still await |
| `PendingPreviews` | the pending invokers of `ToolChoiceQueue` and the `resolve` tool | `pending` is `#pendingInvokers`; `call[c]` a tool call and its await |
| `MCToolBatch`, `MCAsyncJobs`, `MCIrcBus`, `MCWorkerPool`, `MCTaskSpawns`, `MCPendingPreviews` | tool kinds; symmetry of job ids; senders and filters; issues of the events; sizes of fan-outs; symmetry of calls | – |
| `ToolBatch_proofs` | theorems about `ToolBatch` | – |
| `AgentLoop` | `Agent`'s queues and runs with `runLoopBody` | `at` is the await the loop is suspended at; `pending`, `paused`, `harmonyRetry`, `softEsc`, `forced` ... are its local variables; `steeringQ`, `followUpQ`, `aborted` are the Agent's |
| `AgentLoop_proofs` | theorems about `AgentLoop` | – |
| `ModelCall` | one call of `streamAssistantResponse` with the provider's stream | `at` is the await; `added`, `completed` are `addedPartial` and `completedToolCallIds`; `queue`, `source` are the `EventStream`'s; `built` is the content of the shared message object; `starts`, `ends`, `context`, `answer` are what the call gave out |
| `ModelTurn_proofs` | theorems about `ModelCall` and `ToolChoiceQueue`; it extends both, hence the prefix `TC` of the latter's `TCInit`, `TCNext`, `TCSpec`, `TCTypeOK` | – |
| `AsyncJobs` | `AsyncJobManager` with the callers that wait for a job and the queue that shows results | one variable per private field; `fg`, `poll`, `entries` are the callers' |
| `AsyncJobs_proofs` | theorems about `AsyncJobs` | – |

An action is the code between two awaits, with everything it calls. `PROJECT.json`
maps each definition to the lines it translates. A definition whose name ends in
`_Fault` is not part of any specification: it is the definition below it with a bug
that code could have (a dropped guard, a missing reset), and the property named
for it in `PROJECT.json` fails when it takes the definition's place. The faults
show that the properties can fail for the reason they were written for.

How the modules relate: `AgentLoop!RunTools .. ToolsReturn` abstracts one
`ToolBatch` behaviour by what `EveryCallAnswered` and `BatchReturns` establish (the
batch returns, with a result for each call). `AgentLoop!CallModel` and the step that takes
its answer abstract one `ModelCall` behaviour: it ends (`CallEnds`, when the provider
ends or an abort comes), an answer or an aborted message is the last one of the context and a
Harmony retry finds nothing of the call before it (`CleanEnd`). `AgentLoop!Aside` is where
`AsyncJobs!ShowEntry` hands an entry to the loop. `SessionTurns` keeps of `AgentLoop` that a run takes
from the queues at its polls (`Poll`), that it may end without another one (`StopsPolling`) and how a
continued run begins (`Continues`). `IrcBus!Deliver` keeps of `SessionTurns!Deliver` whether a turn runs.

### ToolBatch

`Schedule` is one round of the loop over the calls; it builds the promise each call waits for
(`DepsOf`): an exclusive call waits for all before it, a shared one
for the last exclusive. A task then goes through `queued` (start), `hook`
(`beforeToolCall`), `executing`, `after` (`afterToolCall`), `report` and `checking` (the
steering check at its end), each with its refusals: interrupted, invalid
arguments, aborted, blocked, thrown. `RejectTask` is a promise that rejects
(a listener or a failing peek), which makes the tasks that depend on it reject too. `Return`
is the code after `Promise.allSettled`, including the sweep that answers the calls whose task never
reported. `Peek`, `Interrupt` and `WatchTick` are `checkSteering`
and its interval: the answer of the peek is awaited, so it can be stale when it is used. A kind
of tool is a record of what the batch tells apart: exclusive, valid,
interruptible, and stuck (an `execute()` that only answers when aborted, such
as a `job` poll).

Abstracted: the contents of arguments and results, the streaming updates of a tool,
and telemetry attributes.

### AgentLoop

`Next` is: a step of the loop, a start of a run (only when idle), a step of the
user or session (`Steer`, `FollowUp`, `Aside`, pops, `Abort`), and the deadline. A
model call is one choice among: an answer with or without tool calls, an error
or abort, a leaked Harmony turn, a paused turn, a truncated turn, an answer that ignores
a soft requirement. A message is its number of arrival, so order can be stated.

Abstracted: the text of messages, what the tools do, what
`streamAssistantResponse` parses. `Agent` never sets `config.toolChoice`, so the test
`hardToolChoiceBlocks` is always false and the soft gate is always active
under this caller; the module models that. Not modelled: listeners that call
back into the agent, `replaceQueues` and `reset` during a run, Cursor's buffered
tool results.

### ModelCall

The provider's actions are `ProviderStarts` (again, after emptying the message:
the Codex provider recovers from transport errors that way), `ProviderUpdates`,
`ProviderEndsCall`, `ProviderFinishes` ("done" or "error") and `ProviderBreaksOff`. It
changes `built` when it pushes, the loop reads the event later: that gap is what
`completedToolCallIds` is for. The loop's actions are the code between two awaits;
`AbortWins` is the race, `HandlesEvent` the check after a read,
`AppliesStart` and `AppliesUpdate` what follows `yieldIfDue`. `CommitsFinal`, `FinishAborted`,
`DiscardLeak`, `CommitsTrailing` and `Throw` are the ends. `received` and `trailing` are history
variables: the tool calls whose arguments arrived, and whether the answer is the result of a stream that ended without
a terminal event. That result may have any stop reason and any calls.

Abstracted: content other than tool calls; ids of tool calls, which are new after a restart, as the
providers' are; the detection of a leak, which may find one in any final message; the preparation
of the request, which only may throw; the dialects' stream wrapper, which is
a provider like another; telemetry.

### AsyncJobs

A run is one registration, an id is what the code knows it by. `Register` and
`RegisterForeground` are the two callers (a background command, and a `bash` command
that waits for a time and then moves to the background); `SettleCancelled`, `Succeed` and
`FailRun` are the ends of the job's promise; `LoopTop` ... `LoopExits` the delivery loop
at each of its awaits; `DrainTakes` a subagent's drain of its own deliveries;
`PollStarts`, `PollReturns` the `job` tool; `EvictionTimer` the retention timer;
`ShowEntry` the yield queue's staleness test and hand-over; `DisposeBegins`, `DisposeEnds`
the disposal with its wait.

The marks, the timers and the lookups go by id, and an id is free again once its timer has evicted the job. Retention is minutes and everything
else about a job is usually much shorter, but nothing in the code keeps the timer behind a promise that settles late, a staged entry or a
delivery under way, so the model lets it fire at any moment. Two history variables say what an eviction costs: `lost` are the runs
whose promise was pending when their id was evicted, `overtaken` the ids that were evicted while somebody was still concerned with
a run under them (`EvictionTimer`). What goes by owner or by count is claimed of all runs but the lost ones, what goes by the marks of an id of all runs
whose id is not among the overtaken (`Clean`), which includes reuse of an id that was evicted at rest. For the others the properties fail (section 5).

`RegisterForeground`'s wait ends as soon as the command has completed, when the job's own promise may still be pending (`ForegroundReturns`).

Not modelled: retention ≤ 0 (evict at once), the escalation of poll waits
(any waiting time is possible), a poll for several jobs at once (each id a poll
watches is handled alike), progress text.

### SessionTurns

`Prompt` .. `Recovers` is `prompt()`: the part before `#promptWithMessage` counts itself, its setup, the
retry while another run is busy, the wait for what follows. `Wake` is `#wakeForIrc` and `Drain` is
`#scheduleAgentContinue` as operators, since steps of other functions contain them: `Deliver`
wakes an idle session, `QueueUserMessage` starts a drain, and everything that brings the count to zero
ends in `ResumeStranded`. Each is given the frames and the count as the step has left them so far. The history variable
`refused` keeps what is queued when the cap refuses a drain: only that may stay where it is. `Settles`
is the `finally` of a wake or a drain, a step later than `RunEnds`, which is the point where `abort()`
goes on. `AbortBegins`, `AbortAwaitsRun` and `AbortEnds` are `abort()` between its awaits.

Not modelled: automatic retries, compaction and handoff, advisor cards, hidden next-turn
messages, plan mode, auto-replies, disposal; the gap between `agent_end` and the `finally` of the
Agent's loop (agent.ts 1276). Messages are in sets: their order is `AgentLoop`'s.

### AgentLifecycle and IrcBus

A revival has four awaits: the factory reads the transcript (`FactoryReturns`, `FactoryDeclines`), the
session file is opened (`Registers`, `OpenFails`), the session is built (`Creates`, `CreateFails`), the
reviver finishes (`RevivalEnds`) or cannot set the tools of the session that is attached already (`ReviverFails`:
the callers fail, and the session lives on, "running" and without a subscriber; `unheard` remembers it).
`Settles` lets all callers that share it go on. `TimerFires` is the timer
with `park` up to its await, `ParkEnds` the rest; `Kill` and `KillEnds` are the hub's kill (which aborts a turn first) with
`release`; `Scan` is the hub registering transcripts it finds. A turn is `accepted` (the session
works on it), `running` (the reviver's listener has told the registry) or `unseen` (it began before the
reviver subscribed, or the reviver never did). In `IrcBus` the steps of the lifecycle happen only when no sender is about to
continue (`Quiet`): a settled promise's continuations run before any timer or I/O.

Not modelled: subagents the executor adopts with a reviver of its own, `setRevivable`, advisor refs, the
manager's `dispose()`. The properties speak of agents nobody has killed: a kill during a revival breaks
them (`ReleasedIsGone`, section 5).

### WorkerPool and EventLedger

Loop, threads and process are three kinds of actors. On the loop: the requests (`Receive`, `Retry`,
`Retrigger`, `Cancel`), the dispatcher at each of its awaits (`BeginClaim` .. `Dispatch`), a task per event
(`AcquireSlot`, `HandlerReaches`, `Settle`, `Release`) and `stop()` (`StopBegins` .. `StopReturns`). On threads: the RPC driver
(`Spawn`, `ArmChecks`, `ArmStores`, `DriveEnds`), which outlives a cancelled task, and fired hooks (`HookRuns`). The process:
`Exit` at any step, leaving any subprocesses behind, and `Start`. `Interrupt(S)` cancels a set of tasks
at once: `stop()` does so between two awaits, and their `finally` blocks run before it goes on.

`EventLedger` has five stages per event and one rule: issues are worked on one event at a time.
`WorkerPool` maps an event to "working" while a task, thread or subprocess works on it,
whatever its row says, so that the refinement relates the table to what really happens: an event
that a thread still works on is not waiting, and a crashed one becomes waiting only when `Start`
has reaped its subprocess.

Not modelled: skipped rows, the wake-up event (pauses end at any moment), the
semaphore used without slots, the collection of the natives cache, autoclose, and an exception in the
dispatcher, which would end it silently (queue.py 207).

### TaskSpawns

A worker of `mapWithConcurrencyLimit` is known by its item: `Loop` is one turn of its `while`, up to the next await, and
`Stores`, `Swallows` and `FailsFast` are the three ways it goes on after one. `Launch` starts the workers one by one
without letting anything else run (`calling`). `Start` acquires for a background job or a single spawn, `Run` and
`AbortedBeforeRun` are what follows the await (only a job looks at its signal there), `End` the `finally`. A fan-out outside `Gated` takes no
permits, as in `worktree.ts`. Between the resolve of a waiter and its continuation a spawn is "granted": it holds the permit already.

Not modelled: what a subagent does, and that an abort makes it end sooner; progress and results.

### ToolChoiceQueue and PendingPreviews

`Check`, `SetUp`, `Run` and `Finish` are `prompt()` between its awaits; `Fetch` and `FetchNothing` the loop's request for a choice;
`TurnEnds`, `TurnFails` and `TurnThrows` the ends of a turn, the last without a `turn_end`; `Handle` the handler of `turn_end` when it gets to
the queue. Without an extension that listens, that is before anything else happens (`Quiet`, `HandlersLag = FALSE`):
a few continuations against I/O. In `PendingPreviews` a turn runs calls that stage or resolve, and obeys the gate of the loop (`BeginTurn`);
`Execute` peeks, `Works` is the awaited application or rejection, `Consumes` and `Fails` its two ends, `Abort` answers the calls
and leaves the work going on.

Not modelled: directives with `onInvoked` and `clear()`, which nothing in `src/` uses; the label served last; the standing handler
of plan mode, which is asked when nothing is pending; how often the loop forces `resolve` (`AgentLoop`'s soft requirements).

## 3. Runs

Each run checks the `Next` and the fairness of its module; the one that ends in a violation, `previews_once`, is in section 5. A property in
the table may be a conjunction of named ones, which stand before it in the module. Every module has a type invariant,
`TypeOK`; where it is not listed it is a conjunct of a safety property (`QueuesIntact`, `AccountedFor`, `Accounted`,
`OnePlace`, `EveryCallAnswered`, `OneClientPerIssue`, `TruthfulReturn`, `ForceAccounted`).

| run | shows | bounds |
| --- | --- | --- |
| `toolbatch` | `ExclusiveRunsAlone`, `EveryCallAnswered` (`TypeOK`, `OneResultPerCall`, `RecordedOnce`), `ReportedTruly` (`ResultIsTrue`, `SkippedHasCause`), `NoExecuteAfterAbort`; with fairness `BatchReturns`, `SteerEndsBatch` | 2 calls of every kind, one of which may be stuck: a result depends on the call, the interrupt and one rejected predecessor. Longer batches (an exclusive call behind several shared ones) are covered by the proofs, which are for any number of calls |
| `agentloop_queues` | `QueuesIntact` (`OnePlace`, `DeliveredInOrder`), `AbortLeavesQueues`, `StopsComplete` (`SteerNotStranded`, `StopsAnswered`) | 4 messages of any origin over 2 runs, one-at-a-time modes, hooks that fail: two messages of one kind (order) with two of another, and a second run that takes what the first left |
| `agentloop_turns` | `ModelCallsSound` (`PairedAtModelCall`, `AbortStopsModelCalls`), `DirectivesHonoured` (`DirectiveOncePerTurn`, `NoYieldWhileForced`); with fairness `RunEnds` | all retries and the deadline together, each counter able to reach its limit and to be reset, 2 tool calls per message, 2 runs |
| `modelcall` | `CleanEnd` (`Framed`, `LeakLeavesNoTrace`, `ThrowLeavesOpen`), `OnlyCompleteCalls`, `TypeOK`; with fairness `CallEnds` | a Harmony model (which does all that another does), 2 tool calls begun over all restarts (one complete and one cut short in a message, or one in an abandoned attempt), 3 unread events (a complete call, a restart and another call ahead of the reader). The length of the stream is not bounded |
| `asyncjobs_channel` | `HandedOnce` (`HandedNotShown`, `ResumedIsQueued`), `CancelledIsOver` (`CancelledNotShown`, `DisposeMissesLost`), `AccountedFor` (`DeliveredToOwner`, `WithinLimit`) | 2 jobs of 2 agents with 2 ids and so reuse of either, limit 1, one poller. The first job may be queued for its batch (`Batched`), and the second is then admitted beside it. Ids are only compared, so they are permuted (`IdSymmetry`; safety only) |
| `asyncjobs_live` | `AtMostOnce` (`OneDelivery`, `ShownOnce`); with fairness `ResultArrives` | 2 jobs one after the other under one id, one poller, one failed delivery, evictions at any moment. No job waits for its batch (`Batched`): being queued counts for the limit only |
| `sessionturns` | `OnePlace`, `BusyOnlyWhileLive`; with fairness `NotStranded` | 3 messages (one parked by a wake while the others arrive as a steer and an aside), one prompt, one abort. The caps are 2 drains (3 in the code), 2 wakes, 1 in a row, so that a second drain follows the first and a denial by each cap happens. Excepted from `NotStranded`: a message that is queued when the scheduler refuses the drain for it (`refused`), not whatever comes after the last drain |
| `ircbus` | `OneKnownSession` (`SingleWriter`, `LiveIsReachable`), `Accounted` (`TakenOnce`, `ReceiptIsTrue`), `NoMailWhileWaiting`; with fairness `SendSettles`, `TimerParksIdle` (`TimerSparesTurns`, `IdleIsParked`) | one agent (maps are keyed by id and agents do not share entries), 2 sessions one after the other, 3 messages (two of one sender: sharing a revival, overflow of a mailbox with cap 1; one of another: the filter), a wait, a kill |
| `workerpool` | `OneClientPerIssue`, `StopFailsNothing`, `ImplementsLedger`; with fairness `AllSettle` (`EventsSettle`, `CancelEndsFailed`) | 2 deliveries of one issue and 2 slots, so that only the issue keeps them apart; one retry, one exit and second start, one cancellation and one operator's rerun |
| `taskspawns` | `PermitsCounted`, `NobodyOvertakes`, `TruthfulReturn`; with fairness `EverythingSettles` | a fan-out of 2 gated items with 2 workers, one of 2 ungated items with 1 worker (an item is left when the first fails), a job and an awaited spawn for 2 permits: 4 gated spawns, so that 2 wait and the order matters |
| `toolchoice` | `ForceAccounted` (`ForceKept` while no run throws, `ForcedOnce`, `ToolBeforeNone`), `TodoEndsWithPrompt` | 2 forces, 2 prompts, 4 turns (two choices each), one abort, one thrown run, the tool inactive once and active again |
| `previews_once` | violates `AppliedOnce` | one preview and three calls, which are permuted (`MCSymmetry`): two resolve it side by side |

Bounds are constants: `MaxSteer` steers queued at once, `NumMsgs` messages,
`MaxCalls` tool calls in a message, `MaxToolTurns` messages with tool calls in a
run, `MaxRuns` runs, `SoftIds` ids of soft requirements, `Runs` registrations, `Batched` those that may be queued,
`MaxFails` failed deliveries. `MaxPaused`, `MaxSoft` and `MaxHarmony` are the code's
own limits (8, 3 and 2); the first two are scaled to 2, since the guards compare
and reset them and nothing depends on their values. `MaxQueue` is the number of
unread events; `NumMsgs`, `MaxPrompts`, `Aborts` (sessions), `MaxTurns`, `MaxKills`, `Callers`, `Waits` (bus) and
`MaxRestarts`, `MaxCancels`, `MaxReruns` (robomp) and `MaxForces`, `MaxAborts`, `MaxToggles`, `MaxThrows`, `MaxPreviews` (tool choices) bound
what users, peers, operators and failures do. Deadlock is checked
for `ToolBatch` and `ModelCall`, whose final states have an explicit stutter (`Terminated`), and for `WorkerPool`,
whose dispatcher never rests. `HasPeek` is true in the run: `Agent` always gives `hasSteeringMessages`, and the proofs
are for both values. Two properties stand in their modules and are not checked by a run: `WorkerPool!OneClientPerSlot`,
which says nothing while the two events have one issue, and `PendingPreviews!NeverDropped`. Deadlock is not for the others: with everything of the bounds used an idle agent has
nothing to do.

## 4. Fairness

- `ToolBatch`: weak fairness of the scheduling loop, of the return, of the interval
  timer, and of each task's next step. Promise continuations are run by the
  event loop in the end, and an `execute()` answers; a stuck one answers only once its
  signal is aborted (`Answers`). No fairness for steers, their withdrawal and aborts.
- `AgentLoop`: weak fairness of the loop as a whole: awaited promises settle (providers
  have timeouts, batches return by `BatchReturns`, hooks return). None for
  the user, the deadline or any particular answer of the model. `RunEnds` is bounded by
  `MaxToolTurns` and `NumMsgs`: a model that calls tools for ever, or a user who
  sends for ever, keeps a run alive by design. What it shows is that no retry path
  (paused, Harmony, soft) and no combination of them does.
- `ModelCall`: weak fairness of the loop's own steps: continuations run and the host's
  callbacks settle. None for the provider, which may hang for ever, and none for the abort.
- `AsyncJobs`: weak fairness of the delivery loop, of each caller's time limit, of
  `onJobComplete` and of the waits of a poll. None for jobs: a
  job may run for ever, and only completed ones are promised to arrive. None for `ShowEntry` either: the dispatcher of async results is
  registered `skipIdleFlush` (sdk.ts 2614-2618), so an idle agent reads a staged entry only with its next prompt. `ResultArrives` promises
  therefore that a result is shown, returned by a tool or staged, and that a staged one stays until it is shown or the manager is disposed of.
- `SessionTurns`: weak fairness of every frame between its awaits, of the setup's end, of the loop's
  end and of `abort()`: providers and hooks answer. None for messages, prompts and interrupts, nor for a poll
  finding something: the loop may always stop without one.
- `IrcBus`: weak fairness of timers, disposals, revivals (which may fail), turns, a wait's time limit and the
  continuation of a sender. None for sends, waits, inboxes, aborts, kills and scans.
- `WorkerPool`: weak fairness of the dispatcher, of each event's task and thread (the hard timer bounds a turn), of
  backoffs, of `stop()` and the exit after it, and of starting again: a supervisor restarts the process. None for
  deliveries, operators and crashes.
- `TaskSpawns`: weak fairness of the launching loop, of the return, of each worker after its await and of each spawn once it has its permit:
  subagents end (they have their own limits). None for calls, starts and aborts.
- `ToolChoiceQueue`, `PendingPreviews`: none; only safety is checked.

## 5. Disagreements found

`previews_once`: resolve.ts 82 means a staged action to be consumed "exactly once". `execute()` peeks, the action is removed after its
application was awaited, and `resolve` is a shared tool: two `resolve` calls of one message apply the same preview twice and leave
the one below it; so does a call made while one that an abort left behind still works.

The following properties state comments, docs or tests too and the code does not keep them. They stand in their
modules without a run; with the constants given (in the named cfg) TLC shows the behaviour.

- `ToolBatch!GenuineResultKept` (`ToolBatch.cfg`): a tool that failed by itself before the interrupt, whose
  `afterToolCall` is pending when the interrupt lands, is reported as skipped (agent-loop.ts 1919 against 1925-1927).
- `AgentLoop!DequeuedIsInjected` (`AgentLoop_queues.cfg` with `HasDeadline = TRUE`): messages polled just before the
  deadline are in neither the queue nor the context after it (756 against types.ts 171-172). This is why
  `QueuesIntact` is checked without a deadline.
- `AgentLoop!StopsAnswered` with `HarmonyModel = TRUE`, `MaxHarmony = 2`: a Harmony retry of the turn that answers a late
  steer is not sampled again, the run stops unanswered (755, 865 against 787-788).
- `AgentLoop!PairedAtRest` with `MaxSoft = 2`, `SoftIds = 1`, `MaxToolTurns = 3`: giving up on a soft requirement leaves tool
  calls without results (951 against 886). `PairedAtModelCall` excludes what follows such a run.
- `WorkerPool!LateHookObserves` (`WorkerPool.cfg`): a cancellation between the check of `_arm_cancel` (queue.py 239) and its
  store (245) finds no hook and the hook is stored unfired, against 254-256: the turn runs to its end, then the
  row is failed.
- `WorkerPool!NoSpawnAfterStop` (`WorkerPool.cfg`): cancelling a task does not stop its thread, which may start a subprocess after `stop()` has
  returned, against 131-135.
- `AsyncJobs!DisposeCancelsAll` (`AsyncJobs_live.cfg`): `cancelAll` without a filter "cancels every running job (used by `dispose()` ...)"
  (job-manager.ts 393-395). A cancelled job that settles after its eviction schedules another one (228), which evicts whatever job
  has taken its id: `cancelAll` and `dispose` then miss that job, which runs on. What holds is `DisposeMissesLost`: no other job is missed.
- `SessionTurns!InterruptHolds` (`SessionTurns.cfg` with `WakeRowCap = 2`, `MaxPrompts = 0`, `Aborts = {a1, a2}`) is what the
  comment of `#wakeForIrc` says (agent-session.ts 1458-1464): follow-ups a user interrupt holds
  are parked across a wake and stay queued after it. The counterexample: a wake runs with a follow-up parked; the user
  interrupts again; `abort()` awaits the Agent's run, which resolves before the wake's own `finally` (promise chains
  of different length), and its last step starts the next wake for an aside that arrived meanwhile; now the first wake
  settles and puts the follow-up back into the queue, whence the second wake's loop takes it.
- `ToolChoiceQueue!ForceKept` (`ToolChoiceQueue.cfg`): the comment of `reject()` (tool-choice-queue.ts 167-169) says a choice that was not served, or whose turn failed, is
  replayed. A run that throws (no API key, a failing hook) emits `agent_end` without `turn_end` (agent.ts 1271-1275): nobody rejects the choice
  in flight, and the next run's `nextToolChoice` overwrites it (140). The user's force is lost, its "none" is still applied. Only
  `abort()` has a safety net (agent-session.ts 6785-6791). This is why `ForceAccounted` claims `ForceKept` for histories without such a run.
- `ToolChoiceQueue!ForcedOnce` (`ToolChoiceQueue.cfg` with `HandlersLag = TRUE`, `MaxThrows = 0`): `setForcedToolChoice` means the model to call "exactly the forced tool once" (agent-session.ts 2257-2258). With an extension
  listening to `turn_end`, the handler awaits it (2541) before it settles the choice (2556). An `abort()` that ends meanwhile takes the
  served choice for a lost one and requeues it; and the late handler of a failed turn may reject the choice of a later turn. The tool is forced again.
- `AgentLifecycle!ReleasedIsGone` (`IrcBus.cfg`): a kill during a revival ends with a live session no ref names,
  against agent-lifecycle.ts 213. This is why the other properties speak of agents nobody has killed.

Seen while modelling. Loop: without `hasSteeringMessages` the
mid-batch check takes messages out of the queue and drops them (`Peek`;
agent-loop.ts 1655-1657 against types.ts 171-174; `Agent` always gives the function);
the drain polls follow-ups although it just took a late steer (`DrainFollowUps`;
agent-loop.ts 1076-1078 against types.ts 196); a stream that ends with a result and no event at
all has its message returned but neither announced nor put into the context
(agent-loop.ts 1470-1474; no provider does it, and `Framed` excepts it); the result of a stream that ends without a terminal event is returned as it is
(1452-1476), also when it is an error or abort, while the three other exits keep only the tool calls that reached `toolcall_end` (1350, 1572-1575):
calls cut short may then be replayed. The providers in the repository push their terminal event before they end, a host's own stream need not;
`OnlyCompleteCalls` excludes this exit (`trailing`); a call that throws leaves the announced message without `message_end`, and `Agent` closes it only
for an Anthropic refusal (agent.ts 1207-1255): otherwise it appends an error message and emits `agent_end`. `ThrowLeavesOpen` states that this is all that is left. Jobs: every completion is shown by the
session that created the manager, whichever agent owns the job (sdk.ts 1388-1400
against job-manager.ts 87); an eviction that comes while an id is in use breaks more than the
disposal, and the properties exclude just these cases (`lost`, `overtaken`): the acknowledgement of a poll is forgotten with the id and a staged result is shown again
(job-manager.ts 508 against test/async-yield-queue.test.ts 142; `HandedNotShown`); the delivery of a run that is evicted while it is pending takes the owner of the job
that has its id by then, or none (585; `DeliveredToOwner`), and such a run no longer counts for the limit (`WithinLimit`); marks that go with an id let a second delivery
of an overtaken run through (`AtMostOnce`), and marks set for the next run under the id may silence it for ever (`ResultArrives`, `ResumedIsQueued`).

Sessions: a message `deliverIrcMessage` reported as "woken" is dropped when the scheduler denies the wake
(`denied`; 1484-1491 against bus.ts 82-89); after three drains (`YIELD_CONTINUATION_CAP`) a stranded steer
waits for the next prompt although it "resumes from ANY tail" (6362); a steer sent to a session without messages
burns drains, since `Agent.continue()` refuses an empty transcript; a denied drain leaves the asides behind it
stranded too; after an abort the session may look idle while a prompt that is still being set up goes on; a prompt
in the busy-retry loop does not look at its generation after an abort.

Lifecycle and bus: a send to an agent that is being revived, whose ref is "running" without a session, fails with
"no live session" instead of sharing the revival; a cold revival that fails after registering unregisters the ref, so the
"later ensureLive" of agent-lifecycle.ts 205-207 finds no agent; a turn that begins between the attachment in
`createAgentSession` and the reviver's subscription is unseen by the registry and may be parked mid-run, which
the comment in persisted-revive.ts 116-119 means to prevent; a `setActiveToolsByName` that rejects (persisted-revive.ts 115)
does so after the session was attached: nobody subscribes to it, its ref stays "running", and agent-lifecycle.ts 204-210 drops a
cold adoption, so the timer never parks it although it idles (`IdleIsParked` excepts it); a message may be given to the waiter of a session that is
being disposed of; two agents that `send` to each other and await the answer each take the other's question for it.

Tool choices: a replayed force has the label "user-force-requeued" (tool-choice-queue.ts 187), so the test for "user-force" in
`prompt()` (agent-session.ts 5829) and in `#checkTodoCompletion` (8906-8909) does not see it; the `finally` of a prompt that an abort has overtaken removes
the eager todo of a newer one (5879). Previews: a discarded preview comes back when a concurrent application of it fails (resolve.ts 75-80).
A fan-out that failed fast has returned while its other spawns still run and hold permits (parallel.ts 74).

Robomp: a put-back counts as an attempt; cancellations are kept in memory only and are lost by a restart;
while `stop()` interrupts tasks a slot's uid may be given to a task beside the thread of a cancelled one; if
`_reap_slot` raises, the issue's key is not released.

## 6. Proofs

`ToolBatch_proofs` proves, for every number of calls `N`, every set of tool kinds and every
bound `MaxSteer`, from the named assumptions that the constants have the right
types, and without any other:

- `TypeCorrect`: `Spec => []TypeOK`. `TypeOK` is inductive by itself.
- `ExclusiveRunsAloneAlways`. The property is not inductive: it speaks of calls that
  run, not of what the waiting ones wait for. `BarrierInv` adds `PlanInv` (the scheduling
  variables describe the calls already scheduled: `lastExclusive` is the last exclusive
  one, `sharedTasks` those after it) and `WaitInv` (each scheduled call waits, through
  `deps`, for enough: every conflicting earlier call is among its dependencies or is settled
  before one of them starts). The step lemma has one case per group of
  actions: `Schedule` extends the plan; a task's step moves one `pc` forward
  (`TaskMoves`), so a call that may start finds its dependencies settled.
- `EveryCallAnsweredAlways` (from `OneResultPerCallAlways`, `RecordedOnceAlways`) and `ReportedTrulyAlways` (from
  `ResultIsTrueAlways`, `SkippedHasCauseAlways`). One inductive invariant, `ResultsInv`, gives for each call and
  each value of its `pc` what has been pushed, recorded and drafted so far (`CallInv`,
  `Answered`), and that after the return every call is answered. `TaskFrame` shows that a task
  disturbs no other call; `SameCallInv` that undisturbed calls keep `CallInv`;
  `TaskCall` has a case per action; `ReturnResults` is the sweep.
- `NoExecuteAfterAbortAlways`: the action property, action by action.

`ModelTurn_proofs` proves of `ModelCall`, for every `MaxCalls` and `MaxQueue` and both values of
`HarmonyModel`, `CallTypeCorrect`, `CleanEndAlways` (with `FramedAlways`, `LeakLeavesNoTraceAlways` and `ThrowLeavesOpenAlways`) and
`OnlyCompleteCallsAlways` from one inductive invariant, `Inv`. Neither `TypeOK` nor any of
the properties is inductive alone. `FrameInv` says what listeners and the context
have seen at each await (`starts` is 1 exactly when `added`), which bounds the
counters of `TypeOK`. `EndsInv` follows a `toolcall_end` from the queue through the event in hand to
`completed`, and says that its call arrived at each place; with it `Retained` yields complete calls only
(`RetainedComplete`). The ways to end a call have a lemma each, which the loop's
steps share; `ProviderKeepsInv` needs that no answer exists while the provider still changes
its message.

Of `ToolChoiceQueue` it proves, for any number of forces, prompts, turns, aborts, changes of the active tools and runs that throw:

- `TodoEndsWithPromptAlways`, however long the handlers of `turn_end` lag. `TodoInv` says that a todo that is queued or in flight is of a prompt
  that has been set up and is not over (`OpenPrompts`); it carries the types along (`ChoicesTypeCorrect`), because which prompt runs decides which prompt finishes.
- `ForceAccountedAlways`, which assumes `HandlersLag = FALSE`, as its run does: with handlers that lag a force may serve twice
  (`ForcedOnce`, section 5). `ForceAccounted` is not inductive. `QueueOK` says what one directive may still yield, that no choice is
  left in two directives and that the tool of a force is not behind its "none"; `FlightOK` that what is in flight is not queued as well, and that it has served a turn only
  while that turn's handler is due (`Settling`); `ServedOK` that what has served is not queued; `TurnOK` that a turn under way has no handler to wait for and
  that the force it is under is the one in flight. `KeptOK` is for histories without a throw: a choice is queued, in flight or served, and what is in
  flight is the choice of the turn or has a handler that will settle it. So `Fetch` overwrites no force in flight (`NoneInFlight`), which is
  what the comment of `reject()` relies on, and a throw is exactly what breaks it. Each operation of the queue has a lemma that says which choices it
  leaves (`Pushed`, `Replayed`, `Taken`, `TodosDropped`); `ChoicesStay` and `ChoiceReturns` carry them to the actions.

`TaskSpawns_proofs` proves, for any number of fan-outs, items, workers, single spawns and permits, from `CallsAssumption`
and `MaxAssumption`:

- `PermitsCountedAlways` and `NobodyOvertakesAlways`. `PermitsCounted` is not inductive: it needs that the item a worker takes
  next holds and awaits nothing yet (`Untaken`: items from `nextIndex` on are untouched). `AcquireCounts` and `ReleaseCounts` are the
  counting arguments, about values and not about steps; `AcquireStep`, `LoopStep` and `ReleaseStep` carry them to the actions, which call them on
  what the step has made of the tasks so far, and `OtherStep` is for the rest. `NobodyOvertakes` follows from the invariant:
  a permit is granted at once only when the queue is empty.
- `TruthfulReturnAlways`, with `FanInv` besides: a call's live workers are as many as its items in flight, and what has been taken is
  answered or in flight unless the work was stopped. So `live = 0` means that nothing is in flight.

`AgentLoop_proofs` has three arguments, each for any number of messages, runs, turns, tool calls and soft requirements and every
mode of the queues.

- Control. `ControlInv` (which calls lack a result, how often a directive was fetched, how often the model was called
  after an abort) gives `ModelCallsSoundAlways`, `DirectivesHonouredAlways` and `AbortLeavesQueuesAlways`.
- Messages. `Moves` says what a step may do to the places of a message: nothing, one sent, one popped by the user, the front of a
  queue moved to the end of `Line` (the context followed by the pending batch), asides dropped. `EveryStepMoves` has the case per action;
  the rest of the argument sees `Moves` only. `OrderOK` then says that `Line` and each queue are in order and that a queue
  comes after all of its kind in `Line`. This gives `DeliveredInOrderAlways`. `PlaceOK` says that the places cover the
  messages and that their lengths add up to the number sent, so that no message is in two of them: `QueuesIntactAlways`. It assumes `HasDeadline = FALSE`, as its
  run does: past a deadline the pending batch is lost (`DequeuedIsInjected`, section 5).
- Ends. `SteersSeen` (what is in the steering queue behind the last poll is `late`) gives `SteerNotStrandedAlways`, without
  hypotheses. `Answered` gives `StopsCompleteAlways`, which assumes `HarmonyModel = FALSE`: a Harmony retry may stop a run unanswered
  (`StopsAnswered`, section 5).

`AsyncJobs_proofs` proves `AtMostOnceAlways`, `HandedOnceAlways`, `CancelledIsOverAlways` and `AccountedForAlways` for any number of runs,
ids, agents and pollers, wherever the evictions fall and without a hypothesis. None is
inductive. The heart is `UseOK`: as long as someone may look a clean run up by its id (a promise not settled, a foreground wait, a poll, a delivery
under way), the id still names that run, and so it does for a pending run that is not lost, whatever its id went through. Only then does removing the deliveries of an id remove those of the run, and a suppressed
id silences the run that was handed over and no other. `Copies` says that a clean run's result is in one of the queue, the callback and the yield queue; `JobsOK`
that whatever runs after a disposal is lost; the lemmas on
queues say what a removal, a drain and an append leave of it.

`SessionTurns_proofs` proves `OnePlaceAlways` and `BusyOnlyWhileLiveAlways` for any number of messages, prompts and aborts and any caps. The parts
of the invariant are operators of given frames, messages and counts, because a step is built from pieces (a frame ends, a drain
starts, a wake is admitted or denied): each piece has a lemma from the state the step has left to the next one (`DrainKept`, `WakeKept`, `ResumeKept`).
`FramesOK` says that only a wake that has not settled holds parked follow-ups and that no two wakes hold the same one;
`Busy` bounds the in-flight count by the frames that are under way.

`IrcBus_proofs` proves `AccountedAlways`, `NoMailWhileWaitingAlways`, `OneKnownSessionAlways` and `TimerSparesTurnsAlways`, for any number of agents,
sessions, callers, messages and waits. `LifeInv` is about the lifecycle: `RevivalOK` ties `#revivals` to the callers that wait,
`OwnOK` the maps to the sessions they name, and `AgentOK`, for an agent nobody has killed, says that its open session is the attached one, that there
is none while it is revived, and that its timer is not armed in a turn the registry was told of (an armed timer
with status "running" occurs only during a revival or after a failed reviver); this last part is what spares turns from the timer. `BusOK` adds
the mailboxes, the receipts and who took what (`TakenOK`). Frame lemmas (`AgentFrame`, `OtherAgent`, `ElsewhereOK`) say
what a step does not disturb; each way a message moves has one lemma. `TimerSparesTurns` is the safety half of `TimerParksIdle`; the other
half, `IdleIsParked`, is liveness.

`WorkerPool_proofs` proves, for any deliveries, issues, slots and retries and any number of stops, crashes, cancellations and reruns:

- `OneClientPerIssueAlways`. The property speaks of subprocesses; the invariant speaks of tasks, threads and subprocesses
  together (`IssuesOK`: two events that are engaged in any of these ways have different issues), because a thread outlives its
  cancelled task and a subprocess outlives the process. `CandOK` covers the event between its claim and its task.
- `StopFailsNothingAlways`: the action property; `MarksOK` says that a driver is stopped only for a cancellation or by `stop()`.
- `LedgerImplemented`: `Spec => ImplementsLedger`, the whole refinement. Initial states map to initial states, and each step is one of
  the ledger or leaves it alone, a lemma per group of actions; the guard of the ledger's `Begin` comes from `IssuesOK`.

What the proofs changed in the models. The arms of the `CASE`s in `WorkerPool!Stage` and `AgentLifecycle!TimerAfter` overlapped, which
leaves the value open; they are disjoint now. `AgentLoop!OnePlace` relied on how `UNION` binds; it has parentheses. The provers know
nothing of `SelectSeq`: `AsyncJobs!DropDeliveries` and `IrcBus`'s `Matching`, `Pending` and `Without` are stated by positions, and
`ToolChoiceQueue!WithoutTodos` by ranks: the r-th of what is left is the r-th position that holds no todo (`Ranks`, `Filtered`).

Every safety invariant and action property of the passing runs is stated by a theorem. Only model-checked: all liveness (`BatchReturns`, `SteerEndsBatch`,
`RunEnds`, `CallEnds`, `ResultArrives`, `NotStranded`, `SendSettles`, `IdleIsParked`, `AllSettle`, `EverythingSettles`), which is out of the
prover's reach here. No module declares a recursive operator.

## 7. Plan

Where modelling goes on: the listeners that call back into the `Agent` at `agent_end` (agent.ts 1276, the one hazard without a property),
`SessionFile` (appends, flush, crash, reload), credential refresh. Each needs a module and a run of its own.

## 8. Not modelled

Providers' protocols, parsing, rendering, the native helpers, catalog and
statistics have no coordination state; the agent uses them as functions. They are most of the
repository's lines: generated protocol code, wire types, settings schemas, model tables. Of the agent
session, `SessionTurns` takes the part that decides when a turn runs; retries, compaction, plan mode
and goals would each multiply its states and are left for models of their own. Everything listed `not_modelled` or `partly` in `PROJECT.json` has its
reason there.
