------------------------------- MODULE AgentLoop -------------------------------
(***************************************************************************)
(* One agent: the message queues of the Agent class (packages/agent/src/   *)
(* agent.ts) and the turn loop that empties them, runLoopBody of           *)
(* packages/agent/src/agent-loop.ts.                                       *)
(*                                                                         *)
(* The loop is one asynchronous function: `at` names the await it is       *)
(* suspended at and an action is the code up to the next one.  The user,   *)
(* the session, the deadline and the model act in between.  A message is   *)
(* its number of arrival.  What a tool batch does is module ToolBatch;     *)
(* here it answers all its calls.                                          *)
(*                                                                         *)
(* Definitions named ..._Fault are not part of the model: each is a bug    *)
(* the definition after it could have, for which a property must fail.     *)
(***************************************************************************)
EXTENDS Naturals, Sequences, FiniteSets

CONSTANTS
    SteeringAll,    \* steeringMode = "all" (else "one-at-a-time")
    FollowUpAll,    \* followUpMode = "all" (else "one-at-a-time")
    HasDeadline,    \* config.deadline is set
    HarmonyModel,   \* isHarmonyLeakMitigationTarget(model)
    HooksFail,      \* onTurnEnd and onBeforeYield may throw
    MaxPaused,      \* MAX_PAUSED_TURN_CONTINUATIONS
    MaxSoft,        \* MAX_SOFT_TOOL_ESCALATIONS
    MaxHarmony,     \* Harmony retries, and truncate-resumes, in a row (2)
    SoftIds,        \* bound: ids of soft requirements the host may ask for
    NumMsgs,        \* bound: messages submitted
    MaxCalls,       \* bound: tool calls in one assistant message
    MaxToolTurns,   \* bound: assistant messages with tool calls in one run
    MaxRuns         \* bound: runs started

ASSUME ModesAssumption == {SteeringAll, FollowUpAll, HasDeadline, HarmonyModel, HooksFail} \subseteq BOOLEAN
ASSUME LimitsAssumption ==
    {MaxPaused, MaxSoft, MaxHarmony, SoftIds, NumMsgs, MaxCalls, MaxToolTurns, MaxRuns} \subseteq Nat

VARIABLES
    \* the Agent's queues and the run's context
    steeringQ, followUpQ,   \* #steeringQueue, #followUpQueue
    asideQ,                 \* what getAsideMessages will return
    pending,                \* pendingMessages of the loop
    delivered,              \* messages in the context, in order
    origin,                 \* who sent each message: its queue or "prompt"
    withdrawn,              \* messages the user popped, asides that resolved to null
    \* the loop
    at, hasMore, skipPoll,
    paused,                 \* pausedTurnContinuations
    harmonyRetry, harmonyResume,
    resolved,               \* directiveResolvedForTurn
    softId, softTool,       \* softRequirementId (0: none); a soft tool is required
    softEsc, forced,        \* softEscalations; forcedToolChoice is set
    \* signals
    aborted, expired,       \* the run's signal; isDeadlineExceeded()
    \* the transcript, as far as the provider's rules go
    lastAssistant,          \* the last message is an assistant message
    owed,                   \* tool calls in the context without a result
    calls,                  \* tool calls of the batch under way
    \* bounds and history
    runs, toolTurns,
    calledAborted,          \* the model call under way began on an aborted signal
    abortedCalls,           \* model calls of this run begun on an aborted signal
    fetched,                \* directives fetched in this logical turn
    gaveUp,                 \* a run gave up on a soft requirement
    late                    \* steers that arrived after the last poll of a drain

queues == <<steeringQ, followUpQ, asideQ, pending, delivered, origin, withdrawn>>
directive == <<resolved, softId, softTool, softEsc, forced, fetched>>
harmony == <<harmonyRetry, harmonyResume>>
transcript == <<lastAssistant, owed, calls, gaveUp>>
control == <<at, hasMore, skipPoll, paused>>
signals == <<aborted, expired>>
bounds == <<runs, toolTurns>>
aborts == <<calledAborted, abortedCalls>>
vars == <<queues, directive, harmony, transcript, control, signals, bounds, aborts, late>>

Msgs == 1 .. Len(origin)
Elems(q) == {q[i] : i \in 1 .. Len(q)}

Points == {"idle", "start", "turn", "inject", "directive", "model", "tools", "turnEnd",
           "boundary", "asides", "yield", "lateAsides", "followUps"}

TypeOK ==
    /\ steeringQ \in Seq(Msgs) /\ followUpQ \in Seq(Msgs) /\ asideQ \in Seq(Msgs)
    /\ pending \in Seq(Msgs) /\ delivered \in Seq(Msgs)
    /\ origin \in Seq({"steer", "followUp", "aside", "prompt"})
    /\ withdrawn \subseteq Msgs /\ late \subseteq Msgs
    /\ at \in Points
    /\ {hasMore, skipPoll, resolved, softTool, forced} \subseteq BOOLEAN
    /\ {aborted, expired, lastAssistant, calledAborted, gaveUp} \subseteq BOOLEAN
    /\ paused \in 0 .. MaxPaused /\ softEsc \in 0 .. MaxSoft /\ softId \in 0 .. SoftIds
    /\ harmonyRetry \in 0 .. MaxHarmony /\ harmonyResume \in 0 .. MaxHarmony
    /\ calls \in 0 .. MaxCalls
    /\ runs \in 0 .. MaxRuns /\ toolTurns \in 0 .. MaxToolTurns
    /\ {owed, abortedCalls, fetched} \subseteq Nat

Init ==
    /\ steeringQ = <<>> /\ followUpQ = <<>> /\ asideQ = <<>>
    /\ pending = <<>> /\ delivered = <<>> /\ origin = <<>> /\ withdrawn = {}
    /\ at = "idle" /\ hasMore = FALSE /\ skipPoll = FALSE /\ paused = 0
    /\ harmonyRetry = 0 /\ harmonyResume = 0
    /\ resolved = FALSE /\ softId = 0 /\ softTool = FALSE
    /\ softEsc = 0 /\ forced = FALSE /\ fetched = 0
    /\ aborted = FALSE /\ expired = FALSE
    /\ lastAssistant = FALSE /\ owed = 0 /\ calls = 0 /\ gaveUp = FALSE
    /\ runs = 0 /\ toolTurns = 0 /\ calledAborted = FALSE /\ abortedCalls = 0
    /\ late = {}

-----------------------------------------------------------------------------
(* The Agent's queues.                                                     *)

\* #dequeueSteeringMessages, #dequeueFollowUpMessages: <<taken, left>>
Dequeue(q, all) ==
    IF all \/ q = <<>> THEN <<q, <<>> >> ELSE << <<Head(q)>>, Tail(q)>>

Submit(source) ==
    /\ Len(origin) < NumMsgs
    /\ origin' = Append(origin, source)
NewMsg == Len(origin) + 1

Steer ==
    /\ Submit("steer")
    /\ steeringQ' = Append(steeringQ, NewMsg)
    /\ late' = IF at \in {"lateAsides", "followUps"} THEN late \cup {NewMsg} ELSE late
    /\ UNCHANGED <<followUpQ, asideQ, pending, delivered, withdrawn, directive, harmony,
                   transcript, control, signals, bounds, aborts>>

FollowUp ==
    /\ Submit("followUp")
    /\ followUpQ' = Append(followUpQ, NewMsg)
    /\ UNCHANGED <<steeringQ, asideQ, pending, delivered, withdrawn, directive, harmony,
                   transcript, control, signals, bounds, aborts, late>>

\* The session has a passive notification for the agent.
Aside ==
    /\ Submit("aside")
    /\ asideQ' = Append(asideQ, NewMsg)
    /\ UNCHANGED <<steeringQ, followUpQ, pending, delivered, withdrawn, directive, harmony,
                   transcript, control, signals, bounds, aborts, late>>

FrontOf(q) == SubSeq(q, 1, Len(q) - 1)

PopLastSteer ==
    /\ steeringQ # <<>>
    /\ steeringQ' = FrontOf(steeringQ)
    /\ withdrawn' = withdrawn \cup {steeringQ[Len(steeringQ)]}
    /\ UNCHANGED <<followUpQ, asideQ, pending, delivered, origin, directive, harmony,
                   transcript, control, signals, bounds, aborts, late>>

PopLastFollowUp ==
    /\ followUpQ # <<>>
    /\ followUpQ' = FrontOf(followUpQ)
    /\ withdrawn' = withdrawn \cup {followUpQ[Len(followUpQ)]}
    /\ UNCHANGED <<steeringQ, asideQ, pending, delivered, origin, directive, harmony,
                   transcript, control, signals, bounds, aborts, late>>

Abort ==
    /\ at # "idle"
    /\ ~aborted
    /\ aborted' = TRUE
    /\ UNCHANGED <<queues, directive, harmony, transcript, control, expired, bounds, aborts, late>>

\* The clock passes config.deadline; the timer that aborts the signal is a
\* callback of its own and fires some time later.
DeadlinePasses ==
    /\ HasDeadline
    /\ ~expired
    /\ expired' = TRUE
    /\ UNCHANGED <<queues, directive, harmony, transcript, control, aborted, bounds, aborts, late>>

DeadlineTimer ==
    /\ expired
    /\ at # "idle"
    /\ ~aborted
    /\ aborted' = TRUE
    /\ UNCHANGED <<queues, directive, harmony, transcript, control, expired, bounds, aborts, late>>

-----------------------------------------------------------------------------
(* prompt(), continue() and #runLoop.  isStreaming is at # "idle"; a call  *)
(* made while it holds is refused with AgentBusyError.                     *)

StartRun(skip) ==
    /\ runs < MaxRuns
    /\ runs' = runs + 1
    /\ at' = "start" /\ hasMore' = TRUE /\ skipPoll' = skip /\ paused' = 0
    /\ harmonyRetry' = 0 /\ harmonyResume' = 0
    /\ resolved' = FALSE /\ softId' = 0 /\ softTool' = FALSE
    /\ softEsc' = 0 /\ forced' = FALSE /\ fetched' = 0
    /\ aborted' = FALSE
    /\ toolTurns' = 0 /\ calledAborted' = FALSE /\ abortedCalls' = 0 /\ late' = {}
    /\ UNCHANGED <<asideQ, pending, withdrawn, expired, owed, calls, gaveUp>>

Prompt ==
    /\ at = "idle"
    /\ Submit("prompt")
    /\ delivered' = Append(delivered, NewMsg)
    /\ lastAssistant' = FALSE
    /\ StartRun(FALSE)
    /\ UNCHANGED <<steeringQ, followUpQ>>

\* continue() after an assistant message: queued messages become the prompt.
ContinueWithSteering ==
    /\ at = "idle"
    /\ lastAssistant
    /\ steeringQ # <<>>
    /\ LET d == Dequeue(steeringQ, SteeringAll)
       IN  steeringQ' = d[2] /\ delivered' = delivered \o d[1]
    /\ lastAssistant' = FALSE
    /\ StartRun(TRUE)
    /\ UNCHANGED <<followUpQ, origin>>

ContinueWithFollowUp ==
    /\ at = "idle"
    /\ lastAssistant
    /\ steeringQ = <<>> /\ followUpQ # <<>>
    /\ LET d == Dequeue(followUpQ, FollowUpAll)
       IN  followUpQ' = d[2] /\ delivered' = delivered \o d[1]
    /\ lastAssistant' = FALSE
    /\ StartRun(FALSE)
    /\ UNCHANGED <<steeringQ, origin>>

\* continue() after a user message or a tool result.
ContinueAsIs ==
    /\ at = "idle"
    /\ delivered # <<>>
    /\ ~lastAssistant
    /\ StartRun(FALSE)
    /\ UNCHANGED <<steeringQ, followUpQ, delivered, origin, lastAssistant>>

\* endAgentStream; the Agent's finally clears isStreaming and the controller.
EndRun == at' = "idle" /\ aborted' = FALSE

\* The loop rejects: Agent appends an assistant message that states the error.
Fail ==
    /\ EndRun
    /\ lastAssistant' = TRUE

-----------------------------------------------------------------------------
(* Polls of the loop: nothing is taken once the signal is aborted, and the *)
(* first poll after a continue() from the queue is skipped.                *)

\* getSteeringMessages(), its answer appended to pendingMessages.
PollSteering ==
    IF aborted
    THEN UNCHANGED <<steeringQ, pending, skipPoll>>
    ELSE /\ skipPoll' = FALSE
         /\ LET d == IF skipPoll THEN <<<<>>, steeringQ>> ELSE Dequeue(steeringQ, SteeringAll)
            IN  steeringQ' = d[2] /\ pending' = pending \o d[1]

PollAsides_Aborted_Fault ==
    /\ asideQ' = <<>>
    /\ \/ pending' = pending \o asideQ /\ UNCHANGED withdrawn
       \/ withdrawn' = withdrawn \cup Elems(asideQ) /\ UNCHANGED pending

\* getAsideMessages(): taken together; each may resolve to null and be dropped.
PollAsides ==
    IF aborted
    THEN UNCHANGED <<asideQ, pending, withdrawn>>
    ELSE /\ asideQ' = <<>>
         /\ \/ pending' = pending \o asideQ /\ UNCHANGED withdrawn
            \/ withdrawn' = withdrawn \cup Elems(asideQ) /\ UNCHANGED pending

PollFollowUps_Overwrite_Fault ==
    IF aborted
    THEN UNCHANGED <<followUpQ, pending>>
    ELSE LET d == Dequeue(followUpQ, FollowUpAll)
         IN  followUpQ' = d[2] /\ pending' = d[1]

\* getFollowUpMessages()
PollFollowUps ==
    IF aborted
    THEN UNCHANGED <<followUpQ, pending>>
    ELSE LET d == Dequeue(followUpQ, FollowUpAll)
         IN  followUpQ' = d[2] /\ pending' = pending \o d[1]

\* Where the loop looks at the clock, it ends the run; pendingMessages goes with it.
EndsAtDeadline ==
    /\ at \in {"start", "turn", "boundary", "yield"}
    /\ expired
    /\ EndRun
    /\ pending' = <<>>
    /\ UNCHANGED <<steeringQ, followUpQ, asideQ, delivered, origin, withdrawn, directive, harmony,
                   transcript, hasMore, skipPoll, paused, expired, bounds, aborts, late>>

InitialPoll ==
    /\ at = "start"
    /\ ~expired
    /\ PollSteering
    /\ at' = "turn"
    /\ UNCHANGED <<followUpQ, asideQ, delivered, origin, withdrawn, directive, harmony, transcript,
                   hasMore, paused, signals, bounds, aborts, late>>

\* Another turn; yieldIfDue() is awaited before the pending messages go in.
BeginTurn ==
    /\ at = "turn"
    /\ hasMore \/ pending # <<>>
    /\ ~expired
    /\ at' = "inject"
    /\ UNCHANGED <<queues, directive, harmony, transcript, hasMore, skipPoll, paused, signals,
                   bounds, aborts, late>>

\* Nothing more to do in the inner loop: onBeforeYield is awaited.
BeforeYield ==
    /\ at = "turn"
    /\ ~hasMore /\ pending = <<>>
    /\ ~expired
    /\ at' = "yield"
    /\ UNCHANGED <<queues, directive, harmony, transcript, hasMore, skipPoll, paused, signals,
                   bounds, aborts, late>>

\* The pending messages enter the context; the live state is synchronised.
Inject ==
    /\ at = "inject"
    /\ delivered' = delivered \o pending
    /\ pending' = <<>>
    /\ lastAssistant' = (lastAssistant /\ pending = <<>>)
    /\ at' = "directive"
    /\ UNCHANGED <<steeringQ, followUpQ, asideQ, origin, withdrawn, directive, harmony, owed, calls,
                   gaveUp, hasMore, skipPoll, paused, signals, bounds, aborts, late>>

-----------------------------------------------------------------------------
(* The model call.                                                         *)

CallModel ==
    /\ at' = "model"
    /\ calledAborted' = aborted
    /\ abortedCalls' = IF aborted THEN abortedCalls + 1 ELSE abortedCalls

\* A Harmony retry re-enters the turn with the directive it resolved before.
ReuseDirective ==
    /\ at = "directive"
    /\ resolved
    /\ CallModel
    /\ UNCHANGED <<queues, directive, harmony, transcript, hasMore, skipPoll, paused, signals,
                   bounds, late>>

\* getToolChoice() gave a soft requirement; its reminder goes in once per id.
SoftRequirement ==
    /\ at = "directive"
    /\ ~resolved /\ ~aborted
    /\ \E id \in {softId, softId + 1} \cap 1 .. SoftIds :
          /\ softId' = id
          /\ softEsc' = IF id = softId THEN softEsc ELSE 0
          /\ lastAssistant' = (lastAssistant /\ id = softId)
    /\ softTool' = TRUE
    /\ resolved' = TRUE
    /\ fetched' = fetched + 1
    /\ CallModel
    /\ UNCHANGED <<queues, forced, harmony, owed, calls, gaveUp, hasMore, skipPoll, paused, signals,
                   bounds, late>>

\* No directive or a hard tool choice (none is asked for on an aborted signal).
NoRequirement ==
    /\ at = "directive"
    /\ ~resolved
    /\ softId' = 0 /\ softEsc' = 0 /\ softTool' = FALSE
    /\ resolved' = TRUE
    /\ fetched' = IF aborted THEN fetched ELSE fetched + 1
    /\ CallModel
    /\ UNCHANGED <<queues, forced, harmony, transcript, hasMore, skipPoll, paused, signals,
                   bounds, late>>

\* The provider failed, or a request hook threw.
ModelThrows ==
    /\ at = "model"
    /\ Fail
    /\ UNCHANGED <<queues, directive, harmony, owed, calls, gaveUp, hasMore, skipPoll, paused,
                   expired, bounds, aborts, late>>

\* stopReason "error", or "aborted" once the signal is: each call retained in
\* the message is paired with a placeholder result, and the run ends.
ModelStopsRun ==
    /\ at = "model"
    /\ \E k \in 0 .. MaxCalls : lastAssistant' = (k = 0)
    /\ EndRun
    /\ UNCHANGED <<queues, directive, harmony, owed, calls, gaveUp, hasMore, skipPoll, paused,
                   expired, bounds, aborts, late>>

HarmonyRetries_Refetch_Fault ==
    /\ HarmonyModel
    /\ at = "model"
    /\ ~calledAborted
    /\ harmonyRetry < MaxHarmony
    /\ harmonyRetry' = harmonyRetry + 1
    /\ at' = "turn"
    /\ resolved' = FALSE
    /\ UNCHANGED <<queues, softId, softTool, softEsc, forced, fetched, harmonyResume, transcript,
                   hasMore, skipPoll, paused, signals, bounds, aborts, late>>

\* A Harmony leak: discard the answer and sample the same turn again ...
HarmonyRetries ==
    /\ HarmonyModel
    /\ at = "model"
    /\ ~calledAborted
    /\ harmonyRetry < MaxHarmony
    /\ harmonyRetry' = harmonyRetry + 1
    /\ at' = "turn"
    /\ UNCHANGED <<queues, directive, harmonyResume, transcript, hasMore, skipPoll, paused, signals,
                   bounds, aborts, late>>

\* ... but not for ever (the third leak, or the third truncated answer).
HarmonyGivesUp ==
    /\ HarmonyModel
    /\ at = "model"
    /\ ~calledAborted
    /\ harmonyRetry = MaxHarmony \/ harmonyResume = MaxHarmony
    /\ Fail
    /\ UNCHANGED <<queues, directive, harmony, owed, calls, gaveUp, hasMore, skipPoll, paused,
                   expired, bounds, aborts, late>>

\* An answer with k tool calls is accepted, whole or recovered from a leak.
\* A call made on an aborted signal is answered "aborted", never accepted.
Accept(k) ==
    /\ at = "model"
    /\ ~calledAborted
    /\ k > 0 => toolTurns < MaxToolTurns
    /\ toolTurns' = IF k > 0 THEN toolTurns + 1 ELSE toolTurns
    /\ harmonyRetry' = 0
    /\ \/ harmonyResume' = 0
       \/ HarmonyModel /\ harmonyResume < MaxHarmony /\ harmonyResume' = harmonyResume + 1
    /\ resolved' = FALSE
    /\ fetched' = 0

\* The answer satisfies the soft requirement: calls of its tool and no other.
MayComply(k) == ~softTool \/ k > 0
\* ... or it does not: every answer may call other tools or none.
MayDetour == softTool

\* A detour is answered with skipped results and the tool is forced next.
Escalate ==
    /\ MayDetour
    /\ softEsc < MaxSoft
    /\ \E k \in 0 .. MaxCalls :
          /\ Accept(k)
          /\ lastAssistant' = (k = 0)
          /\ paused' = IF k > 0 THEN 0 ELSE paused
    /\ forced' = TRUE
    /\ softEsc' = softEsc + 1
    /\ hasMore' = TRUE
    /\ at' = "turnEnd"
    /\ UNCHANGED <<queues, softId, softTool, owed, calls, gaveUp, skipPoll, signals, runs, aborts, late>>

\* The requirement was not met after MaxSoft forced turns: the loop throws,
\* with the answer's tool calls in the context.
GiveUpSoft ==
    /\ MayDetour
    /\ softEsc = MaxSoft
    /\ \E k \in 0 .. MaxCalls :
          /\ Accept(k)
          /\ owed' = owed + k
    /\ forced' = FALSE
    /\ gaveUp' = TRUE
    /\ Fail
    /\ UNCHANGED <<queues, softId, softTool, softEsc, calls, hasMore, skipPoll, paused, expired,
                   runs, aborts, late>>

\* The answer's calls are executed: executeToolCalls is awaited.
RunTools ==
    /\ \E k \in 1 .. MaxCalls :
          /\ Accept(k)
          /\ MayComply(k)
          /\ owed' = owed + k
          /\ calls' = k
    /\ ~expired
    /\ forced' = FALSE
    /\ hasMore' = TRUE
    /\ lastAssistant' = TRUE
    /\ at' = "tools"
    /\ UNCHANGED <<queues, softId, softTool, softEsc, gaveUp, skipPoll, paused, signals, runs, aborts, late>>

ToolsReturn_OneResult_Fault ==
    /\ at = "tools"
    /\ owed' = owed - 1
    /\ calls' = 0
    /\ lastAssistant' = FALSE
    /\ paused' = 0
    /\ at' = "turnEnd"
    /\ UNCHANGED <<queues, directive, harmony, gaveUp, hasMore, skipPoll, signals, bounds, aborts, late>>

\* executeToolCalls resolved with one result per call.
ToolsReturn ==
    /\ at = "tools"
    /\ owed' = owed - calls
    /\ calls' = 0
    /\ lastAssistant' = FALSE
    /\ paused' = 0
    /\ at' = "turnEnd"
    /\ UNCHANGED <<queues, directive, harmony, gaveUp, hasMore, skipPoll, signals, bounds, aborts, late>>

\* Calls that must not run, truncated by the token limit or past the deadline,
\* get placeholder results; only a truncated answer is worth another turn.
PairUnrun ==
    /\ \E k \in 1 .. MaxCalls : Accept(k) /\ MayComply(k)
    /\ \E truncated \in BOOLEAN :
          /\ truncated \/ expired
          /\ hasMore' = (truncated /\ ~expired)
    /\ forced' = FALSE
    /\ paused' = 0
    /\ lastAssistant' = FALSE
    /\ at' = "turnEnd"
    /\ UNCHANGED <<queues, softId, softTool, softEsc, owed, calls, gaveUp, skipPoll, signals, runs,
                   aborts, late>>

\* The backend paused the turn: it is sampled again, MaxPaused times in a row at most.
SampleAgain_Uncounted_Fault == paused < MaxPaused /\ hasMore' = TRUE /\ paused' = paused
SampleAgain == paused < MaxPaused /\ hasMore' = TRUE /\ paused' = paused + 1

\* An answer without tool calls: the model stops, or its backend paused the turn.
NoCalls ==
    /\ Accept(0)
    /\ MayComply(0)
    /\ \/ hasMore' = FALSE /\ UNCHANGED paused
       \/ SampleAgain
    /\ forced' = FALSE
    /\ lastAssistant' = TRUE
    /\ at' = "turnEnd"
    /\ UNCHANGED <<queues, softId, softTool, softEsc, owed, calls, gaveUp, skipPoll, signals, runs,
                   aborts, late>>

-----------------------------------------------------------------------------
(* The boundary after a turn and the drain before the run ends.            *)

\* onTurnEnd (not called on an aborted signal) or onBeforeYield throws.
HookThrows ==
    /\ HooksFail
    /\ at = "yield" \/ (at = "turnEnd" /\ ~aborted)
    /\ Fail
    /\ UNCHANGED <<queues, directive, harmony, owed, calls, gaveUp, hasMore, skipPoll, paused,
                   expired, bounds, aborts, late>>

TurnEnded ==
    /\ at = "turnEnd"
    /\ at' = "boundary"
    /\ UNCHANGED <<queues, directive, harmony, transcript, hasMore, skipPoll, paused, signals,
                   bounds, aborts, late>>

BoundaryPoll ==
    /\ at = "boundary"
    /\ ~expired
    /\ PollSteering
    /\ at' = IF hasMore THEN "asides" ELSE "turn"
    /\ UNCHANGED <<followUpQ, asideQ, delivered, origin, withdrawn, directive, harmony, transcript,
                   hasMore, paused, signals, bounds, aborts, late>>

MidWorkAsides ==
    /\ at = "asides"
    /\ PollAsides
    /\ at' = "turn"
    /\ UNCHANGED <<steeringQ, followUpQ, delivered, origin, directive, harmony, transcript,
                   hasMore, skipPoll, paused, signals, bounds, aborts, late>>

LatePoll_Skipped_Fault ==
    /\ at = "yield"
    /\ ~expired
    /\ at' = "lateAsides"
    /\ UNCHANGED <<queues, directive, harmony, transcript, hasMore, skipPoll, paused, signals, bounds,
                   aborts, late>>

\* onBeforeYield returned: steering once more, for what arrived meanwhile.
LatePoll ==
    /\ at = "yield"
    /\ ~expired
    /\ PollSteering
    /\ at' = "lateAsides"
    /\ UNCHANGED <<followUpQ, asideQ, delivered, origin, withdrawn, directive, harmony, transcript,
                   hasMore, paused, signals, bounds, aborts, late>>

LateAsides ==
    /\ at = "lateAsides"
    /\ PollAsides
    /\ at' = "followUps"
    /\ UNCHANGED <<steeringQ, followUpQ, delivered, origin, directive, harmony, transcript,
                   hasMore, skipPoll, paused, signals, bounds, aborts, late>>

\* Follow-ups; with anything pending the outer loop starts over, else it ends.
DrainFollowUps ==
    /\ at = "followUps"
    /\ PollFollowUps
    /\ IF pending' # <<>>
       THEN at' = "turn" /\ hasMore' = TRUE /\ UNCHANGED aborted
       ELSE EndRun /\ UNCHANGED hasMore
    /\ UNCHANGED <<steeringQ, asideQ, delivered, origin, withdrawn, directive, harmony, transcript,
                   skipPoll, paused, expired, bounds, aborts, late>>

LoopStep ==
    \/ EndsAtDeadline \/ InitialPoll \/ BeginTurn \/ BeforeYield \/ Inject
    \/ ReuseDirective \/ SoftRequirement \/ NoRequirement
    \/ ModelThrows \/ ModelStopsRun \/ HarmonyRetries \/ HarmonyGivesUp
    \/ Escalate \/ GiveUpSoft \/ RunTools \/ ToolsReturn \/ PairUnrun \/ NoCalls
    \/ HookThrows \/ TurnEnded \/ BoundaryPoll \/ MidWorkAsides
    \/ LatePoll \/ LateAsides \/ DrainFollowUps

StartStep == Prompt \/ ContinueWithSteering \/ ContinueWithFollowUp \/ ContinueAsIs

UserStep == Steer \/ FollowUp \/ Aside \/ PopLastSteer \/ PopLastFollowUp \/ Abort

Next == LoopStep \/ StartStep \/ UserStep \/ DeadlinePasses \/ DeadlineTimer

Spec == Init /\ [][Next]_vars

\* Awaited promises settle in the end: the model answers (the provider has
\* timeouts), tools return (ToolBatch!BatchReturns) and hooks return.
FairSpec == Spec /\ WF_vars(LoopStep)

-----------------------------------------------------------------------------
(* Properties.                                                             *)

\* No message is lost or duplicated: whatever was submitted is in one queue, or
\* pending, or in the context, or the user took it back, and only once.
OnePlace ==
    LET places == <<steeringQ, followUpQ, asideQ, pending, delivered>>
    IN  /\ (UNION {Elems(places[i]) : i \in DOMAIN places}) \cup withdrawn = Msgs
        /\ Len(steeringQ) + Len(followUpQ) + Len(asideQ) + Len(pending) + Len(delivered)
             + Cardinality(withdrawn) = Len(origin)

\* Messages of the user of one kind reach the model in the order they were sent.
DeliveredInOrder ==
    \A i, j \in DOMAIN delivered :
        /\ i < j
        /\ origin[delivered[i]] = origin[delivered[j]]
        => delivered[i] < delivered[j]

\* What is sent arrives: all of it, once and in order, and the loop's counters stay
\* within the code's limits.
QueuesIntact == TypeOK /\ OnePlace /\ DeliveredInOrder

\* tool_use/tool_result pairing: no model call sees a tool call without its
\* result, unless an earlier run gave up on a soft requirement (see PairedAtRest).
PairedAtModelCall == at = "model" => owed = 0 \/ gaveUp

\* getToolChoice() consumes a directive: at most one per logical turn, however
\* many times a Harmony leak makes the loop sample the turn again.
DirectiveOncePerTurn == fetched <= 1

\* After an abort the loop calls the model at most once more, to be told so.
AbortStopsModelCalls == abortedCalls <= 1

\* Each call of the model is one that the provider accepts and the user still wants.
ModelCallsSound == PairedAtModelCall /\ AbortStopsModelCalls

\* "so the loop never yields while the requirement is unmet": after a detour a
\* forced turn follows before the loop can stop.
NoYieldWhileForced == at \in {"yield", "lateAsides", "followUps"} => ~forced

\* What the host requires of a turn is asked once and not forgotten, however the turn is
\* sampled again.
DirectivesHonoured == DirectiveOncePerTurn /\ NoYieldWhileForced

\* An aborted run leaves the queues to the run that follows it, also when the
\* abort falls between two polls of one drain.
AbortLeavesQueues ==
    [][aborted /\ at # "idle" /\ at' # at => UNCHANGED <<steeringQ, followUpQ, asideQ>>]_vars

\* The run decides by itself to end (nothing pending, nothing aborted).
Stops == at = "followUps" /\ at' = "idle" /\ ~aborted

\* A run that stops leaves no steer behind but one sent during the last polls.
SteerNotStranded == [][Stops => Elems(steeringQ) \subseteq late]_vars

\* A run that stops has answered: the context ends with an assistant message.
StopsAnswered == [][Stops => lastAssistant]_vars

\* A run stops for good reason: nobody who spoke to it is left without an answer.
StopsComplete == SteerNotStranded /\ StopsAnswered

\* Every run ends, whatever the model, the host and the queues do in between.
RunEnds == at # "idle" ~> at = "idle"

\* Doc of getSteeringMessages: "dequeued messages are immediately injected".
DequeuedIsInjected ==
    [][pending # <<>> /\ pending' = <<>> => delivered' = delivered \o pending]_vars

\* Comment on placeholder results: they maintain "the tool_use/tool_result
\* pairing that the API requires" whenever a turn is over.
PairedAtRest == at = "idle" => owed = 0
=============================================================================
