------------------------------- MODULE ModelCall -------------------------------
(***************************************************************************)
(* One sampling of the model: streamAssistantResponse of packages/agent/   *)
(* src/agent-loop.ts, with the stream of the provider it reads.  The turn  *)
(* loop of AgentLoop takes its outcome as one step.                        *)
(*                                                                         *)
(* The provider pushes events into a queue and goes on changing the very   *)
(* message object that its events carry; the loop reads them one await     *)
(* later, racing each read against the run's abort signal.  `at` names the *)
(* await the function is suspended at.  A tool call is its number; calls   *)
(* are the only content the module tells apart.                            *)
(*                                                                         *)
(* Definitions named ..._Fault are not part of the model: each is a bug    *)
(* the definition after it could have, for which a property must fail.     *)
(***************************************************************************)
EXTENDS Naturals, Sequences

CONSTANTS
    HarmonyModel,   \* isHarmonyLeakMitigationTarget(model)
    MaxCalls,       \* bound: tool calls the provider begins
    MaxQueue        \* bound: events pushed and not read yet

ASSUME HarmonyAssumption == HarmonyModel \in BOOLEAN
ASSUME BoundsAssumption == MaxCalls \in Nat /\ MaxQueue \in Nat

VARIABLES
    \* the provider
    queue,          \* events of the stream that were not read
    source,         \* "open", "closed" by a terminal event, "ended" without one, "failed"
    begun,          \* tool calls begun so far, over all restarts
    built,          \* tool calls in the message object, which `partial` is, too
    received,       \* history: tool calls whose arguments arrived completely
    stop,           \* stop reason of the final message
    \* the loop
    at,
    event,          \* the event in hand
    added,          \* addedPartial (partialMessage is set with it)
    completed,      \* completedToolCallIds
    trailing,       \* history: the result of a stream without terminal event was taken
    context,        \* last message of the context: "none" of this call, "partial", "final"
    answer,         \* the message returned
    starts, ends,   \* message_start and message_end events pushed
    aborted         \* the run's signal

provider == <<queue, source, begun, built, received, stop>>
output == <<context, answer, starts, ends>>
reading == <<added, completed, trailing>>
vars == <<provider, at, event, output, reading, aborted>>

Calls == 1 .. MaxCalls
Event == [type : {"start", "update", "callEnd", "terminal"}, call : 0 .. MaxCalls]
Ev(t) == [type |-> t, call |-> 0]
Message == [stop : {"none", "stop", "error", "aborted"}, calls : SUBSET Calls]
NoAnswer == [stop |-> "none", calls |-> {}]

\* leaked: a HarmonyLeakInterruption was thrown; threw: any other error.
Over == {"returned", "leaked", "threw"}

TypeOK ==
    /\ queue \in Seq(Event)
    /\ source \in {"open", "closed", "ended", "failed"}
    /\ begun \in 0 .. MaxCalls
    /\ built \subseteq 1 .. begun /\ received \subseteq Calls
    /\ stop \in {"stop", "error"}
    /\ at \in {"request", "next", "event", "yield", "transform", "result"} \cup Over
    /\ event \in Event
    /\ added \in BOOLEAN
    /\ completed \subseteq Calls
    /\ trailing \in BOOLEAN
    /\ context \in {"none", "partial", "final"}
    /\ answer \in Message
    /\ starts \in 0 .. 1 /\ ends \in 0 .. 1
    /\ aborted \in BOOLEAN

Init ==
    /\ queue = <<>> /\ source = "open" /\ begun = 0 /\ built = {} /\ received = {}
    /\ stop = "stop"
    /\ at = "request" /\ event = Ev("update")
    /\ added = FALSE /\ completed = {} /\ trailing = FALSE
    /\ context = "none" /\ answer = NoAnswer
    /\ starts = 0 /\ ends = 0
    /\ aborted \in BOOLEAN

-----------------------------------------------------------------------------
(* The provider and its AssistantMessageEventStream.  Nothing obliges it   *)
(* to notice the abort or to go on.                                        *)

\* What it does after the call is over is not looked at.
Push(e) ==
    /\ source = "open" /\ at \notin Over
    /\ Len(queue) < MaxQueue
    /\ queue' = Append(queue, e)

\* It begins its message; a provider that recovers from an error empties the
\* message object and pushes "start" again.
ProviderStarts ==
    /\ Push(Ev("start"))
    /\ built' = {}
    /\ UNCHANGED <<source, begun, received, stop, at, event, output, reading, aborted>>

\* Text, thinking, arguments of a tool call, perhaps the beginning of one.
ProviderUpdates ==
    /\ Push(Ev("update"))
    /\ \/ UNCHANGED <<begun, built>>
       \/ /\ begun < MaxCalls
          /\ begun' = begun + 1
          /\ built' = built \cup {begun + 1}
    /\ UNCHANGED <<source, received, stop, at, event, output, reading, aborted>>

ProviderEndsCall(c) ==
    /\ c \in built \ received
    /\ Push([type |-> "callEnd", call |-> c])
    /\ received' = received \cup {c}
    /\ UNCHANGED <<source, begun, built, stop, at, event, output, reading, aborted>>

\* "done", or "error" with whatever had been received of the message.
ProviderFinishes ==
    /\ Push(Ev("terminal"))
    /\ source' = "closed"
    /\ stop' \in {"stop", "error"}
    /\ UNCHANGED <<begun, built, received, at, event, output, reading, aborted>>

\* end() without a terminal event (a stream of the host's own), or an iteration
\* that throws.
ProviderBreaksOff ==
    /\ source = "open" /\ at \notin Over
    /\ source' \in {"ended", "failed"}
    /\ UNCHANGED <<queue, begun, built, received, stop, at, event, output, reading, aborted>>

Abort ==
    /\ ~aborted
    /\ aborted' = TRUE
    /\ UNCHANGED <<provider, at, event, output, reading>>

-----------------------------------------------------------------------------
(* How a call ends.                                                        *)

\* retainCompletedToolCalls: of an interrupted message only the tool calls whose
\* toolcall_end was read are kept.
Retained_All_Fault(calls) == calls
Retained(calls) == calls \cap completed

\* The message replaces the partial one, or is appended and announced.

Commit(message) ==
    /\ answer' = message
    /\ context' = "final"
    /\ starts' = IF added THEN starts ELSE starts + 1
    /\ ends' = ends + 1
    /\ at' = "returned"

\* finishAbortedStream: the provider's clean-up is not awaited.
FinishAborted ==
    /\ Commit([stop |-> "aborted", calls |-> IF added THEN Retained(built) ELSE {}])
    /\ UNCHANGED <<provider, event, reading, aborted>>

\* The message shows leaked Harmony markup: what was shown of it is closed as an
\* error and taken out of the context.
DiscardLeak_Kept_Fault ==
    /\ HarmonyModel
    /\ ends' = IF added THEN ends + 1 ELSE ends
    /\ at' = "leaked"
    /\ UNCHANGED <<provider, event, answer, starts, context, reading, aborted>>

DiscardLeak ==
    /\ HarmonyModel
    /\ ends' = IF added THEN ends + 1 ELSE ends
    /\ context' = "none"
    /\ added' = FALSE
    /\ at' = "leaked"
    /\ UNCHANGED <<provider, event, answer, starts, completed, trailing, aborted>>

Throw == at' = "threw" /\ UNCHANGED <<provider, event, output, reading, aborted>>

-----------------------------------------------------------------------------
(* streamAssistantResponse.                                                *)

\* The context is transformed and converted, the key resolved, the stream
\* opened; each of these may throw.
RequestThrows == at = "request" /\ Throw

StreamOpens ==
    /\ at = "request"
    /\ \/ aborted /\ FinishAborted
       \/ ~aborted /\ at' = "next" /\ UNCHANGED <<provider, event, output, reading, aborted>>

\* Promise.race([responseIterator.next(), abortRacePromise]).
AbortWins_AwaitsCleanUp_Fault ==
    /\ at = "next" /\ aborted
    /\ IF source = "open" THEN UNCHANGED vars ELSE FinishAborted

AbortWins == at = "next" /\ aborted /\ FinishAborted

ReadsEvent ==
    /\ at = "next" /\ ~aborted /\ queue # <<>>
    /\ event' = Head(queue)
    /\ queue' = Tail(queue)
    /\ at' = "event"
    /\ UNCHANGED <<source, begun, built, received, stop, output, reading, aborted>>

StreamThrows == at = "next" /\ ~aborted /\ queue = <<>> /\ source = "failed" /\ Throw

StreamEnds ==
    /\ at = "next" /\ ~aborted /\ queue = <<>> /\ source = "ended"
    /\ at' = "result"
    /\ UNCHANGED <<provider, event, output, reading, aborted>>

\* A terminal event is the answer even when the abort came first.
HandlesTerminal ==
    /\ at = "event" /\ event.type = "terminal"
    /\ \/ DiscardLeak
       \/ at' = "transform" /\ UNCHANGED <<provider, event, output, reading, aborted>>

\* Any other event is dropped if the signal was aborted meanwhile; otherwise the
\* loop may rest (yieldIfDue) before it applies the event.
HandlesEvent ==
    /\ at = "event" /\ event.type # "terminal"
    /\ \/ aborted /\ FinishAborted
       \/ ~aborted /\ at' = "yield" /\ UNCHANGED <<provider, event, output, reading, aborted>>

\* transformAssistantMessage was awaited; a host's transform may throw.
CommitsFinal ==
    /\ at = "transform"
    /\ \/ Throw
       \/ /\ Commit([stop |-> stop, calls |-> IF stop = "error" THEN Retained(built) ELSE built])
          /\ UNCHANGED <<provider, event, reading, aborted>>

AppliesStart_Announced_Fault ==
    /\ at = "yield" /\ event.type = "start"
    /\ added' = TRUE
    /\ completed' = {}
    /\ context' = "partial"
    /\ starts' = starts + 1
    /\ at' = "next"
    /\ UNCHANGED <<provider, event, answer, ends, trailing, aborted>>

AppliesStart ==
    /\ at = "yield" /\ event.type = "start"
    /\ added' = TRUE
    /\ completed' = IF added THEN {} ELSE completed
    /\ context' = "partial"
    /\ starts' = IF added THEN starts ELSE starts + 1
    /\ at' = "next"
    /\ UNCHANGED <<provider, event, answer, ends, trailing, aborted>>

\* An event before the first "start" is ignored; onAssistantMessageEvent may throw.
AppliesUpdate ==
    /\ at = "yield" /\ event.type \in {"update", "callEnd"}
    /\ completed' = IF added /\ event.type = "callEnd" THEN completed \cup {event.call} ELSE completed
    /\ at' \in {"next"} \cup (IF added THEN {"threw"} ELSE {})
    /\ UNCHANGED <<provider, event, added, trailing, output, aborted>>

\* The result of a stream that ended without a terminal event: whatever message
\* end() was given, with all the calls in it, or a rejection.  A message that never
\* started is returned unannounced.
CommitsTrailing ==
    /\ at = "result"
    /\ \/ Throw
       \/ DiscardLeak
       \/ \E s \in {"stop", "error", "aborted"} :
            LET message == [stop |-> s, calls |-> built] IN
            /\ trailing' = TRUE
            /\ \/ added /\ Commit(message) /\ UNCHANGED <<provider, event, added, completed, aborted>>
               \/ /\ ~added
                  /\ answer' = message
                  /\ at' = "returned"
                  /\ UNCHANGED <<provider, event, context, starts, ends, added, completed, aborted>>

Terminated == at \in Over /\ UNCHANGED vars

ProviderStep ==
    \/ ProviderStarts \/ ProviderUpdates \/ ProviderFinishes \/ ProviderBreaksOff
    \/ \E c \in Calls : ProviderEndsCall(c)

Consume ==
    \/ RequestThrows \/ StreamOpens
    \/ AbortWins \/ ReadsEvent \/ StreamThrows \/ StreamEnds
    \/ HandlesTerminal \/ HandlesEvent \/ CommitsFinal
    \/ AppliesStart \/ AppliesUpdate \/ CommitsTrailing

Next == ProviderStep \/ Abort \/ Consume \/ Terminated

Spec == Init /\ [][Next]_vars

\* Continuations run and the host's callbacks settle.  The provider may hang.
FairSpec == Spec /\ WF_vars(Consume)

-----------------------------------------------------------------------------
(* Properties.                                                             *)

\* Listeners see one message_start and one message_end for the message that is
\* returned, whether it was streamed, aborted, failed or never begun, and then the
\* context holds its final form.  (The one exception is a stream that ends without
\* any event: line 1466 returns its message and tells nobody.)
Framed ==
    /\ ends <= starts
    /\ ends = 1 => at \in Over
    /\ at = "returned" =>
        /\ starts = 1 \/ (source = "ended" /\ queue = <<>>)
        /\ starts = ends
        /\ context = "final" <=> starts = 1

\* A leaked turn is sampled again by the turn loop: it finds nothing of it in the
\* context, and listeners do not wait for the end of the message.
LeakLeavesNoTrace == at = "leaked" => context = "none" /\ starts = ends

\* A throw closes nothing: a message that was announced stays open and its partial
\* form stays last in the run's context, one that was not has left no trace, and the
\* caller has no answer.  Agent's catch ends the run with an error message of its own.
ThrowLeavesOpen ==
    at = "threw" =>
        /\ ends = 0 /\ answer = NoAnswer
        /\ context = IF starts = 1 THEN "partial" ELSE "none"

\* On every way out the listeners, the context and the caller agree on what there is:
\* one closed message, nothing, or after a throw at most one open one.
CleanEnd == Framed /\ LeakLeavesNoTrace /\ ThrowLeavesOpen

\* An interrupted message is replayed to the provider: it has no tool call with
\* arguments cut short, although the message object ran ahead of the events read,
\* and none of an attempt that the provider has given up.  (The one exit without
\* retainCompletedToolCalls is excluded: the result of a stream that ended without
\* a terminal event is returned as it is, lines 1452-1476, also when it is an error.)
OnlyCompleteCalls ==
    answer.stop \in {"error", "aborted"} /\ ~trailing => answer.calls \subseteq built \cap received

\* An abort ends the call although the provider hangs; so does the provider.
CallEnds == at # "request" /\ (aborted \/ source # "open") ~> at \in Over
=============================================================================
