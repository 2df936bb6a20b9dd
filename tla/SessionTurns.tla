------------------------------ MODULE SessionTurns ------------------------------
(***************************************************************************)
(* The turns of one session: packages/coding-agent/src/session/            *)
(* agent-session.ts, with the caps of turn-scheduler.ts.  A turn is a run  *)
(* of the Agent's loop, and three things start one: the user's prompt, the *)
(* wake for an IRC message and the drain of a message stranded in the      *)
(* Agent's queues.  Each is an asynchronous function of the session that   *)
(* counts itself in #promptInFlightCount; a step is what one of them, the  *)
(* loop or abort() does between two awaits.                                *)
(*                                                                         *)
(* The queues are sets: in which order the loop takes messages is module   *)
(* AgentLoop.  What the loop does between its polls is left out.           *)
(*                                                                         *)
(* Definitions named ..._Fault are not part of the model: each is a bug    *)
(* the definition after it could have, for which a property must fail.     *)
(***************************************************************************)
EXTENDS Naturals, FiniteSets

CONSTANTS
    DrainCap,               \* YIELD_CONTINUATION_CAP: of a session, and in a row
    WakeCap, WakeRowCap,    \* IRC_WAKE_SESSION_CAP, IRC_WAKE_CONSECUTIVE_CAP
    NumMsgs,                \* bound: IRC messages, steers and follow-ups
    MaxPrompts,             \* bound: prompts of the user
    Aborts                  \* bound: calls of abort()

None == "none"

ASSUME CapsAssumption == {DrainCap, WakeCap, WakeRowCap, NumMsgs, MaxPrompts} \subseteq Nat
ASSUME AbortsAssumption == IsFiniteSet(Aborts)

Frames == 1 .. (MaxPrompts + DrainCap + WakeCap)
Msgs == 1 .. NumMsgs

VARIABLES
    frame,          \* the functions that started a turn, in the order they began
    begun,          \* how many there are
    inFlight,       \* #promptInFlightCount
    runner,         \* the frame whose run the Agent's loop is in, 0 without one
    loop,           \* that run: "poll", or "tail" after its last poll
    arriving,       \* messages of the user whose images are being prepared
    steers, followUps,  \* the Agent's queues
    asides,         \* #pendingIrcAsides
    context,        \* messages the model has been given
    denied,         \* messages of wakes the scheduler did not admit
    sent,           \* how many messages were sent
    history,        \* the transcript ends in: None (empty), "reply" (assistant or
                    \* tool result), "record" (injected)
    suppressed,     \* #advisorAutoResumeSuppressed: a user interrupt stands
    held,           \* history: the follow-ups that were queued when it came
    aborting,       \* #abortInProgress
    abort,          \* abort(): None, "tasks", "idle" (awaits the run), "done"
    awaits,         \* the frames it awaits
    drains, wakes, wakesInRow,  \* the TurnScheduler's counters; of drains both caps
                                \* are one number, and only that of the session bites
    refused,        \* history: what was queued when it did not admit a drain
    prompts         \* bound: prompts begun

queues == <<arriving, steers, followUps, asides, context, denied, sent>>
turns == <<frame, begun, inFlight, runner, loop>>
counters == <<drains, refused, wakes, wakesInRow>>
aborts == <<aborting, abort, awaits>>
interrupt == <<suppressed, held>>
vars == <<queues, turns, counters, aborts, history, interrupt, prompts>>

\* Of a wake: the follow-ups it parks, and whether a steer was queued when it began.
Frame(kind, at, parked, fromSteer) ==
    [kind |-> kind, at |-> at, stale |-> FALSE, parked |-> parked, fromSteer |-> fromSteer]
Absent == Frame(None, "none", {}, FALSE)
Ended == [Absent EXCEPT !.at = "ended"]
Live(f) == frame[f].at \notin {"none", "ended"}
New == begun + 1
Parked == UNION {frame[f].parked : f \in Frames}

TypeOK ==
    /\ frame \in [Frames -> [kind : {None, "prompt", "wake", "drain"},
                             at : {"none", "checked", "setup", "waiting", "restoring",
                                   "running", "recovering", "settling", "ended"},
                             stale : BOOLEAN, parked : SUBSET Msgs, fromSteer : BOOLEAN]]
    /\ begun = prompts + drains + wakes
    /\ \A f \in Frames : f <= begun <=> frame[f].at # "none"
    /\ inFlight \in 0 .. Cardinality(Frames)
    /\ runner \in {0} \cup {f \in Frames : frame[f].at = "running"}
    /\ loop \in {"poll", "tail"}
    /\ steers \subseteq Msgs /\ followUps \subseteq Msgs /\ asides \subseteq Msgs
    /\ context \subseteq Msgs /\ denied \subseteq Msgs /\ sent \in 0 .. NumMsgs
    /\ history \in {None, "reply", "record"}
    /\ suppressed \in BOOLEAN /\ held \subseteq Msgs /\ arriving \subseteq Msgs /\ aborting \in BOOLEAN
    /\ abort \in [Aborts -> {None, "tasks", "idle", "done"}]
    /\ awaits \in [Aborts -> SUBSET Frames]
    /\ drains \in 0 .. DrainCap /\ refused \subseteq Msgs
    /\ wakes \in 0 .. WakeCap /\ wakesInRow \in 0 .. WakeRowCap
    /\ prompts \in 0 .. MaxPrompts

Init ==
    /\ frame = [f \in Frames |-> Absent] /\ begun = 0 /\ inFlight = 0
    /\ runner = 0 /\ loop = "tail"
    /\ arriving = {} /\ steers = {} /\ followUps = {} /\ asides = {}
    /\ context = {} /\ denied = {} /\ sent = 0
    /\ history = None /\ suppressed = FALSE /\ held = {}
    /\ aborting = FALSE
    /\ abort = [a \in Aborts |-> None] /\ awaits = [a \in Aborts |-> {}]
    /\ drains = 0 /\ refused = {} /\ wakes = 0 /\ wakesInRow = 0 /\ prompts = 0

IsStreaming(count) == runner # 0 \/ count > 0

\* #canAutoContinueForFollowUp, with no retry under way
MayContinue(queued) == queued # {} \/ (~suppressed /\ history = "reply")
CanAutoContinue(count) == ~IsStreaming(count) /\ MayContinue(steers)

-----------------------------------------------------------------------------
(* Automatic turns.  Each operator is a piece of a step: it is given the   *)
(* frames fr, the count and the follow-ups as the step has left them.      *)

\* #scheduleAgentContinue: without a delay it counts itself before its first await.
AdmitDrain == drains < DrainCap

Drain(fr, count, queued) ==
    IF AdmitDrain
    THEN /\ frame' = [fr EXCEPT ![New] = Frame("drain", "restoring", {}, FALSE)]
         /\ begun' = New /\ inFlight' = count + 1
         /\ drains' = drains + 1
         /\ UNCHANGED refused
    ELSE /\ refused' = refused \cup queued
         /\ frame' = fr /\ inFlight' = count
         /\ UNCHANGED <<begun, drains>>

\* #wakeForIrc.  Only follow-ups that may not go on by themselves are parked.
Blocked(count, fu) == IF steers = {} /\ ~CanAutoContinue(count) THEN fu ELSE {}

Wake(records, fr, count, fu) ==
    IF wakes < WakeCap /\ wakesInRow < WakeRowCap
    THEN /\ frame' = [fr EXCEPT ![New] = Frame("wake", "running", Blocked(count, fu), steers # {})]
         /\ begun' = New /\ inFlight' = count + 1
         /\ followUps' = fu \ Blocked(count, fu)
         /\ runner' = New /\ loop' = "poll" /\ context' = context \cup records
         /\ wakes' = wakes + 1 /\ wakesInRow' = wakesInRow + 1
         /\ UNCHANGED denied
    ELSE /\ denied' = denied \cup records
         /\ frame' = fr /\ inFlight' = count /\ followUps' = fu
         /\ UNCHANGED <<begun, runner, loop, context, wakes, wakesInRow>>

\* #drainStrandedQueuedMessages: the queues first, the asides if that started
\* nothing because nothing was queued or may be continued.
Resumable(count, fu) == CanAutoContinue(count) /\ steers \cup fu # {}

Idles(fr, count, fu) ==
    /\ frame' = fr /\ inFlight' = count /\ followUps' = fu
    /\ UNCHANGED <<begun, runner, loop, asides, context, denied, counters>>

ResumeStranded_AsidesOnly_Fault(abortInProgress, fr, count, fu) ==
    IF abortInProgress \/ IsStreaming(count) \/ asides = {} THEN Idles(fr, count, fu)
    ELSE /\ asides' = {}
         /\ Wake(asides, fr, count, fu)
         /\ UNCHANGED <<drains, refused>>
ResumeStranded(abortInProgress, fr, count, fu) ==
    IF abortInProgress \/ IsStreaming(count) THEN Idles(fr, count, fu)
    ELSE IF Resumable(count, fu)
    THEN /\ Drain(fr, count, steers \cup fu \cup asides)
         /\ followUps' = fu
         /\ UNCHANGED <<runner, loop, asides, context, denied, wakes, wakesInRow>>
    ELSE IF asides # {}
    THEN /\ asides' = {}
         /\ Wake(asides, fr, count, fu)
         /\ UNCHANGED <<drains, refused>>
    ELSE Idles(fr, count, fu)

\* #endInFlight, the last thing a frame does
EndInFlight(f, fu) ==
    LET fr == [frame EXCEPT ![f] = Ended]
        count == IF inFlight = 0 THEN 0 ELSE inFlight - 1
    IN IF count = 0 THEN ResumeStranded(aborting, fr, 0, fu) ELSE Idles(fr, count, fu)

MovesTo(f, point) ==
    /\ frame' = [frame EXCEPT ![f].at = point]
    /\ UNCHANGED <<begun, inFlight>>

-----------------------------------------------------------------------------
(* Messages.                                                               *)

Send == sent < NumMsgs /\ sent' = sent + 1
Msg == sent + 1

\* deliverIrcMessage
Deliver ==
    /\ Send
    /\ IF IsStreaming(inFlight)
       THEN /\ asides' = asides \cup {Msg}
            /\ UNCHANGED <<followUps, turns, context, denied, wakes, wakesInRow>>
       ELSE /\ Wake({Msg}, frame, inFlight, followUps)
            /\ UNCHANGED asides
    /\ UNCHANGED <<arriving, steers, drains, refused, aborts, history, interrupt, prompts>>

\* #queueUserMessage, up to the images and after them
UserSends ==
    /\ Send
    /\ arriving' = arriving \cup {Msg}
    /\ suppressed' = FALSE /\ held' = {}
    /\ UNCHANGED <<steers, followUps, asides, context, denied, turns, counters, aborts,
                   history, prompts>>

QueueUserMessage(m) ==
    /\ m \in arriving
    /\ arriving' = arriving \ {m}
    /\ \/ steers' = steers \cup {m} /\ UNCHANGED followUps
       \/ followUps' = followUps \cup {m} /\ UNCHANGED steers
    /\ IF ~IsStreaming(inFlight) /\ MayContinue(steers')
       THEN Drain(frame, inFlight, steers' \cup followUps')
       ELSE UNCHANGED <<frame, begun, inFlight, drains, refused>>
    /\ UNCHANGED <<runner, loop, asides, context, denied, sent, wakes, wakesInRow, aborts,
                   history, interrupt, prompts>>

-----------------------------------------------------------------------------
(* The user's prompt: prompt() up to its first await, #promptWithMessage.  *)

Prompt ==
    /\ prompts < MaxPrompts /\ ~IsStreaming(inFlight)
    /\ prompts' = prompts + 1
    /\ suppressed' = FALSE /\ held' = {}
    /\ frame' = [frame EXCEPT ![New] = Frame("prompt", "checked", {}, FALSE)]
    /\ begun' = New
    /\ UNCHANGED <<queues, inFlight, runner, loop, counters, aborts, history>>

\* #flushPendingIrcAsides appends what is pending to the transcript.
BeginPrompt(f) ==
    /\ frame[f].at = "checked"
    /\ frame' = [frame EXCEPT ![f].at = "setup", ![f].stale = FALSE]
    /\ inFlight' = inFlight + 1
    /\ context' = context \cup asides /\ asides' = {}
    /\ history' = IF asides = {} THEN history ELSE "record"
    /\ wakesInRow' = 0
    /\ UNCHANGED <<begun, runner, loop, arriving, steers, followUps, denied, sent, drains, refused, wakes,
                   aborts, interrupt, prompts>>

\* It fails (no key), or finds that an abort has taken its place.
SetupEnds(f) ==
    /\ frame[f].at = "setup"
    /\ EndInFlight(f, followUps)
    /\ UNCHANGED <<arriving, steers, sent, aborts, history, interrupt, prompts>>

Runs(f) ==
    /\ frame' = [frame EXCEPT ![f].at = "running"]
    /\ runner' = f /\ loop' = "poll"
    /\ UNCHANGED <<begun, inFlight>>

\* #promptAgentWithIdleRetry
ReachesAgent(f) ==
    /\ frame[f].at = "setup" /\ ~frame[f].stale
    /\ IF runner = 0 THEN Runs(f)
       ELSE MovesTo(f, "waiting") /\ UNCHANGED <<runner, loop>>
    /\ UNCHANGED <<queues, counters, aborts, history, interrupt, prompts>>

Retries(f) ==
    /\ frame[f].at = "waiting" /\ runner = 0
    /\ Runs(f)
    /\ UNCHANGED <<queues, counters, aborts, history, interrupt, prompts>>

GivesUp(f) ==
    /\ frame[f].at = "waiting"
    /\ EndInFlight(f, followUps)
    /\ UNCHANGED <<arriving, steers, sent, aborts, history, interrupt, prompts>>

\* #waitForPostPromptRecovery: an abort releases it, else no drain and no run is left.
Recovers(f) ==
    /\ frame[f].at = "recovering"
    /\ \/ frame[f].stale
       \/ runner = 0 /\ \A g \in Frames : frame[g].kind = "drain" => ~Live(g)
    /\ EndInFlight(f, followUps)
    /\ UNCHANGED <<arriving, steers, sent, aborts, history, interrupt, prompts>>

-----------------------------------------------------------------------------
(* Drains and wakes.                                                       *)

\* What the Agent's queues yield next: follow-ups only without a steer.
NextQueued == IF steers # {} THEN steers ELSE followUps
Take(m, more) ==
    /\ steers' = steers \ {m} /\ followUps' = followUps \ {m}
    /\ context' = context \cup {m} \cup more

\* Agent.continue(): a transcript that ends in a reply needs a queued message.
Continues ==
    /\ runner = 0 /\ history # None
    /\ history = "reply" => steers \cup followUps # {}

DrainRuns(f) ==
    /\ frame[f].at = "restoring" /\ ~frame[f].stale /\ Continues
    /\ Runs(f)
    /\ IF history = "reply" THEN \E m \in NextQueued : Take(m, {})
       ELSE UNCHANGED <<steers, followUps, context>>
    /\ UNCHANGED <<arriving, asides, denied, sent, counters, aborts, history, interrupt, prompts>>

DrainSkips_StillCounted_Fault(f) ==
    /\ frame[f].at = "restoring" /\ (frame[f].stale \/ ~Continues)
    /\ frame' = [frame EXCEPT ![f] = Ended]
    /\ UNCHANGED <<begun, inFlight, runner, loop, queues, counters, aborts, history, interrupt, prompts>>
DrainSkips(f) ==
    /\ frame[f].at = "restoring" /\ (frame[f].stale \/ ~Continues)
    /\ EndInFlight(f, followUps)
    /\ UNCHANGED <<arriving, steers, sent, aborts, history, interrupt, prompts>>

\* The finally of the wake and of the drain.
Restored_Lost_Fault(f) == followUps
Restored(f) == frame[f].parked \cup followUps

Settles(f) ==
    /\ frame[f].at = "settling"
    /\ EndInFlight(f, Restored(f))
    /\ UNCHANGED <<arriving, steers, sent, aborts, history, interrupt, prompts>>

-----------------------------------------------------------------------------
(* The Agent's loop.                                                       *)

\* A boundary: it takes a steer and the asides, and at the end a follow-up.
Poll ==
    /\ runner # 0 /\ loop = "poll"
    /\ \/ \E m \in NextQueued : Take(m, asides)
       \/ /\ steers = {} /\ asides # {}
          /\ context' = context \cup asides
          /\ UNCHANGED <<steers, followUps>>
    /\ asides' = {}
    /\ UNCHANGED <<arriving, denied, sent, turns, counters, aborts, history, interrupt, prompts>>

\* Its last poll finds nothing, or a failure stops it before one.
StopsPolling ==
    /\ runner # 0 /\ loop = "poll"
    /\ loop' = "tail"
    /\ UNCHANGED <<queues, frame, begun, inFlight, runner, counters, aborts, history,
                   interrupt, prompts>>

\* abort() may be waiting for this run.
RunEnds ==
    /\ runner # 0 /\ loop = "tail"
    /\ runner' = 0
    /\ MovesTo(runner, IF frame[runner].kind = "prompt" THEN "recovering" ELSE "settling")
    /\ history' = "reply"
    /\ UNCHANGED <<queues, loop, counters, aborts, interrupt, prompts>>

-----------------------------------------------------------------------------
(* abort().                                                                *)

AbortBegins(a) ==
    /\ abort[a] = None
    /\ abort' = [abort EXCEPT ![a] = "tasks"]
    /\ awaits' = [awaits EXCEPT ![a] = {f \in Frames : frame[f].kind = "drain" /\ Live(f)}]
    /\ \/ suppressed' = TRUE /\ held' = followUps \cup Parked
       \/ UNCHANGED interrupt
    /\ aborting' = TRUE
    /\ frame' = [f \in Frames |-> IF Live(f) THEN [frame[f] EXCEPT !.stale = TRUE] ELSE frame[f]]
    /\ loop' = "tail"
    /\ UNCHANGED <<queues, begun, inFlight, runner, counters, history, prompts>>

AbortAwaitsRun(a) ==
    /\ abort[a] = "tasks" /\ \A f \in awaits[a] : ~Live(f)
    /\ abort' = [abort EXCEPT ![a] = "idle"]
    /\ awaits' = [awaits EXCEPT ![a] = {runner} \ {0}]
    /\ UNCHANGED <<queues, turns, counters, aborting, history, interrupt, prompts>>

\* #resetInFlight, then the finally block; nothing runs in between.
AbortEnds(a) ==
    /\ abort[a] = "idle" /\ runner \notin awaits[a]
    /\ abort' = [abort EXCEPT ![a] = "done"]
    /\ awaits' = [awaits EXCEPT ![a] = {}]
    /\ aborting' = FALSE
    /\ ResumeStranded(FALSE, frame, 0, followUps)
    /\ UNCHANGED <<arriving, steers, sent, history, interrupt, prompts>>

-----------------------------------------------------------------------------
FrameSteps(f) ==
    \/ BeginPrompt(f) \/ ReachesAgent(f) \/ Retries(f) \/ Recovers(f)
    \/ DrainRuns(f) \/ DrainSkips(f) \/ Settles(f)
AbortSteps(a) == AbortAwaitsRun(a) \/ AbortEnds(a)

Next ==
    \/ Deliver \/ UserSends \/ Prompt
    \/ \E m \in Msgs : QueueUserMessage(m)
    \/ Poll \/ StopsPolling \/ RunEnds
    \/ \E f \in Frames : FrameSteps(f) \/ SetupEnds(f) \/ GivesUp(f)
    \/ \E a \in Aborts : AbortBegins(a) \/ AbortSteps(a)

\* Every await ends: of the setup, of the model and of the retry pause.  Nothing is
\* asked of the user, of the peers or of failures.
Fairness ==
    /\ WF_vars(StopsPolling) /\ WF_vars(RunEnds)
    /\ \A m \in Msgs : WF_vars(QueueUserMessage(m))
    /\ \A f \in Frames : WF_vars(FrameSteps(f)) /\ WF_vars(SetupEnds(f))
    /\ \A a \in Aborts : WF_vars(AbortSteps(a))

Spec == Init /\ [][Next]_vars /\ Fairness

-----------------------------------------------------------------------------
(* Properties.                                                             *)

Places == <<arriving, steers, followUps, asides, Parked, context, denied>>

\* A message is in one place: it is neither lost nor given to the model twice, whatever
\* the wakes park and put back and whatever an abort interrupts.  Only a wake that the
\* scheduler denies drops its messages.
OnePlace ==
    /\ TypeOK
    /\ UNION {Places[i] : i \in DOMAIN Places} = 1 .. sent
    /\ \A i, j \in DOMAIN Places : i # j => Places[i] \cap Places[j] = {}

\* #promptInFlightCount never exceeds the turns that are under way, however an abort resets
\* it under prompts that are still being set up: the session does not stay busy for good.
BusyOnlyWhileLive ==
    inFlight <= Cardinality({f \in Frames : Live(f) /\ frame[f].at # "checked"})

\* A message that lands where nobody polls is not left there: an aside or a steer ends in
\* the context, or with a denied wake, or is still queued when the scheduler refuses the
\* drain for it; a follow-up too, unless a user interrupt stands or the transcript ends in
\* a record.
NotStranded ==
    \A m \in Msgs :
        /\ m \in asides \cup steers ~> m \in context \cup denied \cup refused
        /\ m \in followUps \cup Parked ~>
              m \in context \cup refused \/ suppressed \/ history # "reply"

\* While a user interrupt stands, a wake does not take the follow-ups the user left
\* queued: "park the follow-up queue across the wake and restore it after".
InterruptHolds ==
    [][\A m \in followUps \cap held :
          m \in context' =>
              frame[runner].kind # "wake" \/ frame[runner].fromSteer]_vars

=============================================================================
