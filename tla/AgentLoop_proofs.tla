---------------------------- MODULE AgentLoop_proofs ----------------------------
(***************************************************************************)
(* Proofs about AgentLoop for any number of messages, runs, turns, tool    *)
(* calls and soft requirements and for every mode of the queues: what a    *)
(* model call meets, what becomes of a directive, where a message is, and  *)
(* what a run leaves behind when it stops.                                 *)
(***************************************************************************)
EXTENDS AgentLoop, TLAPS, FiniteSetTheorems, SequenceTheorems

-----------------------------------------------------------------------------
(* The invariant of the loop's control.                                    *)

FlagsOK ==
    /\ at \in Points
    /\ hasMore \in BOOLEAN /\ skipPoll \in BOOLEAN /\ resolved \in BOOLEAN
    /\ softTool \in BOOLEAN /\ forced \in BOOLEAN /\ aborted \in BOOLEAN /\ expired \in BOOLEAN
    /\ lastAssistant \in BOOLEAN /\ calledAborted \in BOOLEAN /\ gaveUp \in BOOLEAN

LimitsKept ==
    /\ paused \in 0 .. MaxPaused /\ softEsc \in 0 .. MaxSoft /\ softId \in 0 .. SoftIds
    /\ harmonyRetry \in 0 .. MaxHarmony /\ harmonyResume \in 0 .. MaxHarmony
    /\ runs \in 0 .. MaxRuns /\ toolTurns \in 0 .. MaxToolTurns

\* Calls without a result are those of the batch under way, until a run gives up.
CallsPaired ==
    /\ calls \in 0 .. MaxCalls /\ owed \in Nat /\ calls <= owed
    /\ at # "tools" => calls = 0
    /\ ~gaveUp => owed = calls

\* A call on an aborted signal is under way, or was the run's last.
AbortCounted ==
    /\ abortedCalls = IF calledAborted THEN 1 ELSE 0
    /\ calledAborted => at \in {"model", "idle"}

\* The directive of a logical turn is fetched once and then resolved; a forced tool choice
\* outlives the boundary, because the loop has more to do.
DirectiveKept ==
    /\ fetched \in 0 .. 1
    /\ ~resolved => fetched = 0
    /\ forced => hasMore /\ at \notin {"yield", "lateAsides", "followUps"}

ControlInv == FlagsOK /\ LimitsKept /\ CallsPaired /\ AbortCounted /\ DirectiveKept

LEMMA Limits ==
    /\ MaxPaused \in Nat /\ MaxSoft \in Nat /\ MaxHarmony \in Nat /\ SoftIds \in Nat
    /\ MaxCalls \in Nat /\ MaxToolTurns \in Nat /\ MaxRuns \in Nat
  BY LimitsAssumption

LEMMA ControlInit == Init => ControlInv
<1> SUFFICES ASSUME Init PROVE ControlInv
  OBVIOUS
<1>1. FlagsOK
  BY DEF Init, FlagsOK, Points
<1>4. LimitsKept
  BY Limits DEF Init, LimitsKept
<1>2. CallsPaired
  BY Limits DEF Init, CallsPaired
<1>3. AbortCounted /\ DirectiveKept
  BY DEF Init, AbortCounted, DirectiveKept
<1> QED  BY <1>1, <1>2, <1>3, <1>4 DEF ControlInv


\* What an accepted answer resets and counts; no call was under way before it.
LEMMA AnswerAccepted ==
  ASSUME ControlInv, NEW k \in 0 .. MaxCalls, Accept(k)
  PROVE  /\ at = "model" /\ ~calledAborted /\ abortedCalls = 0 /\ calls = 0
         /\ toolTurns' \in 0 .. MaxToolTurns
         /\ harmonyRetry' \in 0 .. MaxHarmony /\ harmonyResume' \in 0 .. MaxHarmony
         /\ resolved' = FALSE /\ fetched' = 0
<1>1. at = "model" /\ ~calledAborted /\ resolved' = FALSE /\ fetched' = 0 /\ harmonyRetry' = 0
  BY DEF Accept
<1>2. abortedCalls = 0 /\ calls = 0
  BY <1>1 DEF ControlInv, AbortCounted, CallsPaired
<1>3. toolTurns' \in 0 .. MaxToolTurns
  BY Limits DEF Accept, ControlInv, LimitsKept
<1>4. harmonyResume' \in 0 .. MaxHarmony
  BY Limits DEF Accept, ControlInv, LimitsKept
<1> QED  BY <1>1, <1>2, <1>3, <1>4, Limits

\* One step of the loop.
LEMMA ControlLoopStep == ControlInv /\ LoopStep => ControlInv'
<1> SUFFICES ASSUME ControlInv, LoopStep PROVE ControlInv'
  OBVIOUS
<1> USE Limits DEF ControlInv, FlagsOK, LimitsKept, CallsPaired, AbortCounted, DirectiveKept, Points,
      queues, directive, harmony, transcript, control, signals, bounds, aborts
<1>1. CASE EndsAtDeadline
  BY <1>1 DEF EndsAtDeadline, EndRun
<1>2. CASE InitialPoll
  BY <1>2 DEF InitialPoll, PollSteering
<1>3. CASE BeginTurn
  BY <1>3 DEF BeginTurn
<1>4. CASE BeforeYield
  BY <1>4 DEF BeforeYield
<1>5. CASE Inject
  BY <1>5 DEF Inject
<1>6. CASE ReuseDirective
  BY <1>6 DEF ReuseDirective, CallModel
<1>7. CASE SoftRequirement
  BY <1>7 DEF SoftRequirement, CallModel
<1>8. CASE NoRequirement
  <2>3. FlagsOK'
    BY <1>8 DEF NoRequirement, CallModel
  <2>4. LimitsKept'
    BY <1>8 DEF NoRequirement, CallModel
  <2>5. CallsPaired'
    BY <1>8 DEF NoRequirement, CallModel
  <2>6. AbortCounted' /\ DirectiveKept'
    BY <1>8 DEF NoRequirement, CallModel
  <2> QED  BY <2>3, <2>4, <2>5, <2>6
<1>9. CASE ModelThrows
  BY <1>9 DEF ModelThrows, Fail, EndRun
<1>10. CASE ModelStopsRun
  BY <1>10 DEF ModelStopsRun, EndRun
<1>11. CASE HarmonyRetries
  BY <1>11 DEF HarmonyRetries
<1>12. CASE HarmonyGivesUp
  BY <1>12 DEF HarmonyGivesUp, Fail, EndRun
<1>13. CASE Escalate
  <2>1. PICK k \in 0 .. MaxCalls : Accept(k) /\ lastAssistant' = (k = 0) /\ paused' = IF k > 0 THEN 0 ELSE paused
    BY <1>13 DEF Escalate
  <2>2. /\ at = "model" /\ ~calledAborted /\ abortedCalls = 0 /\ calls = 0
        /\ toolTurns' \in 0 .. MaxToolTurns
        /\ harmonyRetry' \in 0 .. MaxHarmony /\ harmonyResume' \in 0 .. MaxHarmony
        /\ resolved' = FALSE /\ fetched' = 0
    <3>1. k \in 0 .. MaxCalls
      BY <2>1
    <3> HIDE DEF ControlInv
    <3> QED  BY <2>1, <3>1, AnswerAccepted
  <2>3. FlagsOK'
    BY <1>13, <2>1, <2>2 DEF Escalate, MayDetour
  <2>4. LimitsKept'
    BY <1>13, <2>1, <2>2 DEF Escalate, MayDetour
  <2>5. CallsPaired'
    BY <1>13, <2>1, <2>2 DEF Escalate, MayDetour
  <2>6. AbortCounted' /\ DirectiveKept'
    BY <1>13, <2>1, <2>2 DEF Escalate, MayDetour
  <2> QED  BY <2>3, <2>4, <2>5, <2>6
<1>14. CASE GiveUpSoft
  <2>1. PICK k \in 0 .. MaxCalls : Accept(k) /\ owed' = owed + k
    BY <1>14 DEF GiveUpSoft
  <2>2. /\ at = "model" /\ ~calledAborted /\ abortedCalls = 0 /\ calls = 0
        /\ toolTurns' \in 0 .. MaxToolTurns
        /\ harmonyRetry' \in 0 .. MaxHarmony /\ harmonyResume' \in 0 .. MaxHarmony
        /\ resolved' = FALSE /\ fetched' = 0
    <3>1. k \in 0 .. MaxCalls
      BY <2>1
    <3> HIDE DEF ControlInv
    <3> QED  BY <2>1, <3>1, AnswerAccepted
  <2>3. FlagsOK'
    BY <1>14, <2>1, <2>2 DEF GiveUpSoft, Fail, EndRun
  <2>4. LimitsKept'
    BY <1>14, <2>1, <2>2 DEF GiveUpSoft, Fail, EndRun
  <2>5. CallsPaired'
    BY <1>14, <2>1, <2>2 DEF GiveUpSoft, Fail, EndRun
  <2>6. AbortCounted' /\ DirectiveKept'
    BY <1>14, <2>1, <2>2 DEF GiveUpSoft, Fail, EndRun
  <2> QED  BY <2>3, <2>4, <2>5, <2>6
<1>15. CASE RunTools
  <2>1. PICK k \in 1 .. MaxCalls : Accept(k) /\ owed' = owed + k /\ calls' = k
    BY <1>15 DEF RunTools
  <2>2. /\ at = "model" /\ ~calledAborted /\ abortedCalls = 0 /\ calls = 0
        /\ toolTurns' \in 0 .. MaxToolTurns
        /\ harmonyRetry' \in 0 .. MaxHarmony /\ harmonyResume' \in 0 .. MaxHarmony
        /\ resolved' = FALSE /\ fetched' = 0
    <3>1. k \in 0 .. MaxCalls
      BY <2>1
    <3> HIDE DEF ControlInv
    <3> QED  BY <2>1, <3>1, AnswerAccepted
  <2>3. FlagsOK'
    BY <1>15, <2>1, <2>2 DEF RunTools
  <2>4. LimitsKept'
    BY <1>15, <2>1, <2>2 DEF RunTools
  <2>5. CallsPaired'
    BY <1>15, <2>1, <2>2 DEF RunTools
  <2>6. AbortCounted' /\ DirectiveKept'
    BY <1>15, <2>1, <2>2 DEF RunTools
  <2> QED  BY <2>3, <2>4, <2>5, <2>6
<1>16. CASE ToolsReturn
  <2>3. FlagsOK'
    BY <1>16 DEF ToolsReturn
  <2>4. LimitsKept'
    BY <1>16 DEF ToolsReturn
  <2>5. CallsPaired'
    BY <1>16 DEF ToolsReturn
  <2>6. AbortCounted' /\ DirectiveKept'
    BY <1>16 DEF ToolsReturn
  <2> QED  BY <2>3, <2>4, <2>5, <2>6
<1>17. CASE PairUnrun
  <2>1. PICK k \in 1 .. MaxCalls : Accept(k)
    BY <1>17 DEF PairUnrun
  <2>2. /\ at = "model" /\ ~calledAborted /\ abortedCalls = 0 /\ calls = 0
        /\ toolTurns' \in 0 .. MaxToolTurns
        /\ harmonyRetry' \in 0 .. MaxHarmony /\ harmonyResume' \in 0 .. MaxHarmony
        /\ resolved' = FALSE /\ fetched' = 0
    <3>1. k \in 0 .. MaxCalls
      BY <2>1
    <3> HIDE DEF ControlInv
    <3> QED  BY <2>1, <3>1, AnswerAccepted
  <2>3. FlagsOK'
    BY <1>17, <2>1, <2>2 DEF PairUnrun
  <2>4. LimitsKept'
    BY <1>17, <2>1, <2>2 DEF PairUnrun
  <2>5. CallsPaired'
    BY <1>17, <2>1, <2>2 DEF PairUnrun
  <2>6. AbortCounted' /\ DirectiveKept'
    BY <1>17, <2>1, <2>2 DEF PairUnrun
  <2> QED  BY <2>3, <2>4, <2>5, <2>6
<1>18. CASE NoCalls
  <2>1. PICK k \in 0 .. MaxCalls : k = 0 /\ Accept(k)
    BY <1>18 DEF NoCalls
  <2>2. /\ at = "model" /\ ~calledAborted /\ abortedCalls = 0 /\ calls = 0
        /\ toolTurns' \in 0 .. MaxToolTurns
        /\ harmonyRetry' \in 0 .. MaxHarmony /\ harmonyResume' \in 0 .. MaxHarmony
        /\ resolved' = FALSE /\ fetched' = 0
    <3>1. k \in 0 .. MaxCalls
      BY <2>1
    <3> HIDE DEF ControlInv
    <3> QED  BY <2>1, <3>1, AnswerAccepted
  <2>3. FlagsOK'
    BY <1>18, <2>1, <2>2 DEF NoCalls, SampleAgain
  <2>4. LimitsKept'
    BY <1>18, <2>1, <2>2 DEF NoCalls, SampleAgain
  <2>5. CallsPaired'
    BY <1>18, <2>1, <2>2 DEF NoCalls, SampleAgain
  <2>6. AbortCounted' /\ DirectiveKept'
    BY <1>18, <2>1, <2>2 DEF NoCalls, SampleAgain
  <2> QED  BY <2>3, <2>4, <2>5, <2>6
<1>19. CASE HookThrows
  BY <1>19 DEF HookThrows, Fail, EndRun
<1>20. CASE TurnEnded
  BY <1>20 DEF TurnEnded
<1>21. CASE BoundaryPoll
  BY <1>21 DEF BoundaryPoll, PollSteering
<1>22. CASE MidWorkAsides
  BY <1>22 DEF MidWorkAsides, PollAsides
<1>23. CASE LatePoll
  BY <1>23 DEF LatePoll, PollSteering
<1>24. CASE LateAsides
  BY <1>24 DEF LateAsides, PollAsides
<1>25. CASE DrainFollowUps
  BY <1>25 DEF DrainFollowUps, PollFollowUps, EndRun
<1> QED
  BY <1>1, <1>2, <1>3, <1>4, <1>5, <1>6, <1>7, <1>8, <1>9, <1>10, <1>11, <1>12, <1>13, <1>14, <1>15, <1>16, <1>17, <1>18, <1>19, <1>20, <1>21, <1>22, <1>23, <1>24, <1>25 DEF LoopStep

\* What starts a run, and what the user and the clock do beside it.
LEMMA ControlStep == ControlInv /\ [Next]_vars => ControlInv'
<1> SUFFICES ASSUME ControlInv, [Next]_vars PROVE ControlInv'
  OBVIOUS
<1>1. CASE LoopStep
  BY <1>1, ControlLoopStep
<1>2. CASE StartStep
  <2>1. StartRun(TRUE) \/ StartRun(FALSE)
    BY <1>2 DEF StartStep, Prompt, ContinueWithSteering, ContinueWithFollowUp, ContinueAsIs
  <2>2. lastAssistant' \in BOOLEAN
    BY <1>2 DEF StartStep, Prompt, ContinueWithSteering, ContinueWithFollowUp, ContinueAsIs,
         ControlInv, FlagsOK
  <2>3. at = "idle"
    BY <1>2 DEF StartStep, Prompt, ContinueWithSteering, ContinueWithFollowUp, ContinueAsIs
  <2>4. FlagsOK'
    BY <2>1, <2>2 DEF StartRun, ControlInv, FlagsOK, Points
  <2>5. LimitsKept'
    BY <2>1, Limits DEF StartRun, ControlInv, LimitsKept
  <2>6. CallsPaired'
    BY <2>1, <2>3 DEF StartRun, ControlInv, CallsPaired
  <2>7. AbortCounted' /\ DirectiveKept'
    BY <2>1 DEF StartRun, AbortCounted, DirectiveKept
  <2> QED  BY <2>4, <2>5, <2>6, <2>7 DEF ControlInv
<1> USE DEF ControlInv, FlagsOK, LimitsKept, CallsPaired, AbortCounted, DirectiveKept,
      queues, directive, harmony, transcript, control, signals, bounds, aborts
<1>3. CASE Steer \/ FollowUp \/ Aside
  BY <1>3, SMTT(60) DEF Steer, FollowUp, Aside
<1>4. CASE PopLastSteer \/ PopLastFollowUp
  BY <1>4, SMTT(60) DEF PopLastSteer, PopLastFollowUp
<1>5. CASE Abort \/ DeadlinePasses \/ DeadlineTimer
  <2>1. CASE Abort
    BY <2>1 DEF Abort
  <2>2. CASE DeadlinePasses
    BY <2>2 DEF DeadlinePasses
  <2>3. CASE DeadlineTimer
    BY <2>3 DEF DeadlineTimer
  <2> QED  BY <1>5, <2>1, <2>2, <2>3
<1>6. CASE UNCHANGED vars
  BY <1>6 DEF vars
<1> QED
  BY <1>1, <1>2, <1>3, <1>4, <1>5, <1>6 DEF Next, UserStep

LEMMA ControlAlways == Spec => []ControlInv
  BY ControlInit, ControlStep, PTL DEF Spec

\* No call of the model meets a tool call without its result (while no run has given up on
\* a soft requirement), and an aborted run makes one at most: see ModelCallsSound.
THEOREM ModelCallsSoundAlways == Spec => []ModelCallsSound
<1>1. ControlInv => ModelCallsSound
  BY DEF ControlInv, CallsPaired, AbortCounted, ModelCallsSound, PairedAtModelCall,
       AbortStopsModelCalls
<1> QED  BY <1>1, ControlAlways, PTL

\* A directive is fetched once in a logical turn, however often a Harmony leak has it sampled
\* again, and no run comes to its end while a tool choice is forced: see DirectivesHonoured.
THEOREM DirectivesHonouredAlways == Spec => []DirectivesHonoured
<1>1. ControlInv => DirectivesHonoured
  BY DEF ControlInv, DirectiveKept, DirectivesHonoured, DirectiveOncePerTurn, NoYieldWhileForced
<1> QED  BY <1>1, ControlAlways, PTL

\* Once a run is aborted no step of its loop touches the queues: they are left to the next
\* run (agent-loop.ts polls only behind a check of the signal).
THEOREM AbortLeavesQueuesAlways == Spec => AbortLeavesQueues
<1>1. ASSUME [Next]_vars, aborted, at # "idle", at' # at
      PROVE  UNCHANGED <<steeringQ, followUpQ, asideQ>>
  <2>1. ~StartStep
    BY <1>1 DEF StartStep, Prompt, ContinueWithSteering, ContinueWithFollowUp, ContinueAsIs
  <2>2. ~UserStep
    BY <1>1 DEF UserStep, Steer, FollowUp, Aside, PopLastSteer, PopLastFollowUp, Abort, control
  <2>3. ~(DeadlinePasses \/ DeadlineTimer \/ UNCHANGED vars)
    BY <1>1 DEF DeadlinePasses, DeadlineTimer, control, vars
  <2>4. LoopStep
    BY <1>1, <2>1, <2>2, <2>3 DEF Next
  <2> USE DEF queues
  <2>5. CASE InitialPoll \/ BoundaryPoll \/ LatePoll
    BY <1>1, <2>5 DEF InitialPoll, BoundaryPoll, LatePoll, PollSteering
  <2>6. CASE MidWorkAsides \/ LateAsides
    BY <1>1, <2>6 DEF MidWorkAsides, LateAsides, PollAsides
  <2>7. CASE DrainFollowUps
    BY <1>1, <2>7 DEF DrainFollowUps, PollFollowUps
  <2>8. CASE EndsAtDeadline \/ BeginTurn \/ BeforeYield \/ Inject \/ HookThrows \/ TurnEnded
    BY <2>8 DEF EndsAtDeadline, BeginTurn, BeforeYield, Inject, HookThrows, TurnEnded
  <2>9. CASE ReuseDirective \/ SoftRequirement \/ NoRequirement
    BY <2>9 DEF ReuseDirective, SoftRequirement, NoRequirement
  <2>10. CASE ModelThrows \/ ModelStopsRun \/ HarmonyRetries \/ HarmonyGivesUp
    BY <2>10 DEF ModelThrows, ModelStopsRun, HarmonyRetries, HarmonyGivesUp
  <2>11. CASE Escalate \/ GiveUpSoft \/ RunTools \/ ToolsReturn \/ PairUnrun \/ NoCalls
    BY <2>11 DEF Escalate, GiveUpSoft, RunTools, ToolsReturn, PairUnrun, NoCalls
  <2> QED
    BY <2>4, <2>5, <2>6, <2>7, <2>8, <2>9, <2>10, <2>11 DEF LoopStep
<1>2. [Next]_vars => (aborted /\ at # "idle" /\ at' # at => UNCHANGED <<steeringQ, followUpQ, asideQ>>)
  BY <1>1
<1> QED  BY <1>2, PTL DEF Spec, AbortLeavesQueues

-----------------------------------------------------------------------------
(* The invariant of the messages.                                          *)

SeqsOK ==
    /\ origin \in Seq({"steer", "followUp", "aside", "prompt"})
    /\ steeringQ \in Seq(Msgs) /\ followUpQ \in Seq(Msgs) /\ asideQ \in Seq(Msgs)
    /\ pending \in Seq(Msgs) /\ delivered \in Seq(Msgs)
    /\ withdrawn \subseteq Msgs /\ late \subseteq Msgs

\* The context and what is about to enter it: what leaves a queue joins its end.
Line == delivered \o pending

\* The messages of one kind in q, of which o tells the kinds, are in the order they were sent.
Rising(q, o) == \A i, j \in 1 .. Len(q) : i < j /\ o[q[i]] = o[q[j]] => q[i] < q[j]

\* What is in p was sent before what is in q, as far as it is of one kind.
Before(p, q, o) == \A x \in Elems(p), y \in Elems(q) : o[x] = o[y] => x < y

\* A queue holds messages of its kind, sent after all of that kind that have left it.
Queued(q, kind, line, o) ==
    /\ \A x \in Elems(q) : o[x] = kind
    /\ Rising(q, o)
    /\ Before(line, q, o)

OrderOK ==
    /\ Rising(Line, origin)
    /\ Queued(steeringQ, "steer", Line, origin)
    /\ Queued(followUpQ, "followUp", Line, origin)
    /\ Queued(asideQ, "aside", Line, origin)

\* Messages wait to be injected only between a poll and the next turn's start.
PendingPoints ==
    at \notin {"turn", "inject", "asides", "lateAsides", "followUps"} => pending = <<>>

Waiting == Elems(steeringQ) \cup Elems(followUpQ) \cup Elems(asideQ) \cup Elems(Line)

PlaceOK ==
    /\ Waiting \cup withdrawn = Msgs
    /\ Waiting \cap withdrawn = {}
    /\ Len(steeringQ) + Len(followUpQ) + Len(asideQ) + Len(Line) + Cardinality(withdrawn) = Len(origin)

-----------------------------------------------------------------------------
(* The invariant of a run that comes to its end.                           *)

\* The skipped poll of a continue() is the first one; then a late steer is either about
\* to be delivered or known to be late.
SteersSeen ==
    /\ at \notin {"idle", "start"} => ~skipPoll \/ aborted
    /\ at \in {"lateAsides", "followUps"} /\ ~aborted /\ pending = <<>> => Elems(steeringQ) \subseteq late

\* A loop with nothing more to do has just had an answer, except past its deadline.
Answered ==
    /\ at = "turn" => hasMore \/ lastAssistant
    /\ at \in {"yield", "lateAsides", "followUps"} => lastAssistant
    /\ at \in {"turnEnd", "boundary"} => hasMore \/ lastAssistant \/ expired
    /\ at \in {"start", "asides", "tools"} => hasMore

-----------------------------------------------------------------------------
(* Sequences of messages.                                                  *)

LEMMA ElemsOfConcat ==
  ASSUME NEW S, NEW p \in Seq(S), NEW q \in Seq(S)
  PROVE  p \o q \in Seq(S) /\ Len(p \o q) = Len(p) + Len(q) /\ Elems(p \o q) = Elems(p) \cup Elems(q)
<1>1. p \o q \in Seq(S) /\ Len(p \o q) = Len(p) + Len(q)
  OBVIOUS
<1>2. \A i \in 1 .. Len(p) : (p \o q)[i] = p[i]
  OBVIOUS
<1>3. \A i \in 1 .. Len(q) : (p \o q)[Len(p) + i] = q[i]
  OBVIOUS
<1>4. \A i \in 1 .. Len(p \o q) : i \in 1 .. Len(p) \/ \E j \in 1 .. Len(q) : i = Len(p) + j
  <2> TAKE i \in 1 .. Len(p \o q)
  <2>1. CASE i > Len(p)
    <3>1. i - Len(p) \in 1 .. Len(q) /\ i = Len(p) + (i - Len(p))
      BY <2>1, <1>1
    <3> QED  BY <3>1
  <2> QED  BY <2>1, <1>1
<1>5. \A i \in 1 .. Len(q) : Len(p) + i \in 1 .. Len(p \o q)
  BY <1>1
<1>6. \A i \in 1 .. Len(p) : i \in 1 .. Len(p \o q)
  BY <1>1
<1>7. Elems(p \o q) \subseteq Elems(p) \cup Elems(q)
  <2> SUFFICES ASSUME NEW i \in 1 .. Len(p \o q) PROVE (p \o q)[i] \in Elems(p) \cup Elems(q)
    BY DEF Elems
  <2>1. CASE i \in 1 .. Len(p)
    BY <2>1, <1>2 DEF Elems
  <2>2. ASSUME NEW j \in 1 .. Len(q), i = Len(p) + j PROVE (p \o q)[i] \in Elems(q)
    BY <2>2, <1>3 DEF Elems
  <2> QED  BY <2>1, <2>2, <1>4
<1>8. Elems(p) \subseteq Elems(p \o q) /\ Elems(q) \subseteq Elems(p \o q)
  BY <1>2, <1>3, <1>5, <1>6, Zenon DEF Elems
<1> QED  BY <1>1, <1>7, <1>8

LEMMA ElemsOfAppend ==
  ASSUME NEW S, NEW q \in Seq(S), NEW x \in S
  PROVE  /\ Append(q, x) \in Seq(S) /\ Len(Append(q, x)) = Len(q) + 1
         /\ Elems(Append(q, x)) = Elems(q) \cup {x}
<1>1. Append(q, x) = q \o <<x>> /\ <<x>> \in Seq(S) /\ Len(<<x>>) = 1
  OBVIOUS
<1>2. Elems(<<x>>) = {x}
  BY DEF Elems
<1>3. /\ q \o <<x>> \in Seq(S) /\ Len(q \o <<x>>) = Len(q) + Len(<<x>>)
      /\ Elems(q \o <<x>>) = Elems(q) \cup Elems(<<x>>)
  BY <1>1, ElemsOfConcat, Zenon
<1> QED  BY <1>1, <1>2, <1>3

LEMMA ElemsTyped ==
  ASSUME NEW S, NEW q \in Seq(S)
  PROVE  Elems(q) \subseteq S
  BY DEF Elems

LEMMA RisingConcat ==
  ASSUME NEW o, NEW p \in Seq(Nat), NEW q \in Seq(Nat)
  PROVE  Rising(p \o q, o) <=> Rising(p, o) /\ Rising(q, o) /\ Before(p, q, o)
<1> DEFINE r == p \o q
<1>1. r \in Seq(Nat) /\ Len(r) = Len(p) + Len(q)
  OBVIOUS
<1>2. \A i \in 1 .. Len(p) : r[i] = p[i] /\ i \in 1 .. Len(r)
  OBVIOUS
<1>3. \A i \in 1 .. Len(q) : r[Len(p) + i] = q[i] /\ Len(p) + i \in 1 .. Len(r)
  OBVIOUS
<1> HIDE DEF r
<1>4. ASSUME Rising(r, o) PROVE Rising(p, o)
  BY <1>4, <1>2 DEF Rising
<1>5. ASSUME Rising(r, o) PROVE Rising(q, o)
  <2> SUFFICES ASSUME NEW i \in 1 .. Len(q), NEW j \in 1 .. Len(q), i < j, o[q[i]] = o[q[j]]
               PROVE  q[i] < q[j]
    BY DEF Rising
  <2>1. Len(p) + i < Len(p) + j
    OBVIOUS
  <2> QED  BY <1>5, <1>3, <2>1 DEF Rising
<1>6. ASSUME Rising(r, o) PROVE Before(p, q, o)
  <2> SUFFICES ASSUME NEW i \in 1 .. Len(p), NEW j \in 1 .. Len(q), o[p[i]] = o[q[j]]
               PROVE  p[i] < q[j]
    BY DEF Before, Elems
  <2>1. i < Len(p) + j
    OBVIOUS
  <2> QED  BY <1>6, <1>2, <1>3, <2>1 DEF Rising
<1>7. ASSUME Rising(p, o), Rising(q, o), Before(p, q, o) PROVE Rising(r, o)
  <2> SUFFICES ASSUME NEW i \in 1 .. Len(r), NEW j \in 1 .. Len(r), i < j, o[r[i]] = o[r[j]]
               PROVE  r[i] < r[j]
    BY DEF Rising
  <2>1. CASE j \in 1 .. Len(p)
    <3>1. i \in 1 .. Len(p)
      BY <2>1
    <3> QED  BY <1>7, <1>2, <2>1, <3>1 DEF Rising
  <2>2. CASE i \notin 1 .. Len(p)
    <3>1. PICK a \in 1 .. Len(q), b \in 1 .. Len(q) : i = Len(p) + a /\ j = Len(p) + b
      <4>1. /\ i - Len(p) \in 1 .. Len(q) /\ i = Len(p) + (i - Len(p))
            /\ j - Len(p) \in 1 .. Len(q) /\ j = Len(p) + (j - Len(p))
        BY <2>2, <1>1
      <4> QED  BY <4>1
    <3>2. a < b /\ r[i] = q[a] /\ r[j] = q[b]
      BY <3>1, <1>3
    <3> QED  BY <1>7, <3>2 DEF Rising
  <2>3. CASE i \in 1 .. Len(p) /\ j \notin 1 .. Len(p)
    <3>1. PICK b \in 1 .. Len(q) : j = Len(p) + b
      <4>1. j - Len(p) \in 1 .. Len(q) /\ j = Len(p) + (j - Len(p))
        BY <2>3, <1>1
      <4> QED  BY <4>1
    <3>2. r[i] = p[i] /\ r[j] = q[b] /\ p[i] \in Elems(p) /\ q[b] \in Elems(q)
      BY <2>3, <3>1, <1>2, <1>3 DEF Elems
    <3> QED  BY <1>7, <3>2 DEF Before
  <2> QED  BY <2>1, <2>2, <2>3
<1> QED  BY <1>4, <1>5, <1>6, <1>7 DEF r

-----------------------------------------------------------------------------
(* How messages move.                                                      *)

\* The front of q goes to the end of the line and leaves q2; the line becomes l2.
Flows(q, q2, l, l2) == \E a \in Seq(Msgs) : q2 \in Seq(Msgs) /\ q = a \o q2 /\ l2 = l \o a

LEMMA MsgsAreNumbers == SeqsOK => Msgs \subseteq Nat /\ Seq(Msgs) \subseteq Seq(Nat)
<1>1. SeqsOK => Msgs \subseteq Nat
  BY DEF SeqsOK, Msgs
<1>2. ASSUME NEW S, NEW T, S \subseteq T, NEW q \in Seq(S) PROVE q \in Seq(T)
  BY <1>2
<1> QED  BY <1>1, <1>2, Zenon

LEMMA LineTyped == SeqsOK => Line \in Seq(Msgs)
  BY DEF SeqsOK, Line

LEMMA FlowKept ==
  ASSUME SeqsOK, NEW q \in Seq(Msgs), NEW q2, NEW kind,
         Rising(Line, origin), Queued(q, kind, Line, origin), Flows(q, q2, Line, Line')
  PROVE  /\ q2 \in Seq(Msgs) /\ Line' \in Seq(Msgs)
         /\ Rising(Line', origin) /\ Queued(q2, kind, Line', origin)
         /\ Elems(Line') \cup Elems(q2) = Elems(Line) \cup Elems(q) /\ Elems(Line') \subseteq Elems(Line) \cup Elems(q)
         /\ Len(Line') + Len(q2) = Len(Line) + Len(q)
<1>0. Line \in Seq(Msgs)
  BY LineTyped
<1>1. PICK a \in Seq(Msgs) : q2 \in Seq(Msgs) /\ q = a \o q2 /\ Line' = Line \o a
  BY DEF Flows
<1>2. /\ Elems(q) = Elems(a) \cup Elems(q2) /\ Len(q) = Len(a) + Len(q2)
  BY <1>0, <1>1, ElemsOfConcat
<1>3. /\ Line' \in Seq(Msgs) /\ Elems(Line') = Elems(Line) \cup Elems(a) /\ Len(Line') = Len(Line) + Len(a)
  BY <1>0, <1>1, ElemsOfConcat
<1>4. a \in Seq(Nat) /\ q2 \in Seq(Nat) /\ Line \in Seq(Nat)
  BY <1>0, <1>1, MsgsAreNumbers
<1>5. Rising(a, origin) /\ Rising(q2, origin) /\ Before(a, q2, origin)
  <2>1. Rising(a \o q2, origin)
    BY <1>1 DEF Queued
  <2> QED  BY <2>1, <1>4, RisingConcat
<1>6. Before(Line, a, origin) /\ Before(Line, q2, origin)
  BY <1>2 DEF Queued, Before
<1>7. Rising(Line', origin)
  <2>1. Rising(Line \o a, origin)
    BY <1>4, <1>5, <1>6, RisingConcat
  <2> QED  BY <2>1, <1>1
<1>8. Before(Line', q2, origin)
  BY <1>3, <1>5, <1>6 DEF Before
<1>9. Queued(q2, kind, Line', origin)
  BY <1>2, <1>5, <1>8 DEF Queued
<1>10. Len(Line') + Len(q2) = Len(Line) + Len(q)
  BY <1>0, <1>1, <1>2, <1>3
<1> QED  BY <1>1, <1>2, <1>3, <1>7, <1>9, <1>10

\* The other queues are not disturbed: they hold messages of other kinds.
LEMMA OthersKept ==
  ASSUME NEW q, NEW l, NEW l2, NEW r, NEW kind, NEW other, kind # other,
         Queued(q, kind, l, origin), Queued(r, other, l, origin),
         Elems(l2) \subseteq Elems(l) \cup Elems(q)
  PROVE  Queued(r, other, l2, origin)
<1>1. Before(l2, r, origin)
  BY DEF Queued, Before
<1> QED  BY <1>1 DEF Queued

\* A new message has the highest number and tells nothing of the kinds of older ones.
LEMMA OlderKept ==
  ASSUME SeqsOK, NEW kind, NEW q \in Seq(Msgs), Rising(q, origin)
  PROVE  Rising(q, Append(origin, kind))
<1>1. \A i \in 1 .. Len(q) : q[i] \in 1 .. Len(origin)
  BY DEF Msgs
<1>2. \A x \in 1 .. Len(origin) : Append(origin, kind)[x] = origin[x]
  BY DEF SeqsOK
<1> QED  BY <1>1, <1>2 DEF Rising

LEMMA OlderQueued ==
  ASSUME SeqsOK, NEW kind, NEW other, NEW q \in Seq(Msgs), NEW l \in Seq(Msgs),
         Queued(q, other, l, origin)
  PROVE  Queued(q, other, l, Append(origin, kind))
<1>1. Elems(q) \subseteq 1 .. Len(origin) /\ Elems(l) \subseteq 1 .. Len(origin)
  BY ElemsTyped DEF Msgs
<1>2. \A x \in 1 .. Len(origin) : Append(origin, kind)[x] = origin[x]
  BY DEF SeqsOK
<1>3. Rising(q, Append(origin, kind))
  BY OlderKept DEF Queued
<1> QED  BY <1>1, <1>2, <1>3 DEF Queued, Before

LEMMA NewLast ==
  ASSUME SeqsOK, NEW kind \in {"steer", "followUp", "aside", "prompt"}, NEW q \in Seq(Msgs),
         Rising(q, origin)
  PROVE  Rising(Append(q, NewMsg), Append(origin, kind))
<1> DEFINE o2 == Append(origin, kind)
<1>1. NewMsg \in Nat /\ \A x \in Elems(q) : x < NewMsg
  BY ElemsTyped DEF NewMsg, Msgs, SeqsOK
<1>2. Rising(q, o2)
  BY OlderKept
<1>3. Append(q, NewMsg) = q \o <<NewMsg>> /\ <<NewMsg>> \in Seq(Nat) /\ q \in Seq(Nat)
  BY <1>1, MsgsAreNumbers
<1> HIDE DEF o2
<1>4. Rising(<<NewMsg>>, o2)
  BY DEF Rising
<1>5. Before(q, <<NewMsg>>, o2)
  BY <1>1 DEF Before, Elems
<1>6. Rising(q \o <<NewMsg>>, o2)
  BY <1>2, <1>3, <1>4, <1>5, RisingConcat
<1> QED  BY <1>3, <1>6 DEF o2

LEMMA NewQueued ==
  ASSUME SeqsOK, NEW kind \in {"steer", "followUp", "aside", "prompt"}, NEW q \in Seq(Msgs),
         NEW l \in Seq(Msgs), Queued(q, kind, l, origin)
  PROVE  Queued(Append(q, NewMsg), kind, l, Append(origin, kind))
<1>1. Queued(q, kind, l, Append(origin, kind))
  BY OlderQueued
<1>2. Rising(Append(q, NewMsg), Append(origin, kind))
  BY NewLast DEF Queued
<1>3. Append(origin, kind)[NewMsg] = kind
  BY DEF NewMsg, SeqsOK
<1>4. Elems(Append(q, NewMsg)) = Elems(q) \cup {NewMsg}
  <2>1. q \in Seq(Nat) /\ NewMsg \in Nat
    BY MsgsAreNumbers DEF NewMsg, SeqsOK
  <2> QED  BY <2>1, ElemsOfAppend
<1>5. \A x \in Elems(l) : x < NewMsg
  BY ElemsTyped DEF NewMsg, Msgs, SeqsOK
<1> QED  BY <1>1, <1>2, <1>3, <1>4, <1>5 DEF Queued, Before

LEMMA NothingFlows ==
  ASSUME SeqsOK, NEW q \in Seq(Msgs), NEW l \in Seq(Msgs)
  PROVE  Flows(q, q, l, l)
<1>1. <<>> \in Seq(Msgs) /\ q = <<>> \o q /\ l = l \o <<>>
  OBVIOUS
<1> QED  BY <1>1 DEF Flows

LEMMA DequeueFlows ==
  ASSUME NEW q \in Seq(Msgs), NEW all
  PROVE  LET d == Dequeue(q, all)
         IN  d[1] \in Seq(Msgs) /\ d[2] \in Seq(Msgs) /\ q = d[1] \o d[2]
<1>1. CASE all \/ q = <<>>
  <2>1. Dequeue(q, all) = <<q, <<>> >>
    BY <1>1 DEF Dequeue
  <2>2. q = q \o <<>> /\ <<>> \in Seq(Msgs)
    OBVIOUS
  <2> QED  BY <2>1, <2>2
<1>2. CASE ~(all \/ q = <<>>)
  <2>1. Dequeue(q, all) = << <<Head(q)>>, Tail(q)>>
    BY <1>2 DEF Dequeue
  <2>2. Head(q) \in Msgs /\ Tail(q) \in Seq(Msgs)
    BY <1>2
  <2>3. q = <<Head(q)>> \o Tail(q) /\ <<Head(q)>> \in Seq(Msgs)
    BY <1>2, <2>2
  <2> QED  BY <2>1, <2>2, <2>3
<1> QED  BY <1>1, <1>2

\* What is taken to the end of pendingMessages joins the end of the line.
LEMMA TakenToPending ==
  ASSUME SeqsOK, NEW q \in Seq(Msgs), NEW q2 \in Seq(Msgs), NEW a \in Seq(Msgs), q = a \o q2,
         pending' = pending \o a, delivered' = delivered
  PROVE  Flows(q, q2, Line, Line') /\ pending' \in Seq(Msgs)
<1>1. pending' \in Seq(Msgs)
  BY DEF SeqsOK
<1>2. Line' = Line \o a
  <2>1. pending \in Seq(Msgs) /\ delivered \in Seq(Msgs)
    BY DEF SeqsOK
  <2>2. \A S : \A t, u, v \in Seq(S) : (t \o u) \o v = t \o (u \o v)
    BY ONLY ConcatAssociative, Zenon
  <2>3. (delivered \o pending) \o a = delivered \o (pending \o a)
    BY <2>1, <2>2, SMTT(60)
  <2>4. Line' = delivered \o (pending \o a)
    BY DEF Line
  <2> QED  BY <2>3, <2>4 DEF Line
<1> QED  BY <1>1, <1>2 DEF Flows

LEMMA SteeringPolled ==
  ASSUME SeqsOK, PollSteering, UNCHANGED <<delivered, origin>>
  PROVE  /\ steeringQ' \in Seq(Msgs) /\ pending' \in Seq(Msgs)
         /\ Flows(steeringQ, steeringQ', Line, Line')
<1>1. CASE UNCHANGED <<steeringQ, pending>>
  <2>1. Line' = Line
    BY <1>1 DEF Line
  <2> QED  BY <1>1, <2>1, NothingFlows, LineTyped DEF SeqsOK
<1>2. CASE ~UNCHANGED <<steeringQ, pending>>
  <2>1. PICK d : /\ d = (IF skipPoll THEN <<<<>>, steeringQ>> ELSE Dequeue(steeringQ, SteeringAll))
                 /\ steeringQ' = d[2] /\ pending' = pending \o d[1]
    BY <1>2 DEF PollSteering
  <2>2. <<>> \in Seq(Msgs) /\ steeringQ = <<>> \o steeringQ /\ steeringQ \in Seq(Msgs)
    BY DEF SeqsOK
  <2>3. d[1] \in Seq(Msgs) /\ d[2] \in Seq(Msgs) /\ steeringQ = d[1] \o d[2]
    BY <2>1, <2>2, DequeueFlows
  <2> QED  BY <2>1, <2>2, <2>3, TakenToPending
<1> QED  BY <1>1, <1>2

LEMMA FollowUpsPolled ==
  ASSUME SeqsOK, PollFollowUps, UNCHANGED <<delivered, origin>>
  PROVE  /\ followUpQ' \in Seq(Msgs) /\ pending' \in Seq(Msgs)
         /\ Flows(followUpQ, followUpQ', Line, Line')
<1>1. CASE UNCHANGED <<followUpQ, pending>>
  <2>1. Line' = Line
    BY <1>1 DEF Line
  <2> QED  BY <1>1, <2>1, NothingFlows, LineTyped DEF SeqsOK
<1>2. CASE ~UNCHANGED <<followUpQ, pending>>
  <2>1. PICK d : /\ d = Dequeue(followUpQ, FollowUpAll)
                 /\ followUpQ' = d[2] /\ pending' = pending \o d[1]
    BY <1>2 DEF PollFollowUps
  <2>2. followUpQ \in Seq(Msgs)
    BY DEF SeqsOK
  <2>3. d[1] \in Seq(Msgs) /\ d[2] \in Seq(Msgs) /\ followUpQ = d[1] \o d[2]
    BY <2>1, <2>2, DequeueFlows
  <2> QED  BY <2>1, <2>2, <2>3, TakenToPending
<1> QED  BY <1>1, <1>2

AsidesDropped == asideQ' = <<>> /\ withdrawn' = withdrawn \cup Elems(asideQ) /\ Line' = Line

LEMMA AsidesPolled ==
  ASSUME SeqsOK, PollAsides, UNCHANGED <<delivered, origin>>
  PROVE  /\ asideQ' \in Seq(Msgs) /\ pending' \in Seq(Msgs)
         /\ (Flows(asideQ, asideQ', Line, Line') /\ withdrawn' = withdrawn) \/ AsidesDropped
<1>1. CASE UNCHANGED <<asideQ, pending, withdrawn>>
  <2>1. Line' = Line
    BY <1>1 DEF Line
  <2> QED  BY <1>1, <2>1, NothingFlows, LineTyped DEF SeqsOK
<1>2. CASE asideQ' = <<>> /\ pending' = pending \o asideQ /\ withdrawn' = withdrawn
  <2>1. asideQ \in Seq(Msgs) /\ <<>> \in Seq(Msgs) /\ asideQ = asideQ \o <<>>
    BY DEF SeqsOK
  <2> QED  BY <1>2, <2>1, TakenToPending
<1>3. CASE asideQ' = <<>> /\ withdrawn' = withdrawn \cup Elems(asideQ) /\ pending' = pending
  <2>1. Line' = Line
    BY <1>3 DEF Line
  <2> QED  BY <1>3, <2>1 DEF AsidesDropped, SeqsOK
<1> QED  BY <1>1, <1>2, <1>3 DEF PollAsides

LEMMA SeqsInit == Init => SeqsOK
  BY DEF Init, SeqsOK, Msgs

LEMMA AppendTyped ==
  ASSUME SeqsOK, NEW kind \in {"steer", "followUp", "aside", "prompt"}, origin' = Append(origin, kind)
  PROVE  /\ origin' \in Seq({"steer", "followUp", "aside", "prompt"})
         /\ NewMsg \in Msgs' /\ Msgs \subseteq Msgs' /\ Msgs' = Msgs \cup {NewMsg} /\ NewMsg \notin Msgs
         /\ \A q \in Seq(Msgs) : q \in Seq(Msgs') /\ Append(q, NewMsg) \in Seq(Msgs')
<1>1. origin' \in Seq({"steer", "followUp", "aside", "prompt"}) /\ Len(origin') = Len(origin) + 1
  BY DEF SeqsOK
<1>2. /\ NewMsg \in Msgs' /\ Msgs \subseteq Msgs' /\ Msgs' = Msgs \cup {NewMsg} /\ NewMsg \notin Msgs
  BY <1>1 DEF Msgs, NewMsg, SeqsOK
<1>3. ASSUME NEW q \in Seq(Msgs) PROVE q \in Seq(Msgs') /\ Append(q, NewMsg) \in Seq(Msgs')
  <2> DEFINE T == Msgs'
  <2>1. Msgs \subseteq T /\ NewMsg \in T
    BY <1>2
  <2> HIDE DEF T
  <2>2. q \in Seq(T)
    BY <2>1
  <2>3. Append(q, NewMsg) \in Seq(T)
    BY <2>1, <2>2
  <2> QED  BY <2>2, <2>3 DEF T
<1> QED  BY <1>1, <1>2, <1>3

\* Every step but a new message's leaves the messages and moves some.
LEMMA SeqsLoopStep == SeqsOK /\ LoopStep => SeqsOK'
<1> SUFFICES ASSUME SeqsOK, LoopStep PROVE SeqsOK'
  OBVIOUS
<1>1. origin' = origin /\ late' = late /\ Msgs' = Msgs
  BY DEF LoopStep, EndsAtDeadline, InitialPoll, BeginTurn, BeforeYield, Inject, ReuseDirective,
     SoftRequirement, NoRequirement, ModelThrows, ModelStopsRun, HarmonyRetries, HarmonyGivesUp,
     Escalate, GiveUpSoft, RunTools, ToolsReturn, PairUnrun, NoCalls, HookThrows, TurnEnded,
     BoundaryPoll, MidWorkAsides, LatePoll, LateAsides, DrainFollowUps, queues, Msgs
<1>2. CASE InitialPoll \/ BoundaryPoll \/ LatePoll
  <2>1. PollSteering /\ UNCHANGED <<delivered, origin, followUpQ, asideQ, withdrawn>>
    BY <1>2 DEF InitialPoll, BoundaryPoll, LatePoll
  <2> QED  BY <1>1, <2>1, SteeringPolled DEF SeqsOK
<1>3. CASE MidWorkAsides \/ LateAsides
  <2>1. PollAsides /\ UNCHANGED <<delivered, origin, followUpQ, steeringQ>>
    BY <1>3 DEF MidWorkAsides, LateAsides
  <2>2. withdrawn' \subseteq Msgs
    BY <2>1, ElemsTyped DEF PollAsides, SeqsOK
  <2> QED  BY <1>1, <2>1, <2>2, AsidesPolled DEF SeqsOK
<1>4. CASE DrainFollowUps
  <2>1. PollFollowUps /\ UNCHANGED <<delivered, origin, steeringQ, asideQ, withdrawn>>
    BY <1>4 DEF DrainFollowUps
  <2> QED  BY <1>1, <2>1, FollowUpsPolled DEF SeqsOK
<1>5. CASE EndsAtDeadline
  BY <1>1, <1>5 DEF EndsAtDeadline, SeqsOK
<1>6. CASE Inject
  BY <1>1, <1>6 DEF Inject, SeqsOK
<1>7. CASE UNCHANGED queues
  BY <1>1, <1>7 DEF queues, SeqsOK
<1> QED
  BY <1>2, <1>3, <1>4, <1>5, <1>6, <1>7 DEF LoopStep, BeginTurn, BeforeYield, ReuseDirective,
     SoftRequirement, NoRequirement, ModelThrows, ModelStopsRun, HarmonyRetries, HarmonyGivesUp,
     Escalate, GiveUpSoft, RunTools, ToolsReturn, PairUnrun, NoCalls, HookThrows, TurnEnded

LEMMA PopTyped ==
  ASSUME NEW q \in Seq(Msgs), q # <<>>
  PROVE  /\ FrontOf(q) \in Seq(Msgs) /\ q[Len(q)] \in Msgs /\ q = FrontOf(q) \o <<q[Len(q)]>>
  BY DEF FrontOf

LEMMA SeqsStep == SeqsOK /\ [Next]_vars => SeqsOK'
<1> SUFFICES ASSUME SeqsOK, [Next]_vars PROVE SeqsOK'
  OBVIOUS
<1>1. CASE LoopStep
  BY <1>1, SeqsLoopStep
<1>2. CASE Steer
  <2>1. origin' = Append(origin, "steer")
    BY <1>2 DEF Steer, Submit
  <2> QED  BY <1>2, <2>1, AppendTyped DEF Steer, SeqsOK
<1>3. CASE FollowUp
  <2>1. origin' = Append(origin, "followUp")
    BY <1>3 DEF FollowUp, Submit
  <2> QED  BY <1>3, <2>1, AppendTyped DEF FollowUp, SeqsOK
<1>4. CASE Aside
  <2>1. origin' = Append(origin, "aside")
    BY <1>4 DEF Aside, Submit
  <2> QED  BY <1>4, <2>1, AppendTyped DEF Aside, SeqsOK
<1>5. CASE Prompt
  <2>1. origin' = Append(origin, "prompt")
    BY <1>5 DEF Prompt, Submit
  <2> QED  BY <1>5, <2>1, AppendTyped DEF Prompt, StartRun, SeqsOK
<1>6. CASE PopLastSteer
  BY <1>6, PopTyped DEF PopLastSteer, SeqsOK, Msgs
<1>7. CASE PopLastFollowUp
  BY <1>7, PopTyped DEF PopLastFollowUp, SeqsOK, Msgs
<1>8. CASE ContinueWithSteering
  <2>1. PICK d : d = Dequeue(steeringQ, SteeringAll) /\ steeringQ' = d[2] /\ delivered' = delivered \o d[1]
    BY <1>8 DEF ContinueWithSteering
  <2>2. d[1] \in Seq(Msgs) /\ d[2] \in Seq(Msgs)
    BY <2>1, DequeueFlows DEF SeqsOK
  <2> QED  BY <1>8, <2>1, <2>2 DEF ContinueWithSteering, StartRun, SeqsOK, Msgs
<1>9. CASE ContinueWithFollowUp
  <2>1. PICK d : d = Dequeue(followUpQ, FollowUpAll) /\ followUpQ' = d[2] /\ delivered' = delivered \o d[1]
    BY <1>9 DEF ContinueWithFollowUp
  <2>2. d[1] \in Seq(Msgs) /\ d[2] \in Seq(Msgs)
    BY <2>1, DequeueFlows DEF SeqsOK
  <2> QED  BY <1>9, <2>1, <2>2 DEF ContinueWithFollowUp, StartRun, SeqsOK, Msgs
<1>10. CASE ContinueAsIs
  BY <1>10 DEF ContinueAsIs, StartRun, SeqsOK, Msgs
<1>11. CASE Abort \/ DeadlinePasses \/ DeadlineTimer
  BY <1>11 DEF Abort, DeadlinePasses, DeadlineTimer, queues, SeqsOK, Msgs
<1>12. CASE UNCHANGED vars
  BY <1>12 DEF vars, queues, SeqsOK, Msgs
<1> QED
  BY <1>1, <1>2, <1>3, <1>4, <1>5, <1>6, <1>7, <1>8, <1>9, <1>10, <1>11, <1>12
     DEF Next, UserStep, StartStep

-----------------------------------------------------------------------------
(* Messages wait in pendingMessages at few points only.                    *)

LEMMA PendingInit == Init => PendingPoints
  BY DEF Init, PendingPoints

LEMMA PendingStep == PendingPoints /\ [Next]_vars => PendingPoints'
<1> SUFFICES ASSUME PendingPoints, [Next]_vars PROVE PendingPoints'
  OBVIOUS
<1> USE DEF PendingPoints
<1>1. CASE InitialPoll \/ MidWorkAsides \/ LateAsides
  BY <1>1 DEF InitialPoll, MidWorkAsides, LateAsides
<1>2. CASE BoundaryPoll \/ LatePoll
  BY <1>2 DEF BoundaryPoll, LatePoll
<1>3. CASE DrainFollowUps
  BY <1>3 DEF DrainFollowUps, EndRun
<1>4. CASE EndsAtDeadline \/ Inject
  BY <1>4 DEF EndsAtDeadline, Inject
<1>5. CASE BeginTurn \/ BeforeYield \/ HookThrows \/ TurnEnded
  BY <1>5 DEF BeginTurn, BeforeYield, HookThrows, TurnEnded, Fail, EndRun, queues
<1>6. CASE ReuseDirective \/ SoftRequirement \/ NoRequirement
  BY <1>6 DEF ReuseDirective, SoftRequirement, NoRequirement, CallModel, queues
<1>7. CASE ModelThrows \/ ModelStopsRun \/ HarmonyRetries \/ HarmonyGivesUp
  BY <1>7 DEF ModelThrows, ModelStopsRun, HarmonyRetries, HarmonyGivesUp, Fail, EndRun, queues
<1>8. CASE Escalate \/ GiveUpSoft \/ RunTools \/ ToolsReturn \/ PairUnrun \/ NoCalls
  BY <1>8 DEF Escalate, GiveUpSoft, RunTools, ToolsReturn, PairUnrun, NoCalls, Accept, Fail, EndRun, queues
<1>9. CASE StartStep
  BY <1>9 DEF StartStep, Prompt, ContinueWithSteering, ContinueWithFollowUp, ContinueAsIs, StartRun
<1>10. CASE UserStep
  BY <1>10 DEF UserStep, Steer, FollowUp, Aside, PopLastSteer, PopLastFollowUp, Abort, control, queues
<1>11. CASE DeadlinePasses \/ DeadlineTimer \/ UNCHANGED vars
  BY <1>11 DEF DeadlinePasses, DeadlineTimer, vars, control, queues
<1> QED
  BY <1>1, <1>2, <1>3, <1>4, <1>5, <1>6, <1>7, <1>8, <1>9, <1>10, <1>11 DEF Next, LoopStep

-----------------------------------------------------------------------------
(* What a step does to the messages.                                       *)

Still == UNCHANGED <<Line, steeringQ, followUpQ, asideQ, origin, withdrawn>>
Sends(kind) == origin' = Append(origin, kind) /\ UNCHANGED withdrawn
Popped(q) == q # <<>> /\ withdrawn' = withdrawn \cup {q[Len(q)]} /\ UNCHANGED <<Line, origin>>

Moves ==
    \/ Still
    \/ /\ expired /\ Line' = delivered
       /\ UNCHANGED <<steeringQ, followUpQ, asideQ, origin, withdrawn>>
    \/ /\ Sends("steer") /\ steeringQ' = Append(steeringQ, NewMsg)
       /\ UNCHANGED <<Line, followUpQ, asideQ>>
    \/ /\ Sends("followUp") /\ followUpQ' = Append(followUpQ, NewMsg)
       /\ UNCHANGED <<Line, steeringQ, asideQ>>
    \/ /\ Sends("aside") /\ asideQ' = Append(asideQ, NewMsg)
       /\ UNCHANGED <<Line, steeringQ, followUpQ>>
    \/ /\ Sends("prompt") /\ Line' = Append(Line, NewMsg)
       /\ UNCHANGED <<steeringQ, followUpQ, asideQ>>
    \/ Popped(steeringQ) /\ steeringQ' = FrontOf(steeringQ) /\ UNCHANGED <<followUpQ, asideQ>>
    \/ Popped(followUpQ) /\ followUpQ' = FrontOf(followUpQ) /\ UNCHANGED <<steeringQ, asideQ>>
    \/ /\ Flows(steeringQ, steeringQ', Line, Line')
       /\ UNCHANGED <<followUpQ, asideQ, origin, withdrawn>>
    \/ /\ Flows(followUpQ, followUpQ', Line, Line')
       /\ UNCHANGED <<steeringQ, asideQ, origin, withdrawn>>
    \/ /\ Flows(asideQ, asideQ', Line, Line')
       /\ UNCHANGED <<steeringQ, followUpQ, origin, withdrawn>>
    \/ AsidesDropped /\ UNCHANGED <<steeringQ, followUpQ, origin>>

\* With nothing pending, what joins the context joins the line.
LEMMA TakenToContext ==
  ASSUME SeqsOK, pending = <<>>, pending' = <<>>,
         NEW q \in Seq(Msgs), NEW q2 \in Seq(Msgs), NEW a \in Seq(Msgs), q = a \o q2,
         delivered' = delivered \o a
  PROVE  Flows(q, q2, Line, Line')
<1>1. Line = delivered /\ Line' = delivered'
  <2>1. delivered \o <<>> = delivered /\ delivered' \in Seq(Msgs) /\ delivered' \o <<>> = delivered'
    BY DEF SeqsOK
  <2> QED  BY <2>1 DEF Line
<1> QED  BY <1>1 DEF Flows

LEMMA EveryStepMoves == SeqsOK /\ PendingPoints /\ [Next]_vars => Moves
<1> SUFFICES ASSUME SeqsOK, PendingPoints, [Next]_vars PROVE Moves
  OBVIOUS
<1>1. CASE InitialPoll \/ BoundaryPoll \/ LatePoll
  <2>1. PollSteering /\ UNCHANGED <<delivered, origin, followUpQ, asideQ, withdrawn>>
    BY <1>1 DEF InitialPoll, BoundaryPoll, LatePoll
  <2> QED  BY <2>1, SteeringPolled DEF Moves
<1>2. CASE MidWorkAsides \/ LateAsides
  <2>1. PollAsides /\ UNCHANGED <<delivered, origin, followUpQ, steeringQ>>
    BY <1>2 DEF MidWorkAsides, LateAsides
  <2> QED  BY <2>1, AsidesPolled DEF Moves
<1>3. CASE DrainFollowUps
  <2>1. PollFollowUps /\ UNCHANGED <<delivered, origin, steeringQ, asideQ, withdrawn>>
    BY <1>3 DEF DrainFollowUps
  <2> QED  BY <2>1, FollowUpsPolled DEF Moves
<1>4. CASE EndsAtDeadline
  <2>1. Line' = delivered
    BY <1>4 DEF EndsAtDeadline, Line, SeqsOK
  <2> QED  BY <1>4, <2>1 DEF EndsAtDeadline, Moves
<1>5. CASE Inject
  <2>1. Line' = (delivered \o pending) \o <<>>
    BY <1>5 DEF Inject, Line
  <2>2. Line' = Line
    BY <2>1 DEF Line, SeqsOK
  <2> QED  BY <1>5, <2>2 DEF Inject, Moves, Still
<1>6. CASE Steer \/ FollowUp \/ Aside
  BY <1>6 DEF Steer, FollowUp, Aside, Submit, Sends, Moves, Line
<1>7. CASE PopLastSteer \/ PopLastFollowUp
  BY <1>7 DEF PopLastSteer, PopLastFollowUp, Popped, Moves, Line
<1>8. CASE Prompt
  <2>1. pending = <<>> /\ pending' = <<>>
    BY <1>8 DEF Prompt, StartRun, PendingPoints
  <2>2. Sends("prompt") /\ delivered' = Append(delivered, NewMsg)
    BY <1>8 DEF Prompt, StartRun, Submit, Sends
  <2>3. delivered \o <<>> = delivered
    BY DEF SeqsOK
  <2>4. delivered' \in Seq(Msgs') /\ delivered' \o <<>> = delivered'
    <3>1. delivered' \in Seq(Msgs')
      BY <2>2, AppendTyped DEF Sends, SeqsOK
    <3> QED  BY <3>1
  <2>5. Line' = Append(Line, NewMsg)
    BY <2>1, <2>2, <2>3, <2>4 DEF Line
  <2> QED  BY <1>8, <2>2, <2>5 DEF Prompt, StartRun, Moves
<1>9. CASE ContinueWithSteering
  <2>1. PICK d : d = Dequeue(steeringQ, SteeringAll) /\ steeringQ' = d[2] /\ delivered' = delivered \o d[1]
    BY <1>9 DEF ContinueWithSteering
  <2>2. d[1] \in Seq(Msgs) /\ d[2] \in Seq(Msgs) /\ steeringQ = d[1] \o d[2] /\ steeringQ \in Seq(Msgs)
    BY <2>1, DequeueFlows DEF SeqsOK
  <2>3. pending = <<>> /\ pending' = <<>>
    BY <1>9 DEF ContinueWithSteering, StartRun, PendingPoints
  <2>4. Flows(steeringQ, steeringQ', Line, Line')
    BY <2>1, <2>2, <2>3, TakenToContext
  <2> QED  BY <1>9, <2>4 DEF ContinueWithSteering, StartRun, Moves
<1>10. CASE ContinueWithFollowUp
  <2>1. PICK d : d = Dequeue(followUpQ, FollowUpAll) /\ followUpQ' = d[2] /\ delivered' = delivered \o d[1]
    BY <1>10 DEF ContinueWithFollowUp
  <2>2. d[1] \in Seq(Msgs) /\ d[2] \in Seq(Msgs) /\ followUpQ = d[1] \o d[2] /\ followUpQ \in Seq(Msgs)
    BY <2>1, DequeueFlows DEF SeqsOK
  <2>3. pending = <<>> /\ pending' = <<>>
    BY <1>10 DEF ContinueWithFollowUp, StartRun, PendingPoints
  <2>4. Flows(followUpQ, followUpQ', Line, Line')
    BY <2>1, <2>2, <2>3, TakenToContext
  <2> QED  BY <1>10, <2>4 DEF ContinueWithFollowUp, StartRun, Moves
<1>11. CASE ContinueAsIs
  BY <1>11 DEF ContinueAsIs, StartRun, Moves, Still, Line
<1>12. CASE UNCHANGED queues
  BY <1>12 DEF queues, Moves, Still, Line
<1> QED
  BY <1>1, <1>2, <1>3, <1>4, <1>5, <1>6, <1>7, <1>8, <1>9, <1>10, <1>11, <1>12
     DEF Next, StartStep, UserStep, LoopStep, BeginTurn, BeforeYield, ReuseDirective,
     SoftRequirement, NoRequirement, ModelThrows, ModelStopsRun, HarmonyRetries, HarmonyGivesUp,
     Escalate, GiveUpSoft, RunTools, ToolsReturn, PairUnrun, NoCalls, HookThrows, TurnEnded,
     Abort, DeadlinePasses, DeadlineTimer, vars

-----------------------------------------------------------------------------
(* The order of the messages.                                              *)

LEMMA OrderInit == Init => OrderOK
  BY DEF Init, OrderOK, Line, Rising, Queued, Before, Elems

\* A queue from whose end the user takes a message back.
LEMMA PopKept ==
  ASSUME SeqsOK, NEW q \in Seq(Msgs), q # <<>>, NEW kind, NEW l, Queued(q, kind, l, origin)
  PROVE  Queued(FrontOf(q), kind, l, origin)
<1> DEFINE x == q[Len(q)]
           f == FrontOf(q)
<1>1. f \in Seq(Msgs) /\ x \in Msgs /\ q = f \o <<x>> /\ <<x>> \in Seq(Msgs)
  BY PopTyped
<1> HIDE DEF f, x
<1>2. Elems(f) \subseteq Elems(q)
  <2>1. Elems(f \o <<x>>) = Elems(f) \cup Elems(<<x>>)
    BY <1>1, ElemsOfConcat
  <2> QED  BY <1>1, <2>1, Zenon
<1>3. Rising(f, origin)
  <2>1. f \in Seq(Nat) /\ <<x>> \in Seq(Nat) /\ Rising(f \o <<x>>, origin)
    BY <1>1, MsgsAreNumbers DEF Queued
  <2> QED  BY <2>1, RisingConcat
<1>4. Queued(f, kind, l, origin)
  <2>1. \A y \in Elems(q) : origin[y] = kind
    BY DEF Queued
  <2>2. Before(l, f, origin)
    BY <1>2 DEF Queued, Before
  <2> QED  BY <1>2, <1>3, <2>1, <2>2 DEF Queued
<1> QED  BY <1>4 DEF f

\* A prompt joins the line of a queue that holds messages of another kind.
LEMMA PromptKept ==
  ASSUME SeqsOK, NEW q \in Seq(Msgs), NEW kind, kind # "prompt", Queued(q, kind, Line, origin)
  PROVE  Queued(q, kind, Append(Line, NewMsg), Append(origin, "prompt"))
<1>1. Queued(q, kind, Line, Append(origin, "prompt"))
  BY OlderQueued, LineTyped
<1>2. Append(origin, "prompt")[NewMsg] = "prompt"
  BY DEF NewMsg, SeqsOK
<1>3. Elems(Append(Line, NewMsg)) = Elems(Line) \cup {NewMsg}
  <2>1. Line \in Seq(Nat) /\ NewMsg \in Nat
    BY LineTyped, MsgsAreNumbers DEF NewMsg, SeqsOK
  <2> QED  BY <2>1, ElemsOfAppend
<1> QED  BY <1>1, <1>2, <1>3 DEF Queued, Before

LEMMA OrderStep == SeqsOK /\ OrderOK /\ Moves => OrderOK'
<1> SUFFICES ASSUME SeqsOK, OrderOK, Moves PROVE OrderOK'
  OBVIOUS
<1> DEFINE Q(l, o) == /\ Rising(l, o)
                      /\ Queued(steeringQ', "steer", l, o) /\ Queued(followUpQ', "followUp", l, o)
                      /\ Queued(asideQ', "aside", l, o)
<1>a. SUFFICES Q(Line', origin')
  BY DEF OrderOK
<1>b. /\ Line \in Seq(Msgs) /\ steeringQ \in Seq(Msgs) /\ followUpQ \in Seq(Msgs) /\ asideQ \in Seq(Msgs)
      /\ delivered \in Seq(Msgs) /\ pending \in Seq(Msgs)
  BY LineTyped DEF SeqsOK
<1>c. /\ Rising(Line, origin)
      /\ Queued(steeringQ, "steer", Line, origin) /\ Queued(followUpQ, "followUp", Line, origin)
      /\ Queued(asideQ, "aside", Line, origin)
  BY DEF OrderOK
<1>1. CASE Still
  BY <1>1, <1>c DEF Still
<1>2. CASE Line' = delivered /\ UNCHANGED <<steeringQ, followUpQ, asideQ, origin, withdrawn>>
  <2>1. Rising(delivered, origin)
    <3>1. delivered \in Seq(Nat) /\ pending \in Seq(Nat) /\ Rising(delivered \o pending, origin)
      BY <1>b, <1>c, MsgsAreNumbers DEF Line
    <3> QED  BY <3>1, RisingConcat
  <2>2. Elems(delivered) \subseteq Elems(Line)
    BY <1>b, ElemsOfConcat DEF Line
  <2>3. \A q, kind : Queued(q, kind, Line, origin) => Queued(q, kind, delivered, origin)
    BY <2>2 DEF Queued, Before
  <2> QED  BY <1>2, <1>c, <2>1, <2>3
<1>3. CASE Sends("steer") /\ steeringQ' = Append(steeringQ, NewMsg) /\ UNCHANGED <<Line, followUpQ, asideQ>>
  <2>1. Rising(Line, Append(origin, "steer"))
    BY <1>b, <1>c, OlderKept
  <2>2. Queued(Append(steeringQ, NewMsg), "steer", Line, Append(origin, "steer"))
    BY <1>b, <1>c, NewQueued
  <2>3. /\ Queued(followUpQ, "followUp", Line, Append(origin, "steer"))
        /\ Queued(asideQ, "aside", Line, Append(origin, "steer"))
    BY <1>b, <1>c, OlderQueued
  <2> QED  BY <1>3, <2>1, <2>2, <2>3 DEF Sends
<1>4. CASE Sends("followUp") /\ followUpQ' = Append(followUpQ, NewMsg) /\ UNCHANGED <<Line, steeringQ, asideQ>>
  <2>1. Rising(Line, Append(origin, "followUp"))
    BY <1>b, <1>c, OlderKept
  <2>2. Queued(Append(followUpQ, NewMsg), "followUp", Line, Append(origin, "followUp"))
    BY <1>b, <1>c, NewQueued
  <2>3. /\ Queued(steeringQ, "steer", Line, Append(origin, "followUp"))
        /\ Queued(asideQ, "aside", Line, Append(origin, "followUp"))
    BY <1>b, <1>c, OlderQueued
  <2> QED  BY <1>4, <2>1, <2>2, <2>3 DEF Sends
<1>5. CASE Sends("aside") /\ asideQ' = Append(asideQ, NewMsg) /\ UNCHANGED <<Line, steeringQ, followUpQ>>
  <2>1. Rising(Line, Append(origin, "aside"))
    BY <1>b, <1>c, OlderKept
  <2>2. Queued(Append(asideQ, NewMsg), "aside", Line, Append(origin, "aside"))
    BY <1>b, <1>c, NewQueued
  <2>3. /\ Queued(steeringQ, "steer", Line, Append(origin, "aside"))
        /\ Queued(followUpQ, "followUp", Line, Append(origin, "aside"))
    BY <1>b, <1>c, OlderQueued
  <2> QED  BY <1>5, <2>1, <2>2, <2>3 DEF Sends
<1>6. CASE Sends("prompt") /\ Line' = Append(Line, NewMsg) /\ UNCHANGED <<steeringQ, followUpQ, asideQ>>
  <2>1. Rising(Append(Line, NewMsg), Append(origin, "prompt"))
    BY <1>b, <1>c, NewLast
  <2>2. /\ Queued(steeringQ, "steer", Append(Line, NewMsg), Append(origin, "prompt"))
        /\ Queued(followUpQ, "followUp", Append(Line, NewMsg), Append(origin, "prompt"))
        /\ Queued(asideQ, "aside", Append(Line, NewMsg), Append(origin, "prompt"))
    BY <1>b, <1>c, PromptKept
  <2> QED  BY <1>6, <2>1, <2>2 DEF Sends
<1>7. CASE Popped(steeringQ) /\ steeringQ' = FrontOf(steeringQ) /\ UNCHANGED <<followUpQ, asideQ>>
  <2>1. Queued(FrontOf(steeringQ), "steer", Line, origin)
    BY <1>7, <1>b, <1>c, PopKept DEF Popped
  <2> QED  BY <1>7, <1>c, <2>1 DEF Popped
<1>8. CASE Popped(followUpQ) /\ followUpQ' = FrontOf(followUpQ) /\ UNCHANGED <<steeringQ, asideQ>>
  <2>1. Queued(FrontOf(followUpQ), "followUp", Line, origin)
    BY <1>8, <1>b, <1>c, PopKept DEF Popped
  <2> QED  BY <1>8, <1>c, <2>1 DEF Popped
<1>9. CASE /\ Flows(steeringQ, steeringQ', Line, Line')
           /\ UNCHANGED <<followUpQ, asideQ, origin, withdrawn>>
  <2>1. /\ Rising(Line', origin) /\ Queued(steeringQ', "steer", Line', origin)
        /\ Elems(Line') \subseteq Elems(Line) \cup Elems(steeringQ)
    BY <1>9, <1>b, <1>c, FlowKept
  <2>2. Queued(followUpQ, "followUp", Line', origin) /\ Queued(asideQ, "aside", Line', origin)
    BY <1>c, <2>1, OthersKept, "steer" # "followUp", "steer" # "aside", "followUp" # "aside", Zenon
  <2> QED  BY <1>9, <2>1, <2>2
<1>10. CASE /\ Flows(followUpQ, followUpQ', Line, Line')
            /\ UNCHANGED <<steeringQ, asideQ, origin, withdrawn>>
  <2>1. /\ Rising(Line', origin) /\ Queued(followUpQ', "followUp", Line', origin)
        /\ Elems(Line') \subseteq Elems(Line) \cup Elems(followUpQ)
    BY <1>10, <1>b, <1>c, FlowKept
  <2>2. Queued(steeringQ, "steer", Line', origin) /\ Queued(asideQ, "aside", Line', origin)
    BY <1>c, <2>1, OthersKept, "steer" # "followUp", "steer" # "aside", "followUp" # "aside", Zenon
  <2> QED  BY <1>10, <2>1, <2>2
<1>11. CASE /\ Flows(asideQ, asideQ', Line, Line')
            /\ UNCHANGED <<steeringQ, followUpQ, origin, withdrawn>>
  <2>1. /\ Rising(Line', origin) /\ Queued(asideQ', "aside", Line', origin)
        /\ Elems(Line') \subseteq Elems(Line) \cup Elems(asideQ)
    BY <1>11, <1>b, <1>c, FlowKept
  <2>2. Queued(steeringQ, "steer", Line', origin) /\ Queued(followUpQ, "followUp", Line', origin)
    BY <1>c, <2>1, OthersKept, "steer" # "followUp", "steer" # "aside", "followUp" # "aside", Zenon
  <2> QED  BY <1>11, <2>1, <2>2
<1>12. CASE AsidesDropped /\ UNCHANGED <<steeringQ, followUpQ, origin>>
  <2>1. Queued(<<>>, "aside", Line, origin)
    BY DEF Queued, Rising, Before, Elems
  <2> QED  BY <1>12, <1>c, <2>1 DEF AsidesDropped
<1> QED
  <2> HIDE DEF Q
  <2> QED  BY <1>1, <1>2, <1>3, <1>4, <1>5, <1>6, <1>7, <1>8, <1>9, <1>10, <1>11, <1>12, Zenon DEF Moves

-----------------------------------------------------------------------------
(* The places of the messages.                                             *)

LEMMA PlaceInit == Init => PlaceOK
<1> SUFFICES ASSUME Init PROVE PlaceOK
  OBVIOUS
<1>1. Line = <<>> /\ Len(Line) = 0
  BY DEF Init, Line
<1>2. Waiting = {}
  BY <1>1 DEF Init, Waiting, Elems
<1>3. Msgs = {} /\ withdrawn = {} /\ Cardinality(withdrawn) = 0
  BY FS_EmptySet DEF Init, Msgs
<1> QED  BY <1>1, <1>2, <1>3 DEF PlaceOK, Init

\* No message is twice in a sequence whose messages of one kind are in order.
LEMMA RisingCounted ==
  ASSUME SeqsOK, NEW q \in Seq(Msgs), Rising(q, origin)
  PROVE  IsFiniteSet(Elems(q)) /\ Cardinality(Elems(q)) = Len(q)
<1> DEFINE E == Elems(q)
           n == Len(q)
<1>1. n \in Nat /\ \A i \in 1 .. n : q[i] \in Nat
  BY MsgsAreNumbers
<1>2. q \in [1 .. n -> E]
  BY DEF Elems
<1>3. \A i, j \in 1 .. n : q[i] = q[j] => i = j
  BY <1>1 DEF Rising
<1>4. q \in Bijection(1 .. n, E)
  <2>1. DOMAIN q = 1 .. n
    BY <1>2
  <2>2. q \in Injection(1 .. n, E)
    BY <1>2, <1>3, <2>1, Zenon DEF Injection, IsInjective
  <2>3. \A t \in E : \E i \in 1 .. n : q[i] = t
    BY DEF Elems
  <2>4. q \in Surjection(1 .. n, E)
    BY <1>2, <2>3, Zenon DEF Surjection
  <2> QED  BY <2>2, <2>4, Zenon DEF Bijection
<1>5. ExistsBijection(1 .. n, E)
  BY <1>4, Zenon DEF ExistsBijection
<1> HIDE DEF E, n
<1>6. IsFiniteSet(E) /\ Cardinality(E) = n
  BY <1>1, <1>5, FS_NatBijection, FS_CountingElements
<1> QED  BY <1>6 DEF E, n

\* Queues hold different kinds, and what is in a queue is not in the line.
LEMMA QueuesApart ==
  ASSUME SeqsOK, OrderOK
  PROVE  /\ Elems(steeringQ) \cap Elems(followUpQ) = {} /\ Elems(steeringQ) \cap Elems(asideQ) = {}
         /\ Elems(followUpQ) \cap Elems(asideQ) = {}
         /\ Elems(Line) \cap (Elems(steeringQ) \cup Elems(followUpQ) \cup Elems(asideQ)) = {}
<1>1. Elems(Line) \subseteq Nat
  BY LineTyped, MsgsAreNumbers, ElemsTyped
<1>2. ASSUME NEW q, NEW kind, Queued(q, kind, Line, origin) PROVE Elems(Line) \cap Elems(q) = {}
  <2> SUFFICES ASSUME NEW x \in Elems(Line), x \in Elems(q) PROVE FALSE
    OBVIOUS
  <2>1. x < x /\ x \in Nat
    BY <1>1, <1>2 DEF Queued, Before
  <2> QED  BY <2>1
<1>3. /\ Elems(Line) \cap Elems(steeringQ) = {} /\ Elems(Line) \cap Elems(followUpQ) = {}
      /\ Elems(Line) \cap Elems(asideQ) = {}
  BY <1>2 DEF OrderOK
<1> QED  BY <1>3 DEF OrderOK, Queued

LEMMA PoppedApart ==
  ASSUME SeqsOK, NEW q \in Seq(Msgs), q # <<>>, NEW kind, Queued(q, kind, Line, origin)
  PROVE  /\ Elems(FrontOf(q)) = Elems(q) \ {q[Len(q)]} /\ q[Len(q)] \in Elems(q)
         /\ Len(FrontOf(q)) = Len(q) - 1
<1>1. Len(FrontOf(q)) = Len(q) - 1 /\ \A i \in 1 .. Len(q) - 1 : FrontOf(q)[i] = q[i]
  <2>1. PICK f \in Seq(Msgs), x \in Msgs : f = FrontOf(q) /\ q = f \o <<x>>
    BY PopTyped
  <2>2. Len(q) = Len(f) + 1
    BY <2>1
  <2>3. \A i \in 1 .. Len(f) : q[i] = f[i]
    BY <2>1
  <2> QED  BY <2>1, <2>2, <2>3
<1>2. \A i \in 1 .. Len(q) - 1 : q[i] # q[Len(q)]
  <2> SUFFICES ASSUME NEW i \in 1 .. Len(q) - 1 PROVE q[i] # q[Len(q)]
    OBVIOUS
  <2>1. i < Len(q) /\ i \in 1 .. Len(q) /\ Len(q) \in 1 .. Len(q)
    OBVIOUS
  <2>2. q[i] \in Nat /\ q[Len(q)] \in Nat
    BY <2>1, MsgsAreNumbers
  <2> QED  BY <2>1, <2>2 DEF Queued, Rising
<1>3. \A i \in 1 .. Len(q) : i = Len(q) \/ i \in 1 .. Len(q) - 1
  OBVIOUS
<1>4. Len(q) \in 1 .. Len(q) /\ \A i \in 1 .. Len(q) - 1 : i \in 1 .. Len(q)
  OBVIOUS
<1> DEFINE n == Len(q)
           m == Len(q) - 1
           f == FrontOf(q)
<1>5. Elems(f) = {q[i] : i \in 1 .. m}
  <2>1. Len(f) = m /\ \A i \in 1 .. m : f[i] = q[i]
    BY <1>1
  <2>2. Elems(f) = {f[i] : i \in 1 .. m}
    BY <2>1 DEF Elems
  <2> HIDE DEF f, m
  <2> QED  BY <2>1, <2>2
<1>6. Elems(q) = {q[i] : i \in 1 .. n}
  BY DEF Elems
<1>7. Elems(f) = Elems(q) \ {q[n]} /\ q[n] \in Elems(q)
  <2> HIDE DEF n, m, f
  <2> QED  BY <1>2, <1>3, <1>4, <1>5, <1>6 DEF n, m
<1> QED  BY <1>1, <1>7

LEMMA WithdrawnFinite == SeqsOK => IsFiniteSet(withdrawn) /\ Cardinality(withdrawn) \in Nat
<1> SUFFICES ASSUME SeqsOK PROVE IsFiniteSet(withdrawn)
  BY FS_CardinalityType
<1>1. IsFiniteSet(Msgs)
  BY FS_Interval DEF Msgs, SeqsOK
<1> QED  BY <1>1, FS_Subset DEF SeqsOK

\* A message goes from where it waits to what was withdrawn.
LEMMA OneWithdrawn ==
  ASSUME SeqsOK, NEW x, x \notin withdrawn
  PROVE  Cardinality(withdrawn \cup {x}) = Cardinality(withdrawn) + 1
  BY WithdrawnFinite, FS_AddElement

LEMMA PlaceStep == SeqsOK /\ OrderOK /\ PlaceOK /\ Moves /\ ~expired => PlaceOK'
<1> SUFFICES ASSUME SeqsOK, OrderOK, PlaceOK, Moves, ~expired PROVE PlaceOK'
  OBVIOUS
<1>b. /\ Line \in Seq(Msgs) /\ steeringQ \in Seq(Msgs) /\ followUpQ \in Seq(Msgs) /\ asideQ \in Seq(Msgs)
  BY LineTyped DEF SeqsOK
<1>c. /\ Rising(Line, origin)
      /\ Queued(steeringQ, "steer", Line, origin) /\ Queued(followUpQ, "followUp", Line, origin)
      /\ Queued(asideQ, "aside", Line, origin)
  BY DEF OrderOK
<1>d. /\ Len(steeringQ) \in Nat /\ Len(followUpQ) \in Nat /\ Len(asideQ) \in Nat /\ Len(Line) \in Nat
      /\ Cardinality(withdrawn) \in Nat
  BY <1>b, WithdrawnFinite
<1>1. CASE Still
  BY <1>1 DEF Still, PlaceOK, Waiting, Msgs
<1>2. ASSUME NEW kind \in {"steer", "followUp", "aside", "prompt"}, Sends(kind),
             Waiting' = Waiting \cup {NewMsg},
             Len(steeringQ') + Len(followUpQ') + Len(asideQ') + Len(Line')
               = Len(steeringQ) + Len(followUpQ) + Len(asideQ) + Len(Line) + 1
      PROVE  PlaceOK'
  <2>1. Msgs' = Msgs \cup {NewMsg} /\ NewMsg \notin Msgs /\ withdrawn' = withdrawn
    BY <1>2, AppendTyped DEF Sends
  <2>2. Len(origin') = Len(origin) + 1
    BY <1>2 DEF Sends, SeqsOK
  <2>3. Waiting' \cup withdrawn' = Msgs'
    BY <1>2, <2>1 DEF PlaceOK
  <2>4. Waiting' \cap withdrawn' = {}
    BY <1>2, <2>1 DEF PlaceOK, SeqsOK
  <2>5. Len(steeringQ') + Len(followUpQ') + Len(asideQ') + Len(Line') + Cardinality(withdrawn') = Len(origin')
    BY <1>2, <1>d, <2>1, <2>2 DEF PlaceOK
  <2> QED  BY <2>3, <2>4, <2>5 DEF PlaceOK
<1>n. \A q \in Seq(Msgs) : Len(Append(q, NewMsg)) = Len(q) + 1 /\ Elems(Append(q, NewMsg)) = Elems(q) \cup {NewMsg}
  <2> TAKE q \in Seq(Msgs)
  <2>1. q \in Seq(Nat) /\ NewMsg \in Nat
    BY MsgsAreNumbers DEF NewMsg, SeqsOK
  <2> QED  BY <2>1, ElemsOfAppend
<1>3. CASE Sends("steer") /\ steeringQ' = Append(steeringQ, NewMsg) /\ UNCHANGED <<Line, followUpQ, asideQ>>
  <2>1. Waiting' = Waiting \cup {NewMsg}
    BY <1>3, <1>b, <1>n DEF Waiting
  <2>2. Len(steeringQ') = Len(steeringQ) + 1
    BY <1>3, <1>b, <1>n
  <2> QED  BY <1>2, <1>3, <1>d, <2>1, <2>2
<1>4. CASE Sends("followUp") /\ followUpQ' = Append(followUpQ, NewMsg) /\ UNCHANGED <<Line, steeringQ, asideQ>>
  <2>1. Waiting' = Waiting \cup {NewMsg}
    BY <1>4, <1>b, <1>n DEF Waiting
  <2>2. Len(followUpQ') = Len(followUpQ) + 1
    BY <1>4, <1>b, <1>n
  <2> QED  BY <1>2, <1>4, <1>d, <2>1, <2>2
<1>5. CASE Sends("aside") /\ asideQ' = Append(asideQ, NewMsg) /\ UNCHANGED <<Line, steeringQ, followUpQ>>
  <2>1. Waiting' = Waiting \cup {NewMsg}
    BY <1>5, <1>b, <1>n DEF Waiting
  <2>2. Len(asideQ') = Len(asideQ) + 1
    BY <1>5, <1>b, <1>n
  <2> QED  BY <1>2, <1>5, <1>d, <2>1, <2>2
<1>6. CASE Sends("prompt") /\ Line' = Append(Line, NewMsg) /\ UNCHANGED <<steeringQ, followUpQ, asideQ>>
  <2>1. Waiting' = Waiting \cup {NewMsg}
    BY <1>6, <1>b, <1>n DEF Waiting
  <2>2. Len(Line') = Len(Line) + 1
    BY <1>6, <1>b, <1>n
  <2> QED  BY <1>2, <1>6, <1>d, <2>1, <2>2
<1>7. CASE Popped(steeringQ) /\ steeringQ' = FrontOf(steeringQ) /\ UNCHANGED <<followUpQ, asideQ>>
  <2> DEFINE x == steeringQ[Len(steeringQ)]
  <2>1. Elems(steeringQ') = Elems(steeringQ) \ {x} /\ x \in Elems(steeringQ) /\ Len(steeringQ') = Len(steeringQ) - 1
    BY <1>7, <1>b, <1>c, PoppedApart DEF Popped
  <2>2. withdrawn' = withdrawn \cup {x} /\ Line' = Line /\ origin' = origin /\ Msgs' = Msgs
    BY <1>7 DEF Popped, Msgs
  <2> HIDE DEF x
  <2>3. Waiting' = Waiting \ {x} /\ x \in Waiting
    BY <1>7, <2>1, <2>2, QueuesApart DEF Waiting
  <2>4. x \notin withdrawn
    BY <2>3 DEF PlaceOK
  <2>5. Waiting' \cup withdrawn' = Msgs' /\ Waiting' \cap withdrawn' = {}
    BY <2>2, <2>3 DEF PlaceOK
  <2>6. Cardinality(withdrawn') = Cardinality(withdrawn) + 1
    BY <2>2, <2>4, OneWithdrawn
  <2>7. Len(steeringQ') + Len(followUpQ') + Len(asideQ') + Len(Line') + Cardinality(withdrawn') = Len(origin')
    BY <1>7, <1>d, <2>1, <2>2, <2>6 DEF PlaceOK
  <2> QED  BY <2>5, <2>7 DEF PlaceOK
<1>8. CASE Popped(followUpQ) /\ followUpQ' = FrontOf(followUpQ) /\ UNCHANGED <<steeringQ, asideQ>>
  <2> DEFINE x == followUpQ[Len(followUpQ)]
  <2>1. Elems(followUpQ') = Elems(followUpQ) \ {x} /\ x \in Elems(followUpQ) /\ Len(followUpQ') = Len(followUpQ) - 1
    BY <1>8, <1>b, <1>c, PoppedApart DEF Popped
  <2>2. withdrawn' = withdrawn \cup {x} /\ Line' = Line /\ origin' = origin /\ Msgs' = Msgs
    BY <1>8 DEF Popped, Msgs
  <2> HIDE DEF x
  <2>3. Waiting' = Waiting \ {x} /\ x \in Waiting
    BY <1>8, <2>1, <2>2, QueuesApart DEF Waiting
  <2>4. x \notin withdrawn
    BY <2>3 DEF PlaceOK
  <2>5. Waiting' \cup withdrawn' = Msgs' /\ Waiting' \cap withdrawn' = {}
    BY <2>2, <2>3 DEF PlaceOK
  <2>6. Cardinality(withdrawn') = Cardinality(withdrawn) + 1
    BY <2>2, <2>4, OneWithdrawn
  <2>7. Len(steeringQ') + Len(followUpQ') + Len(asideQ') + Len(Line') + Cardinality(withdrawn') = Len(origin')
    BY <1>8, <1>d, <2>1, <2>2, <2>6 DEF PlaceOK
  <2> QED  BY <2>5, <2>7 DEF PlaceOK
<1>9. CASE /\ Flows(steeringQ, steeringQ', Line, Line')
           /\ UNCHANGED <<followUpQ, asideQ, origin, withdrawn>>
  <2>1. /\ steeringQ' \in Seq(Msgs) /\ Line' \in Seq(Msgs)
        /\ Elems(Line') \cup Elems(steeringQ') = Elems(Line) \cup Elems(steeringQ)
        /\ Len(Line') + Len(steeringQ') = Len(Line) + Len(steeringQ)
    BY <1>9, <1>b, <1>c, FlowKept
  <2>2. Waiting' = Waiting /\ Msgs' = Msgs
    BY <1>9, <2>1, Zenon DEF Waiting, Msgs
  <2>3. Len(Line') \in Nat /\ Len(steeringQ') \in Nat
    BY <2>1
  <2> QED  BY <1>9, <1>d, <2>1, <2>2, <2>3 DEF PlaceOK
<1>10. CASE /\ Flows(followUpQ, followUpQ', Line, Line')
            /\ UNCHANGED <<steeringQ, asideQ, origin, withdrawn>>
  <2>1. /\ followUpQ' \in Seq(Msgs) /\ Line' \in Seq(Msgs)
        /\ Elems(Line') \cup Elems(followUpQ') = Elems(Line) \cup Elems(followUpQ)
        /\ Len(Line') + Len(followUpQ') = Len(Line) + Len(followUpQ)
    BY <1>10, <1>b, <1>c, FlowKept
  <2>2. Waiting' = Waiting /\ Msgs' = Msgs
    BY <1>10, <2>1, Zenon DEF Waiting, Msgs
  <2>3. Len(Line') \in Nat /\ Len(followUpQ') \in Nat
    BY <2>1
  <2> QED  BY <1>10, <1>d, <2>1, <2>2, <2>3, SMTT(60) DEF PlaceOK
<1>11. CASE /\ Flows(asideQ, asideQ', Line, Line')
            /\ UNCHANGED <<steeringQ, followUpQ, origin, withdrawn>>
  <2>1. /\ asideQ' \in Seq(Msgs) /\ Line' \in Seq(Msgs)
        /\ Elems(Line') \cup Elems(asideQ') = Elems(Line) \cup Elems(asideQ)
        /\ Len(Line') + Len(asideQ') = Len(Line) + Len(asideQ)
    BY <1>11, <1>b, <1>c, FlowKept
  <2>2. Waiting' = Waiting /\ Msgs' = Msgs
    BY <1>11, <2>1, Zenon DEF Waiting, Msgs
  <2>3. Len(Line') \in Nat /\ Len(asideQ') \in Nat
    BY <2>1
  <2> QED  BY <1>11, <1>d, <2>1, <2>2, <2>3, SMTT(60) DEF PlaceOK
<1>12. CASE AsidesDropped /\ UNCHANGED <<steeringQ, followUpQ, origin>>
  <2>1. IsFiniteSet(Elems(asideQ)) /\ Cardinality(Elems(asideQ)) = Len(asideQ)
    BY <1>b, <1>c, RisingCounted DEF Queued
  <2>2. asideQ' = <<>> /\ withdrawn' = withdrawn \cup Elems(asideQ) /\ Line' = Line /\ Msgs' = Msgs
    BY <1>12 DEF AsidesDropped, Msgs
  <2>3. Elems(asideQ') = {}
    BY <2>2 DEF Elems
  <2>4. Waiting' = Waiting \ Elems(asideQ) /\ Elems(asideQ) \subseteq Waiting
    BY <1>12, <2>2, <2>3, QueuesApart DEF Waiting
  <2>5. withdrawn \cap Elems(asideQ) = {}
    BY <2>4 DEF PlaceOK
  <2>6. Waiting' \cup withdrawn' = Msgs' /\ Waiting' \cap withdrawn' = {}
    BY <2>2, <2>4 DEF PlaceOK
  <2>7. Cardinality(withdrawn') = Cardinality(withdrawn) + Len(asideQ)
    <3>1. Cardinality(withdrawn \cup Elems(asideQ))
            = Cardinality(withdrawn) + Cardinality(Elems(asideQ)) - Cardinality(withdrawn \cap Elems(asideQ))
      BY <2>1, WithdrawnFinite, FS_Union
    <3>2. Cardinality(withdrawn \cap Elems(asideQ)) = 0
      BY <2>5, FS_EmptySet, Zenon
    <3>3. Cardinality(withdrawn') = Cardinality(withdrawn \cup Elems(asideQ))
      BY <2>2, Zenon
    <3> QED  BY <1>d, <2>1, <3>1, <3>2, <3>3
  <2>8. Len(asideQ') = 0
    BY <2>2
  <2>9. Len(steeringQ') + Len(followUpQ') + Len(asideQ') + Len(Line') + Cardinality(withdrawn') = Len(origin')
    BY <1>12, <1>d, <2>2, <2>7, <2>8 DEF PlaceOK
  <2> QED  BY <2>6, <2>9 DEF PlaceOK
<1> QED
  BY <1>1, <1>3, <1>4, <1>5, <1>6, <1>7, <1>8, <1>9, <1>10, <1>11, <1>12, Zenon DEF Moves

-----------------------------------------------------------------------------
(* What is sent arrives.                                                   *)

\* The clock cannot pass a deadline that is not set.
LEMMA NoDeadline ==
  ASSUME HasDeadline = FALSE
  PROVE  (Init => ~expired) /\ (~expired /\ [Next]_vars => ~expired')
<1>1. Init => ~expired
  BY DEF Init
<1>2. ASSUME ~expired, [Next]_vars PROVE ~expired'
  <2>1. CASE LoopStep
    BY <1>2, <2>1 DEF LoopStep, EndsAtDeadline, InitialPoll, BeginTurn, BeforeYield, Inject,
       ReuseDirective, SoftRequirement, NoRequirement, ModelThrows, ModelStopsRun, HarmonyRetries,
       HarmonyGivesUp, Escalate, GiveUpSoft, RunTools, ToolsReturn, PairUnrun, NoCalls, HookThrows,
       TurnEnded, BoundaryPoll, MidWorkAsides, LatePoll, LateAsides, DrainFollowUps, signals
  <2>2. CASE StartStep
    BY <1>2, <2>2 DEF StartStep, Prompt, ContinueWithSteering, ContinueWithFollowUp, ContinueAsIs, StartRun
  <2>3. CASE UserStep
    BY <1>2, <2>3 DEF UserStep, Steer, FollowUp, Aside, PopLastSteer, PopLastFollowUp, Abort, signals
  <2>4. CASE DeadlinePasses \/ DeadlineTimer \/ UNCHANGED vars
    BY <1>2, <2>4 DEF DeadlinePasses, DeadlineTimer, vars, signals
  <2> QED  BY <1>2, <2>1, <2>2, <2>3, <2>4 DEF Next
<1> QED  BY <1>1, <1>2

MessagesInv == SeqsOK /\ PendingPoints /\ OrderOK

LEMMA MessagesAlways == Spec => []MessagesInv
<1>1. Init => MessagesInv
  BY SeqsInit, PendingInit, OrderInit DEF MessagesInv
<1>2. MessagesInv /\ [Next]_vars => MessagesInv'
  BY SeqsStep, PendingStep, OrderStep, EveryStepMoves DEF MessagesInv
<1> QED  BY <1>1, <1>2, PTL DEF Spec

\* The messages of one kind enter the context in the order they were sent, with a deadline
\* too: see DeliveredInOrder.
THEOREM DeliveredInOrderAlways == Spec => []DeliveredInOrder
<1>1. ASSUME MessagesInv PROVE DeliveredInOrder
  <2>1. delivered \in Seq(Nat) /\ pending \in Seq(Nat) /\ Rising(delivered \o pending, origin)
    BY <1>1, MsgsAreNumbers DEF MessagesInv, SeqsOK, OrderOK, Line
  <2>2. Rising(delivered, origin) /\ DOMAIN delivered = 1 .. Len(delivered)
    BY <2>1, RisingConcat
  <2> QED  BY <2>2 DEF DeliveredInOrder, Rising
<1> QED  BY <1>1, MessagesAlways, PTL

\* Without a deadline, no message is lost, duplicated or overtaken by a later one of its kind,
\* whichever mode the queues are in and whoever aborts the run: see QueuesIntact.
THEOREM QueuesIntactAlways ==
  ASSUME HasDeadline = FALSE
  PROVE  Spec => []QueuesIntact
<1>1. Init => PlaceOK /\ ~expired
  BY PlaceInit, NoDeadline
<1>2. MessagesInv /\ PlaceOK /\ ~expired /\ [Next]_vars => PlaceOK' /\ ~expired'
  BY PlaceStep, EveryStepMoves, NoDeadline DEF MessagesInv
<1>3. ASSUME ControlInv, MessagesInv PROVE TypeOK
  <2>1. {hasMore, skipPoll, resolved, softTool, forced} \subseteq BOOLEAN
    BY <1>3 DEF ControlInv, FlagsOK
  <2>2. {aborted, expired, lastAssistant, calledAborted, gaveUp} \subseteq BOOLEAN
    BY <1>3 DEF ControlInv, FlagsOK
  <2>3. {owed, abortedCalls, fetched} \subseteq Nat
    BY <1>3 DEF ControlInv, CallsPaired, AbortCounted, DirectiveKept
  <2>4. at \in Points /\ calls \in 0 .. MaxCalls
    BY <1>3 DEF ControlInv, FlagsOK, CallsPaired
  <2>5. LimitsKept /\ SeqsOK
    BY <1>3 DEF ControlInv, MessagesInv
  <2> QED  BY <2>1, <2>2, <2>3, <2>4, <2>5 DEF LimitsKept, SeqsOK, TypeOK
<1>4. ASSUME MessagesInv, PlaceOK PROVE OnePlace
  <2> DEFINE places == <<steeringQ, followUpQ, asideQ, pending, delivered>>
  <2>1. /\ Elems(Line) = Elems(delivered) \cup Elems(pending) /\ Len(Line) = Len(delivered) + Len(pending)
    BY <1>4, ElemsOfConcat DEF Line, MessagesInv, SeqsOK
  <2>2. DOMAIN places = {1, 2, 3, 4, 5}
    OBVIOUS
  <2>3. /\ places[1] = steeringQ /\ places[2] = followUpQ /\ places[3] = asideQ
        /\ places[4] = pending /\ places[5] = delivered
    OBVIOUS
  <2>4. UNION {Elems(places[i]) : i \in DOMAIN places} = Waiting
    <3> HIDE DEF places
    <3> QED  BY <2>1, <2>2, <2>3 DEF Waiting
  <2>5. (UNION {Elems(places[i]) : i \in DOMAIN places}) \cup withdrawn = Msgs
    <3> DEFINE U == UNION {Elems(places[i]) : i \in DOMAIN places}
    <3>1. U = Waiting
      BY <2>4
    <3> HIDE DEF U
    <3>2. U \cup withdrawn = Msgs
      BY <1>4, <3>1 DEF PlaceOK
    <3> QED  BY <3>2 DEF U
  <2>6. Len(steeringQ) + Len(followUpQ) + Len(asideQ) + Len(pending) + Len(delivered)
             + Cardinality(withdrawn) = Len(origin)
    <3>1. /\ Len(steeringQ) \in Nat /\ Len(followUpQ) \in Nat /\ Len(asideQ) \in Nat
          /\ Len(pending) \in Nat /\ Len(delivered) \in Nat /\ Cardinality(withdrawn) \in Nat
      BY <1>4, WithdrawnFinite DEF MessagesInv, SeqsOK
    <3>2. Len(steeringQ) + Len(followUpQ) + Len(asideQ) + Len(Line) + Cardinality(withdrawn) = Len(origin)
      BY <1>4 DEF PlaceOK
    <3> HIDE DEF places
    <3> QED  BY <2>1, <3>1, <3>2
  <2> QED  BY <2>5, <2>6 DEF OnePlace
<1>5. Spec => []PlaceOK
  BY <1>1, <1>2, MessagesAlways, PTL DEF Spec
<1>6. ControlInv /\ MessagesInv /\ PlaceOK /\ DeliveredInOrder => QueuesIntact
  BY <1>3, <1>4 DEF QueuesIntact
<1> QED  BY <1>5, <1>6, ControlAlways, MessagesAlways, DeliveredInOrderAlways, PTL

-----------------------------------------------------------------------------
(* A run that stops.                                                       *)

\* A poll of a queue that brings nothing found nothing.
LEMMA EmptyPoll ==
  ASSUME NEW S, NEW p \in Seq(S), NEW q \in Seq(S), p \o q = <<>>
  PROVE  p = <<>> /\ q = <<>>
<1>1. Len(p) + Len(q) = 0 /\ Len(p) \in Nat /\ Len(q) \in Nat
  <2>1. Len(p \o q) = Len(p) + Len(q)
    OBVIOUS
  <2> QED  BY <2>1
<1> QED  BY <1>1

LEMMA LatePollEmpties ==
  ASSUME SeqsOK, LatePoll, ~aborted, ~skipPoll, pending' = <<>>
  PROVE  steeringQ' = <<>>
<1>1. PICK d : d = Dequeue(steeringQ, SteeringAll) /\ steeringQ' = d[2] /\ pending' = pending \o d[1]
  BY DEF LatePoll, PollSteering
<1>2. d[1] \in Seq(Msgs) /\ steeringQ \in Seq(Msgs) /\ pending \in Seq(Msgs)
  BY <1>1, DequeueFlows DEF SeqsOK
<1>3. d[1] = <<>>
  BY <1>1, <1>2, EmptyPoll
<1>4. CASE SteeringAll \/ steeringQ = <<>>
  BY <1>1, <1>4 DEF Dequeue
<1>5. CASE ~(SteeringAll \/ steeringQ = <<>>)
  <2>1. d[1] = <<Head(steeringQ)>>
    BY <1>1, <1>5 DEF Dequeue
  <2>2. \A x : <<x>> # <<>>
    OBVIOUS
  <2> QED  BY <1>3, <2>1, <2>2, Zenon
<1> QED  BY <1>4, <1>5

LEMMA SteersSeenInit == Init => SteersSeen
  BY DEF Init, SteersSeen

LEMMA SteersSeenStep == SeqsOK /\ FlagsOK /\ SteersSeen /\ [Next]_vars => SteersSeen'
<1> SUFFICES ASSUME SeqsOK, FlagsOK, SteersSeen, [Next]_vars PROVE SteersSeen'
  OBVIOUS
<1>1. CASE InitialPoll \/ BoundaryPoll
  BY <1>1 DEF InitialPoll, BoundaryPoll, PollSteering, signals, SteersSeen
<1>2. CASE LatePoll
  <2>1. at' = "lateAsides" /\ at = "yield" /\ aborted' = aborted /\ late' = late
    BY <1>2 DEF LatePoll, signals
  <2>2. ~skipPoll' \/ aborted'
    BY <1>2, <2>1 DEF LatePoll, PollSteering, SteersSeen
  <2>3. ASSUME ~aborted', pending' = <<>> PROVE Elems(steeringQ') \subseteq late'
    <3>1. steeringQ' = <<>>
      BY <1>2, <2>1, <2>3, LatePollEmpties DEF SteersSeen
    <3> QED  BY <3>1 DEF Elems
  <2> QED  BY <2>1, <2>2, <2>3 DEF SteersSeen
<1>3. CASE LateAsides
  <2>1. /\ at = "lateAsides" /\ at' = "followUps"
        /\ UNCHANGED <<aborted, late, steeringQ, skipPoll>>
    BY <1>3 DEF LateAsides, signals
  <2>2. ASSUME pending' = <<>> PROVE pending = <<>>
    <3>1. pending \in Seq(Msgs) /\ asideQ \in Seq(Msgs)
      BY DEF SeqsOK
    <3>2. pending' = pending \/ pending' = pending \o asideQ
      BY <1>3 DEF LateAsides, PollAsides
    <3> QED  BY <2>2, <3>1, <3>2, EmptyPoll
  <2> QED  BY <2>1, <2>2 DEF SteersSeen
<1>4. CASE Steer
  <2>1. steeringQ' = Append(steeringQ, NewMsg) /\ steeringQ \in Seq(Nat) /\ NewMsg \in Nat
    BY <1>4, MsgsAreNumbers DEF Steer, SeqsOK, NewMsg
  <2>2. Elems(steeringQ') = Elems(steeringQ) \cup {NewMsg}
    BY <2>1, ElemsOfAppend
  <2> QED  BY <1>4, <2>2 DEF Steer, control, signals, SteersSeen
<1>5. CASE PopLastSteer
  <2>1. steeringQ # <<>> /\ steeringQ' = FrontOf(steeringQ) /\ steeringQ \in Seq(Msgs)
    BY <1>5 DEF PopLastSteer, SeqsOK
  <2>2. PICK f \in Seq(Msgs), x \in Msgs : f = steeringQ' /\ steeringQ = f \o <<x>>
    BY <2>1, PopTyped
  <2>3. <<x>> \in Seq(Msgs)
    OBVIOUS
  <2>4. Elems(f \o <<x>>) = Elems(f) \cup Elems(<<x>>)
    BY <2>2, <2>3, ElemsOfConcat
  <2>5. Elems(steeringQ') \subseteq Elems(steeringQ)
    BY <2>2, <2>4, Zenon
  <2> QED  BY <1>5, <2>5 DEF PopLastSteer, control, signals, SteersSeen
<1> USE DEF SteersSeen, queues, control, signals
<1>6. CASE MidWorkAsides \/ DrainFollowUps \/ EndsAtDeadline \/ Inject
  BY <1>6 DEF MidWorkAsides, DrainFollowUps, EndsAtDeadline, Inject, EndRun
<1>7. CASE BeginTurn \/ BeforeYield \/ HookThrows \/ TurnEnded
  BY <1>7 DEF BeginTurn, BeforeYield, HookThrows, TurnEnded, Fail, EndRun
<1>8. CASE ReuseDirective \/ SoftRequirement \/ NoRequirement
  BY <1>8 DEF ReuseDirective, SoftRequirement, NoRequirement, CallModel
<1>9. CASE ModelThrows \/ ModelStopsRun \/ HarmonyRetries \/ HarmonyGivesUp
  BY <1>9 DEF ModelThrows, ModelStopsRun, HarmonyRetries, HarmonyGivesUp, Fail, EndRun
<1>10. CASE Escalate \/ GiveUpSoft \/ RunTools \/ ToolsReturn \/ PairUnrun \/ NoCalls
  BY <1>10 DEF Escalate, GiveUpSoft, RunTools, ToolsReturn, PairUnrun, NoCalls, Accept, Fail, EndRun
<1>11. CASE StartStep
  BY <1>11 DEF StartStep, Prompt, ContinueWithSteering, ContinueWithFollowUp, ContinueAsIs, StartRun
<1>12. CASE FollowUp \/ Aside \/ PopLastFollowUp
  BY <1>12 DEF FollowUp, Aside, PopLastFollowUp
<1>13. CASE Abort \/ DeadlinePasses \/ DeadlineTimer \/ UNCHANGED vars
  BY <1>13 DEF Abort, DeadlinePasses, DeadlineTimer, vars
<1> QED
  BY <1>1, <1>2, <1>3, <1>4, <1>5, <1>6, <1>7, <1>8, <1>9, <1>10, <1>11, <1>12, <1>13
     DEF Next, LoopStep, UserStep

\* A run that decides to stop leaves no steer in the queue but one that was sent while it asked
\* for the last time, whatever the model and the deadline do: see SteerNotStranded.
THEOREM SteerNotStrandedAlways == Spec => SteerNotStranded
<1>1. ASSUME SeqsOK, SteersSeen, [Next]_vars, Stops PROVE Elems(steeringQ) \subseteq late
  <2>1. DrainFollowUps
    BY <1>1 DEF Stops, Next, LoopStep, StartStep, UserStep, EndsAtDeadline, InitialPoll, BeginTurn,
       BeforeYield, Inject, ReuseDirective, SoftRequirement, NoRequirement, ModelThrows,
       ModelStopsRun, HarmonyRetries, HarmonyGivesUp, Escalate, GiveUpSoft, RunTools, ToolsReturn,
       PairUnrun, NoCalls, Accept, HookThrows, TurnEnded, BoundaryPoll, MidWorkAsides, LatePoll,
       LateAsides, Prompt, ContinueWithSteering, ContinueWithFollowUp, ContinueAsIs, Steer, FollowUp,
       Aside, PopLastSteer, PopLastFollowUp, Abort, DeadlinePasses, DeadlineTimer, vars, control
  <2>2. pending' = <<>> /\ at = "followUps" /\ ~aborted
    BY <1>1, <2>1 DEF DrainFollowUps, Stops
  <2>3. pending = <<>>
    <3>1. PICK d : d = Dequeue(followUpQ, FollowUpAll) /\ pending' = pending \o d[1]
      BY <2>1, <2>2 DEF DrainFollowUps, PollFollowUps
    <3>2. d[1] \in Seq(Msgs) /\ pending \in Seq(Msgs)
      BY <1>1, <3>1, DequeueFlows DEF SeqsOK
    <3> QED  BY <2>2, <3>1, <3>2, EmptyPoll
  <2> QED  BY <1>1, <2>2, <2>3 DEF SteersSeen
<1>2. Spec => []SteersSeen
  <2>1. ControlInv => FlagsOK
    BY DEF ControlInv
  <2>2. MessagesInv => SeqsOK
    BY DEF MessagesInv
  <2> QED  BY <2>1, <2>2, SteersSeenInit, SteersSeenStep, ControlAlways, MessagesAlways, PTL DEF Spec
<1>3. MessagesInv /\ SteersSeen /\ [Next]_vars => (Stops => Elems(steeringQ) \subseteq late)
  BY <1>1 DEF MessagesInv
<1> QED  BY <1>2, <1>3, MessagesAlways, PTL DEF Spec, SteerNotStranded

LEMMA AnsweredStep ==
  ASSUME HarmonyModel = FALSE
  PROVE  (Init => Answered) /\ (FlagsOK /\ Answered /\ [Next]_vars => Answered')
<1>1. Init => Answered
  BY DEF Init, Answered
<1>2. ASSUME FlagsOK, Answered, [Next]_vars PROVE Answered'
  <2> USE DEF Answered, control, signals, transcript
  <2>1. CASE InitialPoll \/ BoundaryPoll \/ MidWorkAsides
    BY <1>2, <2>1 DEF InitialPoll, BoundaryPoll, MidWorkAsides
  <2>2. CASE LatePoll \/ LateAsides \/ DrainFollowUps
    BY <1>2, <2>2 DEF LatePoll, LateAsides, DrainFollowUps, EndRun
  <2>3. CASE EndsAtDeadline \/ BeginTurn \/ BeforeYield \/ Inject \/ HookThrows \/ TurnEnded
    BY <1>2, <2>3 DEF EndsAtDeadline, BeginTurn, BeforeYield, Inject, HookThrows, TurnEnded, Fail, EndRun
  <2>4. CASE ReuseDirective \/ SoftRequirement \/ NoRequirement
    BY <1>2, <2>4 DEF ReuseDirective, SoftRequirement, NoRequirement, CallModel
  <2>5. CASE ModelThrows \/ ModelStopsRun \/ HarmonyRetries \/ HarmonyGivesUp
    BY <1>2, <2>5 DEF ModelThrows, ModelStopsRun, HarmonyRetries, HarmonyGivesUp, Fail, EndRun
  <2>6. CASE Escalate \/ GiveUpSoft \/ RunTools \/ ToolsReturn
    BY <1>2, <2>6 DEF Escalate, GiveUpSoft, RunTools, ToolsReturn, Fail, EndRun
  <2>7. CASE PairUnrun
    BY <1>2, <2>7 DEF PairUnrun, FlagsOK
  <2>8. CASE NoCalls
    BY <1>2, <2>8 DEF NoCalls
  <2>9. CASE StartStep
    BY <1>2, <2>9 DEF StartStep, Prompt, ContinueWithSteering, ContinueWithFollowUp, ContinueAsIs, StartRun
  <2>10. CASE UserStep
    BY <1>2, <2>10 DEF UserStep, Steer, FollowUp, Aside, PopLastSteer, PopLastFollowUp, Abort
  <2>11. CASE DeadlinePasses \/ DeadlineTimer \/ UNCHANGED vars
    BY <1>2, <2>11 DEF DeadlinePasses, DeadlineTimer, vars
  <2> QED
    BY <1>2, <2>1, <2>2, <2>3, <2>4, <2>5, <2>6, <2>7, <2>8, <2>9, <2>10, <2>11 DEF Next, LoopStep
<1> QED  BY <1>1, <1>2

\* Unless a Harmony leak may have the loop sample a turn again, a run that decides to stop has
\* answered and leaves no steer behind that it could have seen: see StopsComplete.
THEOREM StopsCompleteAlways ==
  ASSUME HarmonyModel = FALSE
  PROVE  Spec => StopsComplete
<1>1. ControlInv => FlagsOK
  BY DEF ControlInv
<1>2. Spec => []Answered
  BY <1>1, AnsweredStep, ControlAlways, PTL DEF Spec
<1>3. ASSUME FlagsOK, Answered, [Next]_vars, Stops PROVE lastAssistant
  <2>1. DrainFollowUps
    BY <1>3 DEF Stops, Next, LoopStep, StartStep, UserStep, EndsAtDeadline, InitialPoll, BeginTurn,
       BeforeYield, Inject, ReuseDirective, SoftRequirement, NoRequirement, ModelThrows,
       ModelStopsRun, HarmonyRetries, HarmonyGivesUp, Escalate, GiveUpSoft, RunTools, ToolsReturn,
       PairUnrun, NoCalls, Accept, HookThrows, TurnEnded, BoundaryPoll, MidWorkAsides, LatePoll,
       LateAsides, Prompt, ContinueWithSteering, ContinueWithFollowUp, ContinueAsIs, Steer, FollowUp,
       Aside, PopLastSteer, PopLastFollowUp, Abort, DeadlinePasses, DeadlineTimer, vars, control
  <2> QED  BY <1>3, <2>1 DEF DrainFollowUps, Answered, Stops
<1>4. FlagsOK /\ Answered /\ [Next]_vars => (Stops => lastAssistant)
  BY <1>3
<1>5. Spec => StopsAnswered
  BY <1>1, <1>2, <1>4, ControlAlways, PTL DEF Spec, StopsAnswered
<1>6. Spec => SteerNotStranded
  BY SteerNotStrandedAlways
<1> QED  BY <1>5, <1>6 DEF StopsComplete
=============================================================================
