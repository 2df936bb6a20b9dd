---------------------------- MODULE ModelTurn_proofs ----------------------------
(***************************************************************************)
(* Proofs about one turn of the model: the call itself (ModelCall), for    *)
(* every number of tool calls, every length of the stream's queue, and     *)
(* models with and without Harmony mitigation; and the choice forced on it *)
(* (ToolChoiceQueue), for every number of forces, prompts, turns, aborts   *)
(* and runs that throw.                                                    *)
(***************************************************************************)
EXTENDS ModelCall, ToolChoiceQueue, FiniteSetTheorems, SequenceTheorems, WellFoundedInduction, TLAPS

USE DEF Calls, Ev, Message, NoAnswer, Over

-----------------------------------------------------------------------------
(* The invariant.                                                          *)

\* What was shown of the message, at each await and at the end of the call.
FrameInv ==
    /\ at \notin {"returned", "leaked"} =>
        /\ ends = 0
        /\ starts = IF added THEN 1 ELSE 0
        /\ context = IF added THEN "partial" ELSE "none"
        /\ answer = NoAnswer
    /\ at = "returned" =>
        /\ starts = ends
        /\ starts = 1 \/ (source = "ended" /\ queue = <<>>)
        /\ context = "final" <=> starts = 1
    /\ at = "leaked" => context = "none" /\ starts = ends /\ answer.stop = "none"
    /\ at = "result" => source = "ended" /\ queue = <<>>

\* A toolcall_end exists only for a tool call whose arguments arrived, wherever it
\* is on its way to completedToolCallIds.
EndsInv ==
    /\ \A k \in 1 .. Len(queue) : queue[k].type = "callEnd" => queue[k].call \in received
    /\ event.type = "callEnd" => event.call \in received
    /\ completed \subseteq received

Inv == TypeOK /\ FrameInv /\ EndsInv /\ OnlyCompleteCalls

LEMMA InitInv == Init => Inv
<1> SUFFICES ASSUME Init PROVE Inv
  OBVIOUS
<1>1. queue \in Seq(Event) /\ Len(queue) = 0
  BY DEF Init
<1>2. event \in Event
  BY BoundsAssumption DEF Init, Event
<1>3. TypeOK
  <2>1. begun \in 0 .. MaxCalls /\ built \subseteq 1 .. begun /\ received \subseteq Calls
    BY BoundsAssumption DEF Init
  <2>2. answer \in Message
    BY DEF Init
  <2>3. starts \in 0 .. 1 /\ ends \in 0 .. 1 /\ completed \subseteq Calls
    BY DEF Init
  <2> QED
    BY <1>1, <1>2, <2>1, <2>2, <2>3 DEF Init, TypeOK
<1>4. FrameInv
  BY DEF Init, FrameInv
<1>5. EndsInv
  BY <1>1 DEF Init, EndsInv
<1> QED
  BY <1>3, <1>4, <1>5 DEF Inv, OnlyCompleteCalls, Init

-----------------------------------------------------------------------------
(* The provider's steps.                                                   *)

\* A pushed event is typed, and a pushed toolcall_end belongs to a received call.
LEMMA PushInv ==
  ASSUME Inv, NEW e \in Event, Push(e), received \subseteq received',
         e.type = "callEnd" => e.call \in received'
  PROVE  /\ queue' \in Seq(Event)
         /\ \A k \in 1 .. Len(queue') : queue'[k].type = "callEnd" => queue'[k].call \in received'
<1>1. queue \in Seq(Event) /\ queue' = Append(queue, e)
  BY DEF Inv, TypeOK, Push
<1>2. \A k \in 1 .. Len(queue) : queue[k].type = "callEnd" => queue[k].call \in received
  BY DEF Inv, EndsInv
<1>3. ASSUME NEW k \in 1 .. Len(queue')
      PROVE  queue'[k] = e \/ (k \in 1 .. Len(queue) /\ queue'[k] = queue[k])
  BY <1>1
<1> QED
  BY <1>1, <1>2, <1>3

\* While the call is under way there is no answer yet, so the provider is free to
\* change its message; afterwards it is not looked at.
LEMMA ProviderKeepsInv ==
  ASSUME Inv, ProviderStep
  PROVE  Inv'
<1> USE DEF output, reading
<1>1. at \notin Over /\ source = "open"
  BY DEF ProviderStep, ProviderStarts, ProviderUpdates, ProviderEndsCall,
         ProviderFinishes, ProviderBreaksOff, Push
<1>2. at # "result" /\ answer.stop = "none"
  BY <1>1 DEF Inv, FrameInv
<1>3. FrameInv' /\ OnlyCompleteCalls'
  <2>1. UNCHANGED <<at, output, added>>
    BY DEF ProviderStep, ProviderStarts, ProviderUpdates, ProviderEndsCall,
           ProviderFinishes, ProviderBreaksOff
  <2> QED
    BY <1>1, <1>2, <2>1 DEF Inv, FrameInv, OnlyCompleteCalls
<1>4. TypeOK' /\ EndsInv'
  <2>1. CASE ProviderStarts
    <3>1. Ev("start") \in Event
      BY BoundsAssumption DEF Event
    <3>2. /\ queue' \in Seq(Event)
          /\ \A k \in 1 .. Len(queue') : queue'[k].type = "callEnd" => queue'[k].call \in received'
      BY <2>1, <3>1, PushInv DEF ProviderStarts
    <3> QED
      BY <2>1, <3>2 DEF ProviderStarts, Inv, TypeOK, EndsInv
  <2>2. CASE ProviderUpdates
    <3>1. Ev("update") \in Event
      BY BoundsAssumption DEF Event
    <3>2. /\ queue' \in Seq(Event)
          /\ \A k \in 1 .. Len(queue') : queue'[k].type = "callEnd" => queue'[k].call \in received'
      BY <2>2, <3>1, PushInv DEF ProviderUpdates
    <3>3. begun' \in 0 .. MaxCalls /\ built' \subseteq 1 .. begun'
      <4>1. begun \in 0 .. MaxCalls /\ built \subseteq 1 .. begun
        BY DEF Inv, TypeOK
      <4>2. CASE UNCHANGED <<begun, built>>
        BY <4>1, <4>2
      <4>3. CASE begun < MaxCalls /\ begun' = begun + 1 /\ built' = built \cup {begun + 1}
        <5>1. begun' \in 0 .. MaxCalls
          BY <4>1, <4>3, BoundsAssumption
        <5>2. ASSUME NEW c \in built' PROVE c \in 1 .. begun'
          BY <4>1, <4>3, <5>2, BoundsAssumption
        <5> QED
          BY <5>1, <5>2
      <4> QED
        BY <2>2, <4>2, <4>3 DEF ProviderUpdates
    <3> QED
      BY <2>2, <3>2, <3>3 DEF ProviderUpdates, Inv, TypeOK, EndsInv
  <2>3. ASSUME NEW c \in Calls, ProviderEndsCall(c)
        PROVE  TypeOK' /\ EndsInv'
    <3>1. [type |-> "callEnd", call |-> c] \in Event
      BY BoundsAssumption DEF Event
    <3>2. /\ queue' \in Seq(Event)
          /\ \A k \in 1 .. Len(queue') : queue'[k].type = "callEnd" => queue'[k].call \in received'
      BY <2>3, <3>1, PushInv DEF ProviderEndsCall
    <3> QED
      BY <2>3, <3>2 DEF ProviderEndsCall, Inv, TypeOK, EndsInv
  <2>4. CASE ProviderFinishes
    <3>1. Ev("terminal") \in Event
      BY BoundsAssumption DEF Event
    <3>2. /\ queue' \in Seq(Event)
          /\ \A k \in 1 .. Len(queue') : queue'[k].type = "callEnd" => queue'[k].call \in received'
      BY <2>4, <3>1, PushInv DEF ProviderFinishes
    <3> QED
      BY <2>4, <3>2 DEF ProviderFinishes, Inv, TypeOK, EndsInv
  <2>5. CASE ProviderBreaksOff
    BY <2>5 DEF ProviderBreaksOff, Inv, TypeOK, EndsInv
  <2> QED
    BY <2>1, <2>2, <2>3, <2>4, <2>5 DEF ProviderStep
<1> QED
  BY <1>3, <1>4 DEF Inv

-----------------------------------------------------------------------------
(* The ways a call ends.                                                   *)

\* The message is committed while the call is under way.
LEMMA CommitKeepsInv ==
  ASSUME Inv, at \notin Over, NEW message \in Message, Commit(message),
         UNCHANGED <<provider, event, added, completed, aborted>>, trailing' \in BOOLEAN,
         message.stop \in {"error", "aborted"} /\ ~trailing' =>
             message.calls \subseteq built \cap received
  PROVE  Inv'
<1> USE DEF provider
<1>1. starts' = 1 /\ ends' = 1
  BY DEF Inv, TypeOK, FrameInv, Commit
<1>2. TypeOK'
  BY <1>1 DEF Inv, TypeOK, Commit
<1>3. FrameInv'
  BY <1>1 DEF Inv, FrameInv, Commit
<1>4. EndsInv' /\ OnlyCompleteCalls'
  BY DEF Inv, EndsInv, OnlyCompleteCalls, Commit
<1> QED
  BY <1>2, <1>3, <1>4 DEF Inv

\* What an interrupted message keeps was in the message and had arrived.
LEMMA RetainedComplete ==
  ASSUME Inv
  PROVE  Retained(built) \subseteq built \cap received
  BY DEF Inv, EndsInv, Retained

LEMMA FinishAbortedKeepsInv ==
  ASSUME Inv, at \notin Over, FinishAborted
  PROVE  Inv'
<1> DEFINE message == [stop |-> "aborted", calls |-> IF added THEN Retained(built) ELSE {}]
<1>1. message.calls \subseteq built \cap received
  BY RetainedComplete
<1>2. message \in Message
  BY <1>1 DEF Inv, TypeOK
<1>3. Commit(message) /\ UNCHANGED <<provider, event, reading, aborted>>
  BY DEF FinishAborted
<1>4. UNCHANGED <<added, completed, trailing>> /\ trailing \in BOOLEAN
  BY <1>3 DEF reading, Inv, TypeOK
<1> HIDE DEF message
<1> QED
  BY <1>1, <1>2, <1>3, <1>4, CommitKeepsInv

LEMMA DiscardLeakKeepsInv ==
  ASSUME Inv, at \notin Over, DiscardLeak
  PROVE  Inv'
<1> USE DEF provider
<1>1. ends' = starts /\ ends' \in 0 .. 1
  BY DEF Inv, TypeOK, FrameInv, DiscardLeak
<1>2. TypeOK'
  BY <1>1 DEF Inv, TypeOK, DiscardLeak
<1>3. FrameInv'
  BY <1>1 DEF Inv, FrameInv, DiscardLeak
<1> QED
  BY <1>2, <1>3 DEF Inv, EndsInv, OnlyCompleteCalls, DiscardLeak

LEMMA ThrowKeepsInv ==
  ASSUME Inv, at \notin Over, Throw
  PROVE  Inv'
  BY DEF Inv, TypeOK, FrameInv, EndsInv, OnlyCompleteCalls, Throw, provider, output, reading

-----------------------------------------------------------------------------
(* The steps of streamAssistantResponse.                                   *)

LEMMA ReadsEventKeepsInv ==
  ASSUME Inv, ReadsEvent
  PROVE  Inv'
<1> USE DEF output, reading
<1>1. queue \in Seq(Event) /\ queue # <<>>
  BY DEF Inv, TypeOK, ReadsEvent
<1>2. event' \in Event /\ queue' \in Seq(Event)
  BY <1>1 DEF ReadsEvent
<1>3. event' = queue[1] /\ 1 \in 1 .. Len(queue)
  BY <1>1 DEF ReadsEvent
<1>4. ASSUME NEW k \in 1 .. Len(queue')
      PROVE  k + 1 \in 1 .. Len(queue) /\ queue'[k] = queue[k + 1]
  BY <1>1 DEF ReadsEvent
<1>5. TypeOK'
  BY <1>2 DEF Inv, TypeOK, ReadsEvent
<1>6. EndsInv'
  BY <1>3, <1>4 DEF Inv, EndsInv, ReadsEvent
<1>7. FrameInv' /\ OnlyCompleteCalls'
  BY DEF Inv, FrameInv, OnlyCompleteCalls, ReadsEvent
<1> QED
  BY <1>5, <1>6, <1>7 DEF Inv

\* Steps that only move the call to another await.
LEMMA MoveKeepsInv ==
  ASSUME Inv, at \notin Over, UNCHANGED <<provider, event, output, reading, aborted>>,
         \/ at' \in {"next", "transform", "yield"}
         \/ at' = "result" /\ source = "ended" /\ queue = <<>>
  PROVE  Inv'
  BY DEF Inv, TypeOK, FrameInv, EndsInv, OnlyCompleteCalls, provider, output, reading

LEMMA AppliesStartKeepsInv ==
  ASSUME Inv, AppliesStart
  PROVE  Inv'
<1> USE DEF provider
<1>1. starts' = 1
  BY DEF Inv, TypeOK, FrameInv, AppliesStart
<1>2. TypeOK'
  <2>1. completed' \subseteq Calls
    BY DEF Inv, TypeOK, AppliesStart
  <2>2. starts' \in 0 .. 1 /\ ends' \in 0 .. 1
    BY <1>1 DEF Inv, TypeOK, AppliesStart
  <2> QED
    BY <2>1, <2>2 DEF Inv, TypeOK, AppliesStart
<1>3. FrameInv'
  BY <1>1 DEF Inv, FrameInv, AppliesStart
<1> QED
  BY <1>2, <1>3 DEF Inv, EndsInv, OnlyCompleteCalls, AppliesStart

LEMMA AppliesUpdateKeepsInv ==
  ASSUME Inv, AppliesUpdate
  PROVE  Inv'
<1> USE DEF provider, output
<1>1. completed' \subseteq received
  BY DEF Inv, EndsInv, AppliesUpdate
<1>2. TypeOK'
  BY <1>1 DEF Inv, TypeOK, AppliesUpdate
<1>3. FrameInv'
  BY DEF Inv, FrameInv, AppliesUpdate
<1> QED
  BY <1>1, <1>2, <1>3 DEF Inv, EndsInv, OnlyCompleteCalls, AppliesUpdate

LEMMA CommitsFinalKeepsInv ==
  ASSUME Inv, CommitsFinal
  PROVE  Inv'
<1> DEFINE message == [stop |-> stop, calls |-> IF stop = "error" THEN Retained(built) ELSE built]
<1>1. at \notin Over
  BY DEF CommitsFinal
<1>2. CASE Throw
  BY <1>1, <1>2, ThrowKeepsInv
<1>3. CASE Commit(message) /\ UNCHANGED <<provider, event, reading, aborted>>
  <2>1. Retained(built) \subseteq built \cap received
    BY RetainedComplete
  <2>2. built \subseteq Calls /\ stop \in {"stop", "error"}
    BY BoundsAssumption DEF Inv, TypeOK
  <2>3. /\ message \in Message
        /\ message.stop \in {"error", "aborted"} => message.calls \subseteq built \cap received
    BY <2>1, <2>2
  <2>4. UNCHANGED <<added, completed, trailing>> /\ trailing \in BOOLEAN
    BY <1>3 DEF reading, Inv, TypeOK
  <2> HIDE DEF message
  <2> QED
    BY <1>1, <1>3, <2>3, <2>4, CommitKeepsInv
<1> QED
  BY <1>2, <1>3 DEF CommitsFinal

LEMMA CommitsTrailingKeepsInv ==
  ASSUME Inv, CommitsTrailing
  PROVE  Inv'
<1>1. at \notin Over /\ source = "ended" /\ queue = <<>>
  BY DEF CommitsTrailing, Inv, FrameInv
<1>2. CASE Throw
  BY <1>1, <1>2, ThrowKeepsInv
<1>3. CASE DiscardLeak
  BY <1>1, <1>3, DiscardLeakKeepsInv
<1>4. ASSUME NEW message \in Message, trailing' = TRUE, Commit(message),
             UNCHANGED <<provider, event, added, completed, aborted>>
      PROVE  Inv'
  BY <1>1, <1>4, CommitKeepsInv
<1>5. ASSUME NEW message \in Message, trailing' = TRUE, ~added, answer' = message, at' = "returned",
             UNCHANGED <<provider, event, context, starts, ends, added, completed, aborted>>
      PROVE  Inv'
  BY <1>1, <1>5 DEF Inv, TypeOK, FrameInv, EndsInv, OnlyCompleteCalls, provider
<1>6. ASSUME NEW s \in {"stop", "error", "aborted"}
      PROVE  [stop |-> s, calls |-> built] \in Message
  BY BoundsAssumption DEF Inv, TypeOK
<1> QED
  BY <1>2, <1>3, <1>4, <1>5, <1>6 DEF CommitsTrailing

LEMMA ConsumeKeepsInv ==
  ASSUME Inv, Consume
  PROVE  Inv'
<1>1. CASE RequestThrows
  BY <1>1, ThrowKeepsInv DEF RequestThrows
<1>2. CASE StreamOpens
  BY <1>2, FinishAbortedKeepsInv, MoveKeepsInv DEF StreamOpens
<1>3. CASE AbortWins
  BY <1>3, FinishAbortedKeepsInv DEF AbortWins
<1>4. CASE ReadsEvent
  BY <1>4, ReadsEventKeepsInv
<1>5. CASE StreamThrows
  BY <1>5, ThrowKeepsInv DEF StreamThrows
<1>6. CASE StreamEnds
  BY <1>6, MoveKeepsInv DEF StreamEnds
<1>7. CASE HandlesTerminal
  BY <1>7, DiscardLeakKeepsInv, MoveKeepsInv DEF HandlesTerminal
<1>8. CASE HandlesEvent
  BY <1>8, FinishAbortedKeepsInv, MoveKeepsInv DEF HandlesEvent
<1>9. CASE CommitsFinal
  BY <1>9, CommitsFinalKeepsInv
<1>10. CASE AppliesStart
  BY <1>10, AppliesStartKeepsInv
<1>11. CASE AppliesUpdate
  BY <1>11, AppliesUpdateKeepsInv
<1>12. CASE CommitsTrailing
  BY <1>12, CommitsTrailingKeepsInv
<1> QED
  BY <1>1, <1>2, <1>3, <1>4, <1>5, <1>6, <1>7, <1>8, <1>9, <1>10, <1>11, <1>12 DEF Consume

LEMMA NextInv == Inv /\ [Next]_vars => Inv'
<1> SUFFICES ASSUME Inv, [Next]_vars PROVE Inv'
  OBVIOUS
<1>1. CASE ProviderStep
  BY <1>1, ProviderKeepsInv
<1>2. CASE Abort
  BY <1>2 DEF Abort, Inv, TypeOK, FrameInv, EndsInv, OnlyCompleteCalls, provider, output, reading
<1>3. CASE Consume
  BY <1>3, ConsumeKeepsInv
<1>4. CASE UNCHANGED vars
  BY <1>4 DEF vars, Inv, TypeOK, FrameInv, EndsInv, OnlyCompleteCalls, provider, output, reading
<1> QED
  BY <1>1, <1>2, <1>3, <1>4 DEF Next, Terminated

LEMMA InvAlways == Spec => []Inv
  BY InitInv, NextInv, PTL DEF Spec

-----------------------------------------------------------------------------
(* Theorems.                                                               *)

\* Every state of a call has the declared types; in particular a message is
\* announced and closed once at most.
THEOREM CallTypeCorrect == Spec => []TypeOK
<1>1. Inv => TypeOK
  BY DEF Inv
<1> QED
  BY <1>1, InvAlways, PTL

\* A returned message was announced and closed exactly once and is in the context,
\* on each of the ways streamAssistantResponse ends.
THEOREM FramedAlways == Spec => []Framed
<1>1. Inv => Framed
  BY DEF Inv, TypeOK, FrameInv, Framed
<1> QED
  BY <1>1, InvAlways, PTL

\* A call discarded for a Harmony leak leaves nothing in the context.
THEOREM LeakLeavesNoTraceAlways == Spec => []LeakLeavesNoTrace
<1>1. Inv => LeakLeavesNoTrace
  BY DEF Inv, FrameInv, LeakLeavesNoTrace
<1> QED
  BY <1>1, InvAlways, PTL

\* A throw leaves one announced message open at most, and its partial form behind.
THEOREM ThrowLeavesOpenAlways == Spec => []ThrowLeavesOpen
<1>1. Inv => ThrowLeavesOpen
  BY DEF Inv, FrameInv, ThrowLeavesOpen
<1> QED
  BY <1>1, InvAlways, PTL

\* Listeners, the context and the caller agree on every way out of the call, a throw
\* included.
THEOREM CleanEndAlways == Spec => []CleanEnd
BY FramedAlways, LeakLeavesNoTraceAlways, ThrowLeavesOpenAlways, PTL DEF CleanEnd

\* An interrupted message keeps only tool calls that arrived completely, however
\* far the provider's message object is ahead of the events that were read.  The
\* result of a stream that ended without a terminal event is not claimed about.
THEOREM OnlyCompleteCallsAlways == Spec => []OnlyCompleteCalls
<1>1. Inv => OnlyCompleteCalls
  BY DEF Inv
<1> QED
  BY <1>1, InvAlways, PTL

-----------------------------------------------------------------------------
(* The choices forced on a turn: the invariant.                            *)

DirectiveType == [kind : Kinds, id : Nat, requeued : BOOLEAN, left : Seq(Choices)]

\* What a directive's generator may have left.
Lefts == {<<>>, <<"tool">>, <<"none">>, <<"tool", "none">>}

\* The directive d holds the choice c of the k-th force; one in the queue q does.
OfForce(y) == y.kind = "user-force"
Holds(d, k, c) == OfForce(d) /\ d.id = k /\ \E j \in DOMAIN d.left : d.left[j] = c
Has(q, k, c) == \E n \in DOMAIN q : Holds(q[n], k, c)

\* Each choice of the fc forces so far is in one directive at most, the tool before "none".
QueueOK(q, fc) ==
    /\ \A n \in DOMAIN q : q[n].left \in Lefts /\ (OfForce(q[n]) => q[n].id \in 1 .. fc)
    /\ \A k \in 1 .. fc, c \in Choices, m, n \in DOMAIN q :
          Holds(q[m], k, c) /\ Holds(q[n], k, c) => m = n
    /\ \A k \in 1 .. fc, m, n \in DOMAIN q :
          Holds(q[m], k, "tool") /\ Holds(q[n], k, "none") => m <= n

-----------------------------------------------------------------------------
(* The choices forced on a turn: the queue's operations.                   *)

LEMMA LeftChoices ==
    ASSUME NEW l \in Lefts
    PROVE  /\ l \in Seq(Choices)
           /\ \A j \in DOMAIN l : l[j] \in Choices
           /\ l # <<>> =>
                 /\ Head(l) \in Choices /\ Tail(l) \in Lefts
                 /\ \E j \in DOMAIN l : l[j] = Head(l)
                 /\ \A c \in Choices : (\E j \in DOMAIN Tail(l) : Tail(l)[j] = c)
                                          <=> c # Head(l) /\ \E j \in DOMAIN l : l[j] = c
                 /\ Head(l) = "none" => ~ \E j \in DOMAIN l : l[j] = "tool"
<1>1. CASE l = <<>>
  BY <1>1 DEF Choices
<1>2. CASE l = <<"tool">>
  <2>1. /\ DOMAIN l = {1} /\ l[1] = "tool" /\ Head(l) = "tool" /\ l # <<>>
        /\ Tail(l) = <<>> /\ DOMAIN Tail(l) = {}
    BY <1>2
  <2> QED  BY <1>2, <2>1 DEF Choices, Lefts
<1>3. CASE l = <<"none">>
  <2>1. /\ DOMAIN l = {1} /\ l[1] = "none" /\ Head(l) = "none" /\ l # <<>>
        /\ Tail(l) = <<>> /\ DOMAIN Tail(l) = {}
    BY <1>3
  <2> QED  BY <1>3, <2>1 DEF Choices, Lefts
<1>4. CASE l = <<"tool", "none">>
  <2>1. /\ DOMAIN l = {1, 2} /\ l[1] = "tool" /\ l[2] = "none" /\ Head(l) = "tool" /\ l # <<>>
        /\ Tail(l) = <<"none">> /\ DOMAIN Tail(l) = {1} /\ Tail(l)[1] = "none"
    BY <1>4
  <2> QED  BY <1>4, <2>1 DEF Choices, Lefts
<1> QED  BY <1>1, <1>2, <1>3, <1>4 DEF Lefts

\* A queue whose directives stem from those of another, in the same order, and hold no more.
LEMMA Derived ==
    ASSUME NEW fc \in Nat, NEW q \in Seq(DirectiveType), NEW r \in Seq(DirectiveType), QueueOK(q, fc),
           NEW g \in [DOMAIN r -> DOMAIN q],
           \A m, n \in DOMAIN r : m < n => g[m] < g[n],
           \A n \in DOMAIN r : /\ r[n].left \in Lefts /\ r[n].kind = q[g[n]].kind /\ r[n].id = q[g[n]].id
                               /\ \A k \in 1 .. fc, c \in Choices : Holds(r[n], k, c) => Holds(q[g[n]], k, c)
    PROVE  QueueOK(r, fc)
<1>1. DOMAIN r \subseteq Nat /\ \A n \in DOMAIN r : g[n] \in Nat
  <2>1. DOMAIN r = 1 .. Len(r) /\ DOMAIN q = 1 .. Len(q) /\ Len(r) \in Nat /\ Len(q) \in Nat
    OBVIOUS
  <2>2. \A n \in DOMAIN r : g[n] \in DOMAIN q
    OBVIOUS
  <2> QED  BY <2>1, <2>2
<1>2. ASSUME NEW m \in DOMAIN r, NEW n \in DOMAIN r
      PROVE  (g[m] <= g[n] => m <= n) /\ (g[m] = g[n] => m = n)
  <2>1. m \in Nat /\ n \in Nat /\ g[m] \in Nat /\ g[n] \in Nat
    BY <1>1
  <2>2. (n < m => g[n] < g[m]) /\ (m < n => g[m] < g[n])
    OBVIOUS
  <2> QED  BY <2>1, <2>2
<1>3. \A m, n \in DOMAIN r : (g[m] <= g[n] => m <= n) /\ (g[m] = g[n] => m = n)
  BY <1>2
<1>4. {"tool", "none"} \subseteq Choices
  BY DEF Choices
<1>5. \A n \in DOMAIN r : r[n].left \in Lefts /\ (OfForce(r[n]) => r[n].id \in 1 .. fc)
  BY DEF QueueOK, OfForce
<1>6. \A k \in 1 .. fc, c \in Choices, m, n \in DOMAIN r :
          Holds(r[m], k, c) /\ Holds(r[n], k, c) => m = n
  BY <1>3 DEF QueueOK
<1>7. \A k \in 1 .. fc, m, n \in DOMAIN r :
          Holds(r[m], k, "tool") /\ Holds(r[n], k, "none") => m <= n
  BY <1>3, <1>4 DEF QueueOK
<1> QED  BY <1>5, <1>6, <1>7 DEF QueueOK

\* Pushing a directive: a todo, or the next force's.
LEMMA Pushed ==
    ASSUME NEW fc \in Nat, NEW q \in Seq(DirectiveType), QueueOK(q, fc), NEW d \in DirectiveType,
           d.left \in Lefts, NEW e \in {fc, fc + 1}, OfForce(d) => d.id = e /\ e = fc + 1
    PROVE  /\ Append(q, d) \in Seq(DirectiveType) /\ QueueOK(Append(q, d), e)
           /\ \A k \in Nat, c \in Choices : Has(Append(q, d), k, c) <=> Has(q, k, c) \/ Holds(d, k, c)
<1>1. PICK r : r = Append(q, d)
  OBVIOUS
<1>2. /\ r \in Seq(DirectiveType) /\ DOMAIN r = 1 .. Len(q) + 1 /\ DOMAIN q = 1 .. Len(q) /\ Len(q) \in Nat
      /\ r[Len(q) + 1] = d /\ \A n \in 1 .. Len(q) : r[n] = q[n]
  BY <1>1
<1>3. \A n \in DOMAIN r : n \in DOMAIN q \/ n = Len(q) + 1
  BY <1>2
<1>4. \A n \in DOMAIN q : OfForce(q[n]) => q[n].id \in 1 .. fc
  BY DEF QueueOK
<1>5. \A n \in DOMAIN q, k \in Nat, c \in Choices : Holds(q[n], k, c) => k \in 1 .. fc
  BY <1>4 DEF Holds
<1>6. \A k \in Nat, c \in Choices : Holds(d, k, c) => k = fc + 1
  BY DEF Holds
<1>7. \A n \in DOMAIN r : r[n].left \in Lefts /\ (OfForce(r[n]) => r[n].id \in 1 .. e)
  BY <1>2, <1>3, <1>4 DEF QueueOK
<1>8. ASSUME NEW k \in 1 .. e, NEW c \in Choices, NEW m \in DOMAIN r, NEW n \in DOMAIN r,
             Holds(r[m], k, c), Holds(r[n], k, c)
      PROVE  m = n
  BY <1>2, <1>3, <1>5, <1>6, <1>8 DEF QueueOK
<1>9. ASSUME NEW k \in 1 .. e, NEW m \in DOMAIN r, NEW n \in DOMAIN r,
             Holds(r[m], k, "tool"), Holds(r[n], k, "none")
      PROVE  m <= n
  <2>1. "tool" \in Choices /\ "none" \in Choices
    BY DEF Choices
  <2>2. CASE m \in DOMAIN q
    BY <1>2, <1>3, <1>5, <1>6, <1>9, <2>1, <2>2 DEF QueueOK
  <2>3. CASE m = Len(q) + 1
    <3>1. k = fc + 1
      BY <1>2, <1>6, <1>9, <2>1, <2>3
    <3>2. n \notin DOMAIN q
      BY <1>2, <1>5, <1>9, <2>1, <3>1
    <3> QED  BY <1>2, <1>3, <2>3, <3>2
  <2> QED  BY <1>3, <2>2, <2>3
<1>10. QueueOK(r, e)
  BY <1>7, <1>8, <1>9 DEF QueueOK
<1>11. \A k \in Nat, c \in Choices : Has(r, k, c) <=> Has(q, k, c) \/ Holds(d, k, c)
  BY <1>2, <1>3 DEF Has
<1> QED  BY <1>1, <1>2, <1>10, <1>11

\* A rejected choice of the user is the first to be replayed, no other one is.
LEMMA Replayed ==
    ASSUME NEW fc \in Nat, NEW q \in Seq(DirectiveType), QueueOK(q, fc), NEW y,
           OfForce(y) => /\ y.id \in 1 .. fc /\ y.choice \in Choices /\ ~Has(q, y.id, y.choice)
                         /\ y.choice = "none" => ~Has(q, y.id, "tool")
    PROVE  /\ Rejected(q, y) \in Seq(DirectiveType) /\ QueueOK(Rejected(q, y), fc)
           /\ \A k \in Nat, c \in Choices :
                 Has(Rejected(q, y), k, c) <=> Has(q, k, c) \/ (OfForce(y) /\ y.id = k /\ y.choice = c)
<1>1. CASE ~OfForce(y)
  BY <1>1 DEF OfForce, Rejected
<1>2. CASE OfForce(y)
  <2>1. PICK d : d = Directive(y.kind, y.id, TRUE, <<y.choice>>)
    OBVIOUS
  <2>2. /\ d \in DirectiveType /\ OfForce(d) /\ d.id = y.id
        /\ d.left = <<y.choice>> /\ d.left \in Lefts
    <3>1. y.choice \in {"tool", "none"} /\ y.id \in Nat /\ y.kind = "user-force"
      BY <1>2 DEF Choices, OfForce
    <3>2. <<y.choice>> \in Seq(Choices) /\ <<y.choice>> \in Lefts
      BY <3>1 DEF Choices, Lefts
    <3> QED  BY <2>1, <3>1, <3>2 DEF Directive, DirectiveType, Kinds, OfForce
  <2>3. \A k \in Nat, c \in Choices : Holds(d, k, c) <=> y.id = k /\ y.choice = c
    BY <2>2 DEF Holds
  <2>4. PICK r : r = <<d>> \o q
    OBVIOUS
  <2>5. /\ r \in Seq(DirectiveType) /\ DOMAIN r = 1 .. Len(q) + 1 /\ DOMAIN q = 1 .. Len(q) /\ Len(q) \in Nat
        /\ r[1] = d /\ \A n \in 2 .. Len(q) + 1 : r[n] = q[n - 1]
    BY <2>2, <2>4
  <2>6. \A n \in DOMAIN r : n = 1 \/ (n \in 2 .. Len(q) + 1 /\ n - 1 \in DOMAIN q)
    BY <2>5
  <2>7. /\ y.choice \in Choices /\ y.id \in 1 .. fc /\ ~Has(q, y.id, y.choice)
        /\ y.choice = "none" => ~Has(q, y.id, "tool")
    BY <1>2
  <2>8. \A n \in DOMAIN r : r[n].left \in Lefts /\ (OfForce(r[n]) => r[n].id \in 1 .. fc)
    BY <2>2, <2>5, <2>6, <2>7 DEF QueueOK
  <2>9. ASSUME NEW k \in 1 .. fc, NEW c \in Choices, NEW m \in DOMAIN r, NEW n \in DOMAIN r,
               Holds(r[m], k, c), Holds(r[n], k, c)
        PROVE  m = n
    <3>1. CASE m = 1 \/ n = 1
      BY <2>3, <2>5, <2>6, <2>7, <2>9, <3>1 DEF Has
    <3>2. CASE m # 1 /\ n # 1
      <4>1. m - 1 = n - 1
        BY <2>5, <2>6, <2>9, <3>2 DEF QueueOK
      <4> QED  BY <2>5, <4>1
    <3> QED  BY <3>1, <3>2
  <2>10. ASSUME NEW k \in 1 .. fc, NEW m \in DOMAIN r, NEW n \in DOMAIN r,
                Holds(r[m], k, "tool"), Holds(r[n], k, "none")
         PROVE  m <= n
    <3>0. "tool" \in Choices /\ "none" \in Choices
      BY DEF Choices
    <3>1. CASE m = 1
      BY <2>5, <3>1
    <3>2. CASE m # 1 /\ n = 1
      <4>1. y.id = k /\ y.choice = "none"
        BY <2>3, <2>5, <2>10, <3>0, <3>2
      <4>2. Has(q, k, "tool")
        BY <2>5, <2>6, <2>10, <3>2 DEF Has
      <4> QED  BY <2>7, <4>1, <4>2
    <3>3. CASE m # 1 /\ n # 1
      <4>1. m - 1 <= n - 1
        BY <2>5, <2>6, <2>10, <3>3 DEF QueueOK
      <4> QED  BY <2>5, <4>1
    <3> QED  BY <3>1, <3>2, <3>3
  <2>11. QueueOK(r, fc)
    BY <2>8, <2>9, <2>10 DEF QueueOK
  <2>12. ASSUME NEW k \in Nat, NEW c \in Choices
         PROVE  Has(r, k, c) <=> Has(q, k, c) \/ (y.id = k /\ y.choice = c)
    <3>1. Has(r, k, c) => Has(q, k, c) \/ Holds(d, k, c)
      BY <2>5, <2>6 DEF Has
    <3>2. Holds(d, k, c) => Has(r, k, c)
      BY <2>5 DEF Has
    <3>3. ASSUME NEW n \in DOMAIN q, Holds(q[n], k, c) PROVE Has(r, k, c)
      <4>1. n + 1 \in DOMAIN r /\ r[n + 1] = q[n]
        BY <2>5
      <4> QED  BY <3>3, <4>1 DEF Has
    <3> QED  BY <2>3, <3>1, <3>2, <3>3 DEF Has
  <2> QED  BY <1>2, <2>1, <2>4, <2>5, <2>11, <2>12 DEF Rejected, OfForce
<1> QED  BY <1>1, <1>2

\* What is left of the directive d, and of the queue q whose n-th it is, when it has yielded.
Yielded(d) == [d EXCEPT !.left = Tail(d.left)]
Rest(q, n) == <<Yielded(q[n])>> \o SubSeq(q, n + 1, Len(q))

LEMMA RestOf ==
    ASSUME NEW q \in Seq(DirectiveType), NEW n \in DOMAIN q, q[n].left # <<>>,
           NEW rest, rest = Rest(q, n)
    PROVE  /\ rest \in Seq(DirectiveType) /\ DOMAIN rest = 1 .. Len(q) - n + 1
           /\ rest[1] = Yielded(q[n])
           /\ \A j \in 2 .. Len(q) - n + 1 : rest[j] = q[n + j - 1]
<1>1. PICK size \in Nat : size = Len(q)
  OBVIOUS
<1>2. /\ n \in 1 .. size /\ \A i \in 1 .. size : q[i] \in DirectiveType
  BY <1>1
<1>3. PICK e : e = <<Yielded(q[n])>>
  OBVIOUS
<1>4. e \in Seq(DirectiveType) /\ Len(e) = 1 /\ e[1] = Yielded(q[n])
  <2>1. q[n] \in DirectiveType
    OBVIOUS
  <2>2. Tail(q[n].left) \in Seq(Choices)
    BY <2>1 DEF DirectiveType
  <2>3. Yielded(q[n]) \in DirectiveType
    BY <2>1, <2>2 DEF DirectiveType, Yielded
  <2> QED  BY <1>3, <2>3
<1>5. PICK s : s = SubSeq(q, n + 1, size)
  OBVIOUS
<1>6. s \in Seq(DirectiveType) /\ Len(s) = size - n /\ \A i \in 1 .. size - n : s[i] = q[n + i]
  <2>1. n + 1 \in Int /\ size \in Int /\ \A i \in n + 1 .. size : q[i] \in DirectiveType
    BY <1>2
  <2>2. /\ SubSeq(q, n + 1, size) \in Seq(DirectiveType)
        /\ Len(SubSeq(q, n + 1, size)) = IF n + 1 <= size THEN size - (n + 1) + 1 ELSE 0
        /\ \A i \in 1 .. size - (n + 1) + 1 : SubSeq(q, n + 1, size)[i] = q[(n + 1) + i - 1]
    BY <2>1, SubSeqProperties
  <2>3. size - (n + 1) + 1 = size - n /\ (~(n + 1 <= size) => size - n = 0)
    BY <1>2
  <2>4. \A i \in 1 .. size - n : (n + 1) + i - 1 = n + i
    BY <1>2
  <2>5. s \in Seq(DirectiveType) /\ Len(s) = size - n
    BY <1>5, <2>2, <2>3
  <2>6. \A i \in 1 .. size - n : s[i] = q[n + i]
    BY <1>5, <2>2, <2>3, <2>4
  <2> QED  BY <2>5, <2>6
<1>7. rest = e \o s
  BY <1>1, <1>3, <1>5 DEF Rest
<1>8. /\ e \o s \in Seq(DirectiveType) /\ Len(e \o s) = Len(e) + Len(s)
      /\ \A i \in 1 .. Len(e) + Len(s) : (e \o s)[i] = IF i <= Len(e) THEN e[i] ELSE s[i - Len(e)]
  <2>1. e \in Seq(DirectiveType) /\ s \in Seq(DirectiveType)
    BY <1>4, <1>6
  <2> QED  BY <2>1, ConcatProperties, Zenon
<1>9. Len(e) + Len(s) = size - n + 1 /\ size - n \in Nat
  BY <1>2, <1>4, <1>6
<1>10. rest \in Seq(DirectiveType) /\ Len(rest) = size - n + 1
  BY <1>7, <1>8, <1>9
<1>11. \A i \in 1 .. size - n + 1 : rest[i] = IF i <= 1 THEN e[i] ELSE s[i - 1]
  BY <1>4, <1>7, <1>8, <1>9
<1>12. rest[1] = Yielded(q[n])
  <2>1. 1 \in 1 .. size - n + 1 /\ 1 <= 1
    BY <1>9
  <2> QED  BY <1>4, <1>11, <2>1
<1>13. ASSUME NEW j \in 2 .. size - n + 1 PROVE rest[j] = q[n + j - 1]
  <2>1. j \in 1 .. size - n + 1 /\ ~(j <= 1) /\ j - 1 \in 1 .. size - n /\ n + (j - 1) = n + j - 1
    BY <1>2, <1>9
  <2> QED  BY <1>6, <1>11, <2>1
<1> QED  BY <1>1, <1>10, <1>12, <1>13

\* Taking the first choice that is left: it leaves the queue with the spent directives
\* before it, and the tool of its force went before it.
LEMMA Taken ==
    ASSUME NEW fc \in Nat, NEW q \in Seq(DirectiveType), QueueOK(q, fc), NEW n \in FirstLeft(q),
           NEW rest, rest = Rest(q, n)
    PROVE  /\ rest \in Seq(DirectiveType) /\ QueueOK(rest, fc)
           /\ q[n] \in DirectiveType /\ Head(q[n].left) \in Choices
           /\ Holds(q[n], q[n].id, Head(q[n].left)) <=> OfForce(q[n])
           /\ OfForce(q[n]) => /\ q[n].id \in 1 .. fc /\ Has(q, q[n].id, Head(q[n].left))
                               /\ Head(q[n].left) = "none" => ~Has(q, q[n].id, "tool")
           /\ \A k \in Nat, c \in Choices : Has(rest, k, c) <=>
                 /\ Has(q, k, c)
                 /\ ~(OfForce(q[n]) /\ q[n].id = k /\ Head(q[n].left) = c)
<1>1. /\ n \in DOMAIN q /\ DOMAIN q = 1 .. Len(q) /\ Len(q) \in Nat /\ n \in 1 .. Len(q)
      /\ q[n].left # <<>> /\ \A j \in 1 .. n - 1 : q[j].left = <<>>
      /\ \A j \in DOMAIN q : q[j] \in DirectiveType
  BY DEF FirstLeft
<1>2. q[n].left \in Lefts
  BY <1>1 DEF QueueOK
<1> DEFINE l == q[n].left
           d == Yielded(q[n])
<1>3. /\ l \in Seq(Choices) /\ Head(l) \in Choices /\ Tail(l) \in Lefts /\ Tail(l) \in Seq(Choices)
      /\ \E j \in DOMAIN l : l[j] = Head(l)
      /\ \A c \in Choices : (\E j \in DOMAIN Tail(l) : Tail(l)[j] = c)
                               <=> c # Head(l) /\ \E j \in DOMAIN l : l[j] = c
      /\ Head(l) = "none" => ~ \E j \in DOMAIN l : l[j] = "tool"
  BY <1>1, <1>2, LeftChoices
<1>4. d \in DirectiveType /\ d.left = Tail(l) /\ d.kind = q[n].kind /\ d.id = q[n].id
  BY <1>1, <1>3 DEF DirectiveType, Yielded
<1> HIDE DEF l, d
<1>5. /\ rest \in Seq(DirectiveType) /\ DOMAIN rest = 1 .. Len(q) - n + 1
      /\ rest[1] = d /\ \A j \in 2 .. Len(q) - n + 1 : rest[j] = q[n + j - 1]
  <2>1. n \in DOMAIN q /\ q[n].left # <<>> /\ rest = Rest(q, n)
    BY <1>1
  <2>2. /\ rest \in Seq(DirectiveType) /\ DOMAIN rest = 1 .. Len(q) - n + 1
        /\ rest[1] = Yielded(q[n])
        /\ \A j \in 2 .. Len(q) - n + 1 : rest[j] = q[n + j - 1]
    BY <2>1, RestOf
  <2> QED  BY <2>2 DEF d, l
<1>6. \A k \in Nat, c \in Choices : Holds(d, k, c) <=>
          Holds(q[n], k, c) /\ ~(OfForce(q[n]) /\ q[n].id = k /\ Head(l) = c)
  BY <1>3, <1>4 DEF Holds, OfForce, l
<1>7. QueueOK(rest, fc)
  <2> DEFINE g == [j \in DOMAIN rest |-> n + j - 1]
  <2>1. /\ g \in [DOMAIN rest -> DOMAIN q]
        /\ \A i, j \in DOMAIN rest : i < j => g[i] < g[j]
    BY <1>1, <1>5
  <2>2. g[1] = n /\ \A j \in 2 .. Len(q) - n + 1 : g[j] = n + j - 1 /\ rest[j] = q[g[j]] /\ g[j] \in DOMAIN q
    BY <1>1, <1>5
  <2>3. \A j \in DOMAIN rest : j = 1 \/ j \in 2 .. Len(q) - n + 1
    BY <1>1, <1>5
  <2> HIDE DEF g
  <2>4. \A j \in DOMAIN q : q[j].left \in Lefts
    BY DEF QueueOK
  <2>5. ASSUME NEW j \in DOMAIN rest
        PROVE  /\ rest[j].left \in Lefts /\ rest[j].kind = q[g[j]].kind /\ rest[j].id = q[g[j]].id
               /\ \A k \in 1 .. fc, c \in Choices : Holds(rest[j], k, c) => Holds(q[g[j]], k, c)
    <3>1. CASE j = 1
      <4>1. rest[j] = d /\ q[g[j]] = q[n]
        BY <1>5, <2>2, <3>1
      <4>2. \A k \in 1 .. fc, c \in Choices : Holds(d, k, c) => Holds(q[n], k, c)
        BY <1>6
      <4> QED  BY <1>3, <1>4, <4>1, <4>2
    <3>2. CASE j \in 2 .. Len(q) - n + 1
      BY <2>2, <2>4, <3>2
    <3> QED  BY <2>3, <3>1, <3>2
  <2>6. rest \in Seq(DirectiveType)
    BY <1>5
  <2>7. \A j \in DOMAIN rest : /\ rest[j].left \in Lefts /\ rest[j].kind = q[g[j]].kind /\ rest[j].id = q[g[j]].id
                               /\ \A k \in 1 .. fc, c \in Choices : Holds(rest[j], k, c) => Holds(q[g[j]], k, c)
    BY <2>5
  <2>8. PICK h \in [DOMAIN rest -> DOMAIN q] : h = g
    BY <2>1
  <2>9. \A j \in DOMAIN rest : /\ rest[j].left \in Lefts /\ rest[j].kind = q[h[j]].kind /\ rest[j].id = q[h[j]].id
                               /\ \A k \in 1 .. fc, c \in Choices : Holds(rest[j], k, c) => Holds(q[h[j]], k, c)
    BY <2>7, <2>8
  <2>10. \A i, j \in DOMAIN rest : i < j => h[i] < h[j]
    BY <2>1, <2>8
  <2> QED
    BY ONLY fc \in Nat, q \in Seq(DirectiveType), QueueOK(q, fc),
       h \in [DOMAIN rest -> DOMAIN q], <2>6, <2>9, <2>10, Derived
<1>8. Holds(q[n], q[n].id, Head(l)) <=> OfForce(q[n])
  BY <1>3 DEF Holds, l
<1>9. OfForce(q[n]) => q[n].id \in 1 .. fc /\ Has(q, q[n].id, Head(l))
  BY <1>1, <1>8 DEF QueueOK, Has
<1>10. ASSUME OfForce(q[n]), Head(l) = "none", Has(q, q[n].id, "tool")
       PROVE  FALSE
  <2>1. PICK m \in DOMAIN q : Holds(q[m], q[n].id, "tool")
    BY <1>10 DEF Has
  <2>2. m <= n
    BY <1>1, <1>8, <1>9, <1>10, <2>1 DEF QueueOK
  <2>3. m # n
    BY <1>3, <1>10, <2>1 DEF Holds, l
  <2>4. q[m].left = <<>>
    BY <1>1, <2>1, <2>2, <2>3
  <2> QED  BY <2>1, <2>4 DEF Holds
<1>11. ASSUME NEW k \in Nat, NEW c \in Choices
       PROVE  Has(rest, k, c) <=> Has(q, k, c) /\ ~(OfForce(q[n]) /\ q[n].id = k /\ Head(l) = c)
  <2>1. ASSUME NEW j \in DOMAIN rest, Holds(rest[j], k, c)
        PROVE  Has(q, k, c) /\ ~(OfForce(q[n]) /\ q[n].id = k /\ Head(l) = c)
    <3>1. CASE j = 1
      BY <1>1, <1>5, <1>6, <2>1, <3>1 DEF Has
    <3>2. CASE j # 1
      <4>1. n + j - 1 \in DOMAIN q /\ Holds(q[n + j - 1], k, c) /\ n + j - 1 # n
        <5>1. j \in 2 .. Len(q) - n + 1
          BY <1>1, <1>5, <3>2
        <5>2. rest[j] = q[n + j - 1]
          BY <1>5, <5>1
        <5>3. n + j - 1 \in DOMAIN q /\ n + j - 1 # n
          BY <1>1, <5>1
        <5> QED  BY <2>1, <5>2, <5>3
      <4>2. OfForce(q[n]) /\ q[n].id = k /\ Head(l) = c => k \in 1 .. fc /\ Holds(q[n], k, c)
        BY <1>8, <1>9
      <4> QED  BY <1>1, <4>1, <4>2 DEF Has, QueueOK
    <3> QED  BY <3>1, <3>2
  <2>2. ASSUME NEW m \in DOMAIN q, Holds(q[m], k, c), ~(OfForce(q[n]) /\ q[n].id = k /\ Head(l) = c)
        PROVE  Has(rest, k, c)
    <3>1. m >= n
      <4>1. q[m].left # <<>>
        BY <2>2 DEF Holds
      <4> QED  BY <1>1, <4>1
    <3>2. CASE m = n
      <4>1. 1 \in DOMAIN rest /\ Holds(rest[1], k, c)
        <5>1. 1 \in DOMAIN rest /\ rest[1] = d
          BY <1>1, <1>5
        <5> QED  BY <1>6, <2>2, <3>2, <5>1
      <4> QED  BY <4>1 DEF Has
    <3>3. CASE m # n
      <4>1. m - n + 1 \in DOMAIN rest /\ rest[m - n + 1] = q[m]
        <5>1. m \in Nat /\ m <= Len(q) /\ m > n
          BY <1>1, <3>1, <3>3
        <5>2. m - n + 1 \in 2 .. Len(q) - n + 1 /\ n + (m - n + 1) - 1 = m
          BY <1>1, <5>1
        <5>3. rest[m - n + 1] = q[n + (m - n + 1) - 1]
          BY <1>5, <5>2
        <5>4. DOMAIN rest = 1 .. Len(q) - n + 1
          BY <1>5
        <5>5. m - n + 1 \in DOMAIN rest
          BY <1>1, <5>1, <5>4
        <5>6. q[n + (m - n + 1) - 1] = q[m]
          BY <5>2
        <5> QED  BY <5>3, <5>5, <5>6
      <4> QED  BY <2>2, <4>1 DEF Has
    <3> QED  BY <3>2, <3>3
  <2> QED  BY <2>1, <2>2 DEF Has
<1> QED  BY <1>1, <1>3, <1>5, <1>7, <1>8, <1>9, <1>10, <1>11 DEF l

\* A queue from which nothing can be taken holds nothing.
LEMMA Spent ==
    ASSUME NEW q \in Seq(DirectiveType), FirstLeft(q) = {}, NEW k, NEW c
    PROVE  ~Has(q, k, c)
<1> DEFINE N == {n \in DOMAIN q : q[n].left # <<>>}
           R == OpToRel(<, Nat)
<1>0. \A i, j \in Nat : <<i, j>> \in R <=> i < j
  BY DEF OpToRel
<1>w. IsWellFoundedOn(R, Nat)
  BY NatLessThanWellFounded
<1> HIDE DEF R
<1>1. DOMAIN q = 1 .. Len(q) /\ Len(q) \in Nat
  OBVIOUS
<1>2. N \subseteq Nat
  BY <1>1
<1>3. ASSUME N # {} PROVE FALSE
  <2>1. PICK x \in N : \A y \in N : ~(<<y, x>> \in R)
    BY <1>2, <1>3, <1>w, WFMin
  <2>2. \A y \in N : ~(y < x)
    BY <1>0, <1>2, <2>1
  <2>3. \A j \in 1 .. x - 1 : q[j].left = <<>>
    BY <1>1, <2>2
  <2> QED  BY <2>3 DEF FirstLeft
<1>4. \A n \in DOMAIN q : q[n].left = <<>>
  BY <1>3
<1> QED  BY <1>4 DEF Has, Holds

\* The r-th of a finite set of numbers, for each r up to their number.
LEMMA Ranks ==
    ASSUME NEW K \in SUBSET Nat, IsFiniteSet(K)
    PROVE  /\ Cardinality(K) \in Nat
           /\ \A r \in 1 .. Cardinality(K) : Nth(K, r) \in K
           /\ \A r, s \in 1 .. Cardinality(K) : r < s => Nth(K, r) < Nth(K, s)
           /\ \A n \in K : \E r \in 1 .. Cardinality(K) : Nth(K, r) = n
<1> DEFINE UpTo(n) == {m \in K : m <= n}
           Rank(n) == Cardinality(UpTo(n))
           size == Cardinality(K)
<1>0. \A n \in K : n \in Nat
  OBVIOUS
<1>1. size \in Nat
  BY FS_CardinalityType
<1>2. \A n \in K : IsFiniteSet(UpTo(n)) /\ Rank(n) \in Nat /\ Rank(n) <= size
  BY FS_Subset, FS_CardinalityType
<1>3. \A n \in K : Rank(n) # 0
  <2>1. \A n \in K : n \in UpTo(n)
    BY <1>0
  <2>2. \A n \in K : UpTo(n) # {}
    BY <2>1
  <2> QED  BY <1>2, <2>2, FS_EmptySet
<1>4. \A n \in K : Rank(n) \in 1 .. size
  BY <1>1, <1>2, <1>3
<1>5. ASSUME NEW m \in K, NEW n \in K, m < n PROVE Rank(m) < Rank(n)
  <2>0. m \in Nat /\ n \in Nat
    BY <1>0
  <2>1. UpTo(m) \subseteq UpTo(n)
    <3>1. \A x \in K : x <= m => x <= n
      BY <1>0, <1>5, <2>0
    <3> QED  BY <3>1
  <2>2. n \in UpTo(n) /\ n \notin UpTo(m)
    BY <1>5, <2>0
  <2>3. UpTo(m) # UpTo(n)
    BY <2>2
  <2>4. IsFiniteSet(UpTo(n)) /\ Cardinality(UpTo(m)) \in Nat /\ Cardinality(UpTo(n)) \in Nat
    BY <1>2
  <2> HIDE DEF UpTo
  <2>5. Cardinality(UpTo(m)) <= Cardinality(UpTo(n)) /\ Cardinality(UpTo(n)) # Cardinality(UpTo(m))
    BY <2>1, <2>3, <2>4, FS_Subset
  <2> QED  BY <2>4, <2>5
<1>6. ASSUME NEW n \in K PROVE Nth(K, Rank(n)) \in K /\ Rank(Nth(K, Rank(n))) = Rank(n)
  <2>1. \A m : Cardinality(UpTo(m)) = Rank(m)
    OBVIOUS
  <2>2. PICK r : r = Rank(n)
    OBVIOUS
  <2>3. Nth(K, r) \in K /\ Cardinality(UpTo(Nth(K, r))) = r
    BY <2>1, <2>2 DEF Nth
  <2> QED  BY <2>1, <2>2, <2>3
<1> DEFINE f == [n \in K |-> Rank(n)]
<1> HIDE DEF Rank, size
<1>7. \A m, n \in K : Rank(m) = Rank(n) => m = n
  <2>1. \A m, n \in K : m < n => Rank(m) # Rank(n)
    BY <1>4, <1>5
  <2>2. \A m, n \in K : m < n \/ n < m \/ m = n
    BY <1>0
  <2> QED  BY <2>1, <2>2
<1>8. f \in Injection(K, 1 .. size)
  BY <1>4, <1>7 DEF Injection, IsInjective
<1>9. f \in Surjection(K, 1 .. size)
  <2>1. IsFiniteSet(1 .. size) /\ Cardinality(1 .. size) = size
    BY <1>1, FS_Interval
  <2>2. Cardinality(K) = size
    BY DEF size
  <2> HIDE DEF f
  <2> QED  BY <1>8, <2>1, <2>2, FS_Injection
<1>10. \A r \in 1 .. size : \E n \in K : Rank(n) = r
  BY <1>9 DEF Surjection
<1>11. \A r \in 1 .. size : Nth(K, r) \in K /\ Rank(Nth(K, r)) = r
  BY <1>6, <1>10
<1> HIDE DEF f
<1>12. ASSUME NEW r \in 1 .. size, NEW s \in 1 .. size, r < s PROVE Nth(K, r) < Nth(K, s)
  <2>1. PICK m \in K, n \in K : m = Nth(K, r) /\ n = Nth(K, s) /\ Rank(m) = r /\ Rank(n) = s
    BY <1>11
  <2>2. m \in Nat /\ n \in Nat /\ m # n
    BY <1>0, <1>12, <2>1
  <2>3. n < m => s < r
    BY <1>5, <2>1
  <2> QED  BY <1>1, <1>12, <2>1, <2>2, <2>3
<1>13. \A n \in K : Rank(n) \in 1 .. size /\ Nth(K, Rank(n)) = n
  BY <1>4, <1>7, <1>11
<1> QED  BY <1>1, <1>11, <1>12, <1>13 DEF size

\* What is left without the todos stems from the queue, in its order, and all else is left.
LEMMA Filtered ==
    ASSUME NEW q \in Seq(DirectiveType), NEW new, new = WithoutTodos(q)
    PROVE  /\ new \in Seq(DirectiveType) /\ \A n \in DOMAIN new : new[n].kind # "eager-todo"
           /\ \E h \in [DOMAIN new -> DOMAIN q] :
                 /\ \A r, s \in DOMAIN new : r < s => h[r] < h[s]
                 /\ \A r \in DOMAIN new : new[r] = q[h[r]]
                 /\ \A n \in DOMAIN q : q[n].kind # "eager-todo" => \E r \in DOMAIN new : h[r] = n
<1>1. PICK kept : kept = NotTodos(q)
  OBVIOUS
<1>2. /\ DOMAIN q = 1 .. Len(q) /\ Len(q) \in Nat
      /\ \A n \in DOMAIN q : q[n] \in DirectiveType
  OBVIOUS
<1>3. /\ kept \in SUBSET Nat /\ kept \subseteq 1 .. Len(q)
      /\ \A n \in DOMAIN q : n \in kept <=> q[n].kind # "eager-todo"
  BY <1>1, <1>2 DEF NotTodos
<1>4. IsFiniteSet(kept)
  <2>1. IsFiniteSet(1 .. Len(q))
    BY <1>2, FS_Interval
  <2> QED  BY <1>3, <2>1, FS_Subset
<1>5. /\ Cardinality(kept) \in Nat
      /\ \A r \in 1 .. Cardinality(kept) : Nth(kept, r) \in kept
      /\ \A r, s \in 1 .. Cardinality(kept) : r < s => Nth(kept, r) < Nth(kept, s)
      /\ \A n \in kept : \E r \in 1 .. Cardinality(kept) : Nth(kept, r) = n
  BY <1>3, <1>4, Ranks
<1>6. PICK size \in Nat : size = Cardinality(kept)
  BY <1>5
<1>7. PICK h \in [1 .. size -> DOMAIN q] : h = [r \in 1 .. size |-> Nth(kept, r)]
  BY <1>2, <1>3, <1>5, <1>6
<1>8. /\ \A r \in 1 .. size : h[r] \in kept
      /\ \A r, s \in 1 .. size : r < s => h[r] < h[s]
      /\ \A n \in kept : \E r \in 1 .. size : h[r] = n
  BY <1>5, <1>6, <1>7
<1>9. new = [r \in 1 .. size |-> q[h[r]]]
  <2>1. new = [r \in 1 .. Cardinality(NotTodos(q)) |-> q[Nth(NotTodos(q), r)]]
    BY DEF WithoutTodos
  <2>2. new = [r \in 1 .. size |-> q[Nth(kept, r)]]
    BY <1>1, <1>6, <2>1
  <2>3. \A r \in 1 .. size : h[r] = Nth(kept, r)
    BY <1>7
  <2> QED  BY <2>2, <2>3
<1>10. /\ new \in Seq(DirectiveType) /\ DOMAIN new = 1 .. size
       /\ \A r \in DOMAIN new : new[r] = q[h[r]] /\ h[r] \in DOMAIN q
  <2>1. \A r \in 1 .. size : h[r] \in DOMAIN q
    OBVIOUS
  <2>2. new \in [1 .. size -> DirectiveType]
    BY <1>2, <1>9, <2>1
  <2> QED  BY <1>9, <2>1, <2>2
<1>11. \A n \in DOMAIN new : new[n].kind # "eager-todo"
  <2>1. \A n \in DOMAIN new : h[n] \in kept /\ h[n] \in DOMAIN q /\ new[n] = q[h[n]]
    BY <1>8, <1>10
  <2> QED  BY <1>3, <2>1
<1>12. PICK g \in [DOMAIN new -> DOMAIN q] : g = h
  BY <1>10
<1>13. /\ \A r, s \in DOMAIN new : r < s => g[r] < g[s]
       /\ \A r \in DOMAIN new : new[r] = q[g[r]]
       /\ \A n \in DOMAIN q : q[n].kind # "eager-todo" => \E r \in DOMAIN new : g[r] = n
  <2>1. \A n \in DOMAIN q : q[n].kind # "eager-todo" => n \in kept
    BY <1>3
  <2> QED  BY <1>8, <1>10, <1>12, <2>1
<1>14. new \in Seq(DirectiveType)
  BY <1>10
<1> QED  BY ONLY <1>11, <1>13, <1>14

\* Removing the todos leaves the choices of the user.
LEMMA TodosDropped ==
    ASSUME NEW fc \in Nat, NEW q \in Seq(DirectiveType), QueueOK(q, fc), NEW new, new = WithoutTodos(q)
    PROVE  /\ new \in Seq(DirectiveType) /\ QueueOK(new, fc)
           /\ \A k \in Nat, c \in Choices : Has(new, k, c) <=> Has(q, k, c)
<1>1. new \in Seq(DirectiveType)
  BY Filtered
<1>2. PICK h \in [DOMAIN new -> DOMAIN q] :
          /\ \A r, s \in DOMAIN new : r < s => h[r] < h[s]
          /\ \A r \in DOMAIN new : new[r] = q[h[r]]
          /\ \A n \in DOMAIN q : q[n].kind # "eager-todo" => \E r \in DOMAIN new : h[r] = n
  BY Filtered
<1>3. \A r \in DOMAIN new : h[r] \in DOMAIN q
  OBVIOUS
<1>4. QueueOK(new, fc)
  <2>1. \A r \in DOMAIN new :
            /\ new[r].left \in Lefts /\ new[r].kind = q[h[r]].kind /\ new[r].id = q[h[r]].id
            /\ \A k \in 1 .. fc, c \in Choices : Holds(new[r], k, c) => Holds(q[h[r]], k, c)
    BY <1>2, <1>3 DEF QueueOK
  <2> QED
    BY ONLY fc \in Nat, q \in Seq(DirectiveType), QueueOK(q, fc), h \in [DOMAIN new -> DOMAIN q],
       <1>1, <1>2, <2>1, Derived
<1>5. ASSUME NEW k \in Nat, NEW c \in Choices PROVE Has(new, k, c) <=> Has(q, k, c)
  <2>1. Has(new, k, c) => Has(q, k, c)
    BY <1>2, <1>3 DEF Has
  <2>2. ASSUME NEW n \in DOMAIN q, Holds(q[n], k, c) PROVE Has(new, k, c)
    <3>1. q[n].kind # "eager-todo"
      BY <2>2 DEF Holds, OfForce
    <3>2. PICK r \in DOMAIN new : h[r] = n
      BY <1>2, <3>1
    <3> QED  BY <1>2, <2>2, <3>2 DEF Has
  <2> QED  BY <2>1, <2>2 DEF Has
<1> QED  BY <1>1, <1>4, <1>5

\* The same operations, for the todos of the prompts P alone.
TodosOf(q, P) == \A n \in DOMAIN q : q[n].kind = "eager-todo" => q[n].id \in P

LEMMA TodosPushed ==
    ASSUME NEW P, NEW q \in Seq(DirectiveType), TodosOf(q, P), NEW d \in DirectiveType,
           d.kind = "eager-todo" => d.id \in P
    PROVE  Append(q, d) \in Seq(DirectiveType) /\ TodosOf(Append(q, d), P)
<1>1. PICK r : r = Append(q, d)
  OBVIOUS
<1>2. /\ r \in Seq(DirectiveType) /\ DOMAIN r = 1 .. Len(q) + 1 /\ DOMAIN q = 1 .. Len(q) /\ Len(q) \in Nat
      /\ r[Len(q) + 1] = d /\ \A n \in 1 .. Len(q) : r[n] = q[n]
  BY <1>1
<1>3. \A n \in DOMAIN r : n \in DOMAIN q \/ n = Len(q) + 1
  BY <1>2
<1> QED  BY <1>1, <1>2, <1>3 DEF TodosOf

LEMMA TodosReplayed ==
    ASSUME NEW P, NEW q \in Seq(DirectiveType), TodosOf(q, P), NEW y \in Yields \cup {None}
    PROVE  Rejected(q, y) \in Seq(DirectiveType) /\ TodosOf(Rejected(q, y), P)
<1>1. CASE y.kind # "user-force"
  BY <1>1 DEF Rejected
<1>2. CASE y.kind = "user-force"
  <2>1. PICK d : d = Directive(y.kind, y.id, TRUE, <<y.choice>>)
    OBVIOUS
  <2>2. d \in DirectiveType /\ d.kind = "user-force"
    <3>1. y \in Yields
      BY <1>2 DEF None, Yield
    <3>2. y.choice \in Choices /\ y.id \in Nat
      BY <3>1 DEF Yields
    <3>3. <<y.choice>> \in Seq(Choices)
      BY <3>2
    <3> QED  BY <1>2, <2>1, <3>2, <3>3 DEF Directive, DirectiveType, Kinds
  <2>3. PICK r : r = <<d>> \o q
    OBVIOUS
  <2>4. /\ r \in Seq(DirectiveType) /\ DOMAIN r = 1 .. Len(q) + 1 /\ DOMAIN q = 1 .. Len(q) /\ Len(q) \in Nat
        /\ r[1] = d /\ \A n \in 2 .. Len(q) + 1 : r[n] = q[n - 1]
    BY <2>2, <2>3
  <2>5. \A n \in DOMAIN r : n = 1 \/ (n \in 2 .. Len(q) + 1 /\ n - 1 \in DOMAIN q)
    BY <2>4
  <2>6. TodosOf(r, P)
    BY <2>2, <2>4, <2>5 DEF TodosOf
  <2> QED  BY <1>2, <2>1, <2>3, <2>4, <2>6 DEF Rejected
<1> QED  BY <1>1, <1>2

LEMMA TodosTaken ==
    ASSUME NEW P, NEW q \in Seq(DirectiveType), TodosOf(q, P), NEW n \in FirstLeft(q), NEW rest,
           rest = Rest(q, n)
    PROVE  rest \in Seq(DirectiveType) /\ TodosOf(rest, P)
<1>1. /\ n \in DOMAIN q /\ DOMAIN q = 1 .. Len(q) /\ Len(q) \in Nat
      /\ q[n] \in DirectiveType /\ q[n].left # <<>>
  BY DEF FirstLeft
<1>2. PICK d : d = Yielded(q[n])
  OBVIOUS
<1>3. d.kind = q[n].kind /\ d.id = q[n].id
  BY <1>1, <1>2 DEF DirectiveType, Yielded
<1>4. /\ rest \in Seq(DirectiveType) /\ DOMAIN rest = 1 .. Len(q) - n + 1
      /\ rest[1] = d /\ \A j \in 2 .. Len(q) - n + 1 : rest[j] = q[n + j - 1]
  <2>1. n \in DOMAIN q /\ q[n].left # <<>> /\ rest = Rest(q, n)
    BY <1>1
  <2>2. /\ rest \in Seq(DirectiveType) /\ DOMAIN rest = 1 .. Len(q) - n + 1
        /\ rest[1] = Yielded(q[n])
        /\ \A j \in 2 .. Len(q) - n + 1 : rest[j] = q[n + j - 1]
    BY <2>1, RestOf
  <2> QED  BY <1>2, <2>2
<1>5. ASSUME NEW i \in DOMAIN rest PROVE i = 1 \/ \E m \in DOMAIN q : rest[i] = q[m]
  <2>1. i # 1 => i \in 2 .. Len(q) - n + 1 /\ n + i - 1 \in DOMAIN q
    BY <1>1, <1>4
  <2> QED  BY <1>4, <2>1
<1>6. TodosOf(rest, P)
  <2>1. \A m \in DOMAIN q : q[m].kind = "eager-todo" => q[m].id \in P
    BY DEF TodosOf
  <2>2. rest[1].kind = "eager-todo" => rest[1].id \in P
    BY <1>1, <1>3, <1>4, <2>1
  <2> QED  BY <1>5, <2>1, <2>2 DEF TodosOf
<1> QED  BY <1>4, <1>6

LEMMA TodosRemoved ==
    ASSUME NEW q \in Seq(DirectiveType), NEW new, new = WithoutTodos(q)
    PROVE  new \in Seq(DirectiveType) /\ TodosOf(new, {})
BY Filtered DEF TodosOf

-----------------------------------------------------------------------------
(* The choices forced on a turn: types, and the todos.                     *)

\* The prompts whose todo has not been taken back: a todo is of one of them.
OpenPrompts == {p \in Prompts : prompt[p] \in {"setup", "running", "finishing"}}

QueueType ==
    /\ directives \in Seq(DirectiveType) /\ inFlight \in Yields \cup {None}
    /\ TodosOf(directives, OpenPrompts)
    /\ inFlight.kind = "eager-todo" => inFlight.id \in OpenPrompts

SessionType ==
    /\ prompt \in [Prompts -> {"none", "checked", "setup", "running", "finishing", "over"}]
    /\ eager \subseteq Prompts /\ stale \subseteq Prompts /\ spoken \in BOOLEAN
    /\ counted \subseteq OpenPrompts
    /\ run \in {0} \cup {p \in Prompts : prompt[p] = "running"}
    /\ \A p \in Prompts : prompt[p] = "running" => run = p
    /\ interrupted \in BOOLEAN

LoopType ==
    /\ active \in BOOLEAN /\ forces \in 0 .. MaxForces /\ aborting \in BOOLEAN
    /\ serving \in Yields \cup {None, Fetching}
    /\ turns \in 0 .. MaxTurns /\ throws \in Nat
    /\ handlers \subseteq (1 .. MaxTurns) \X {"ok", "failed"}
    /\ served \in [Forces \X Choices -> 0 .. turns]

TodoInv == QueueType /\ SessionType /\ LoopType

LEMMA BoundTypes == /\ MaxForces \in Nat /\ MaxPrompts \in Nat /\ MaxTurns \in Nat
                    /\ Prompts \subseteq Nat /\ 0 \notin Prompts
  BY TCBoundsAssumption DEF Prompts

LEMMA TodoInvTypes == TodoInv => TCTypeOK
  <1> SUFFICES ASSUME TodoInv PROVE TCTypeOK
    OBVIOUS
  <1>1. directives \in Seq([kind : Kinds, id : Nat, requeued : BOOLEAN, left : Seq(Choices)])
    BY DEF TodoInv, QueueType, DirectiveType
  <1>2. served \in [Forces \X Choices -> 0 .. MaxTurns]
    <2>1. \A x \in 0 .. turns : x \in 0 .. MaxTurns
      BY BoundTypes DEF TodoInv, LoopType
    <2> QED  BY <2>1 DEF TodoInv, LoopType
  <1>3. counted \subseteq {p \in Prompts : prompt[p] \in {"setup", "running", "finishing"}}
    BY DEF TodoInv, SessionType, OpenPrompts
  <1>4. inFlight \in Yields \cup {None}
    BY DEF TodoInv, QueueType
  <1>5. /\ active \in BOOLEAN /\ forces \in 0 .. MaxForces
        /\ aborting \in BOOLEAN /\ serving \in Yields \cup {None, Fetching}
        /\ handlers \subseteq (1 .. MaxTurns) \X {"ok", "failed"}
    BY DEF TodoInv, LoopType
  <1>6. /\ prompt \in [Prompts -> {"none", "checked", "setup", "running", "finishing", "over"}]
        /\ eager \subseteq Prompts /\ stale \subseteq Prompts /\ spoken \in BOOLEAN
        /\ run \in {0} \cup {p \in Prompts : prompt[p] = "running"}
        /\ \A p \in Prompts : prompt[p] = "running" => run = p
        /\ interrupted \in BOOLEAN
    BY DEF TodoInv, SessionType
  <1> QED  BY <1>1, <1>2, <1>3, <1>4, <1>5, <1>6 DEF TCTypeOK

LEMMA TodoInit == TCInit => TodoInv
<1> SUFFICES ASSUME TCInit PROVE TodoInv
  OBVIOUS
<1>1. QueueType
  <2>1. inFlight.kind # "eager-todo" /\ inFlight \in Yields \cup {None}
    BY DEF TCInit, None, Yield
  <2>2. directives \in Seq(DirectiveType) /\ DOMAIN directives = {}
    BY DEF TCInit
  <2> QED  BY <2>1, <2>2 DEF QueueType, TodosOf
<1>2. SessionType
  <2>1. \A p \in Prompts : prompt[p] = "none"
    BY DEF TCInit
  <2> QED  BY <2>1 DEF TCInit, SessionType
<1>3. LoopType
  <2>1. served \in [Forces \X Choices -> 0 .. turns] /\ turns \in 0 .. MaxTurns
    <3>1. turns = 0
      BY DEF TCInit
    <3>2. 0 \in 0 .. turns /\ 0 \in 0 .. MaxTurns
      BY <3>1, BoundTypes
    <3> QED  BY <3>1, <3>2 DEF TCInit
  <2>2. active \in BOOLEAN /\ forces \in 0 .. MaxForces /\ aborting \in BOOLEAN /\ throws \in Nat
    <3>1. active \in BOOLEAN /\ aborting \in BOOLEAN
      BY Zenon DEF TCInit
    <3>2. forces = 0 /\ throws = 0
      BY DEF TCInit
    <3> QED  BY <3>1, <3>2, BoundTypes
  <2>3. serving \in Yields \cup {None, Fetching} /\ handlers = {}
    BY DEF TCInit
  <2> QED  BY <2>1, <2>2, <2>3 DEF LoopType
<1> QED  BY <1>1, <1>2, <1>3 DEF TodoInv

\* Steps that leave the session's part, the loop's part or the queue's part alone.
LEMMA SessionSame ==
    ASSUME TodoInv, UNCHANGED <<prompt, eager, stale, counted, spoken, run>>, interrupted' \in BOOLEAN
    PROVE  SessionType' /\ OpenPrompts' = OpenPrompts
BY DEF TodoInv, SessionType, OpenPrompts

LEMMA QueueSame ==
    ASSUME TodoInv, UNCHANGED choices, OpenPrompts' = OpenPrompts
    PROVE  QueueType'
BY DEF TodoInv, QueueType, choices

LEMMA LoopSame ==
    ASSUME TodoInv, UNCHANGED <<active, forces, aborting, serving, turns, throws, handlers, served>>
    PROVE  LoopType'
BY DEF TodoInv, LoopType

\* A prompt moves on, and the set of those that may have a todo with it.
LEMMA PromptMoves ==
    ASSUME TodoInv, NEW p \in Prompts,
           NEW s \in {"none", "checked", "setup", "running", "finishing", "over"},
           prompt' = [prompt EXCEPT ![p] = s]
    PROVE  /\ prompt' \in [Prompts -> {"none", "checked", "setup", "running", "finishing", "over"}]
           /\ prompt'[p] = s /\ \A q \in Prompts : q # p => prompt'[q] = prompt[q]
           /\ OpenPrompts' = IF s \in {"setup", "running", "finishing"} THEN OpenPrompts \cup {p}
                             ELSE OpenPrompts \ {p}
<1>1. /\ prompt' \in [Prompts -> {"none", "checked", "setup", "running", "finishing", "over"}]
      /\ prompt'[p] = s /\ \A q \in Prompts : q # p => prompt'[q] = prompt[q]
  BY DEF TodoInv, SessionType
<1> QED  BY <1>1 DEF OpenPrompts

\* The run of the loop ends, if it does, and its prompt finishes.
LEMMA RunStops ==
    ASSUME TodoInv, run # 0, EndRun \/ UNCHANGED <<run, session>>, UNCHANGED interrupted
    PROVE  SessionType' /\ OpenPrompts' = OpenPrompts
<1>1. run \in Prompts /\ prompt[run] = "running" /\ run \in OpenPrompts
  BY DEF TodoInv, SessionType, OpenPrompts
<1>2. CASE EndRun
  <2>1. PICK p \in Prompts : p = run
    BY <1>1
  <2>2. prompt' = [prompt EXCEPT ![p] = "finishing"]
    BY <1>2, <2>1 DEF EndRun
  <2>3. /\ prompt' \in [Prompts -> {"none", "checked", "setup", "running", "finishing", "over"}]
        /\ prompt'[p] = "finishing" /\ \A q \in Prompts : q # p => prompt'[q] = prompt[q]
        /\ OpenPrompts' = OpenPrompts \cup {p}
    BY <2>2, PromptMoves
  <2>4. OpenPrompts' = OpenPrompts
    BY <1>1, <2>1, <2>3
  <2>5. \A q \in Prompts : prompt'[q] # "running"
    BY <2>1, <2>3 DEF TodoInv, SessionType
  <2> QED  BY <1>2, <2>3, <2>4, <2>5 DEF EndRun, TodoInv, SessionType
<1>3. CASE UNCHANGED <<run, session>>
  BY <1>3, SessionSame DEF session, TodoInv, SessionType
<1> QED  BY <1>2, <1>3

\* What Fetch takes from the n-th directive, and how it ends.
Taking(n) == Yield(directives[n].kind, directives[n].id, Head(directives[n].left))
Fetched(n) ==
    \/ directives' = Rest(directives, n) /\ inFlight' = Taking(n) /\ serving' = Taking(n)
    \/ directives' = Rejected(Rest(directives, n), Taking(n)) /\ inFlight' = None /\ serving' = None

LEMMA Fetches == Fetch => \E n \in FirstLeft(directives) : Fetched(n)
  BY DEF Fetch, Fetched, Taking, Rest, Yielded

LEMMA TodoStep == TodoInv /\ [TCNext]_tcvars => TodoInv'
<1> SUFFICES ASSUME TodoInv, [TCNext]_tcvars PROVE TodoInv'
  OBVIOUS
<1> USE DEF TodoInv
<1>0. /\ MaxForces \in Nat /\ MaxTurns \in Nat /\ Prompts \subseteq Nat /\ 0 \notin Prompts
      /\ directives \in Seq(DirectiveType) /\ inFlight \in Yields \cup {None}
      /\ TodosOf(directives, OpenPrompts)
      /\ inFlight.kind = "eager-todo" => inFlight.id \in OpenPrompts
      /\ None \in Yields \cup {None} /\ None.kind # "eager-todo"
  BY BoundTypes DEF QueueType, None, Yield
<1>1. CASE SetForced
  <2>1. SessionType' /\ OpenPrompts' = OpenPrompts
    <3>1. interrupted' \in BOOLEAN
      BY <1>1 DEF SetForced, loop, SessionType
    <3> QED  BY <1>1, <3>1, SessionSame DEF SetForced, session, loop
  <2>2. PICK d : d = Directive("user-force", forces + 1, FALSE, <<"tool", "none">>)
    OBVIOUS
  <2>3. d \in DirectiveType /\ d.kind # "eager-todo"
    <3>1. forces + 1 \in Nat
      BY <1>0 DEF LoopType
    <3>2. <<"tool", "none">> \in Seq(Choices)
      BY DEF Choices
    <3> QED  BY <2>2, <3>1, <3>2 DEF Directive, DirectiveType, Kinds
  <2>4. directives' = Append(directives, d)
    BY <1>1, <2>2 DEF SetForced
  <2>5. directives' \in Seq(DirectiveType) /\ TodosOf(directives', OpenPrompts)
    BY <1>0, <2>3, <2>4, TodosPushed
  <2>6. QueueType'
    BY <1>0, <1>1, <2>1, <2>5 DEF SetForced, QueueType
  <2>7. LoopType'
    <3>1. forces' \in 0 .. MaxForces
      BY <1>0, <1>1 DEF SetForced, LoopType
    <3> QED  BY <1>1, <3>1 DEF SetForced, LoopType, loop, bounds
  <2> QED  BY <2>1, <2>6, <2>7
<1>2. CASE Toggle
  <2>1. SessionType' /\ OpenPrompts' = OpenPrompts
    <3>1. interrupted' \in BOOLEAN
      BY <1>2 DEF Toggle, loop, SessionType
    <3> QED  BY <1>2, <3>1, SessionSame DEF Toggle, session, loop
  <2>2. QueueType'
    BY <1>2, <2>1, QueueSame DEF Toggle
  <2>3. LoopType'
    BY <1>2 DEF Toggle, LoopType, loop
  <2> QED  BY <2>1, <2>2, <2>3
<1>3. CASE AbortBegins
  <2>1. OpenPrompts' = OpenPrompts
    BY <1>3 DEF AbortBegins, OpenPrompts
  <2>2. QueueType'
    BY <1>3, <2>1, QueueSame DEF AbortBegins
  <2>3. SessionType'
    <3>1. stale' \subseteq Prompts
      BY <1>3 DEF AbortBegins
    <3> QED  BY <1>3, <2>1, <3>1 DEF AbortBegins, SessionType
  <2>4. LoopType'
    BY <1>3 DEF AbortBegins, LoopType
  <2> QED  BY <2>2, <2>3, <2>4
<1>4. CASE AbortEnds
  <2>1. OpenPrompts' = OpenPrompts
    BY <1>4 DEF AbortEnds, OpenPrompts
  <2>2. SessionType'
    BY <1>4, <2>1 DEF AbortEnds, SessionType, loop
  <2>3. directives' \in Seq(DirectiveType) /\ TodosOf(directives', OpenPrompts)
    BY <1>0, <1>4, TodosReplayed DEF AbortEnds
  <2>4. QueueType'
    BY <1>0, <1>4, <2>1, <2>3 DEF AbortEnds, QueueType
  <2>5. LoopType'
    BY <1>4 DEF AbortEnds, LoopType, loop, bounds
  <2> QED  BY <2>2, <2>4, <2>5
<1>5. ASSUME NEW p \in Prompts, Check(p) PROVE TodoInv'
  <2>1. /\ prompt' \in [Prompts -> {"none", "checked", "setup", "running", "finishing", "over"}]
        /\ prompt'[p] = "checked" /\ \A q \in Prompts : q # p => prompt'[q] = prompt[q]
        /\ OpenPrompts' = OpenPrompts \ {p}
    BY <1>5, PromptMoves DEF Check
  <2>2. OpenPrompts' = OpenPrompts
    BY <1>5, <2>1 DEF Check, OpenPrompts
  <2>3. SessionType'
    <3>1. run = 0 /\ run' = 0
      BY <1>5 DEF Check, loop
    <3>2. \A q \in Prompts : prompt'[q] # "running"
      BY <1>0, <2>1, <3>1 DEF SessionType
    <3>3. eager' \subseteq Prompts
      BY <1>5 DEF Check, SessionType
    <3> QED  BY <1>5, <2>1, <2>2, <3>1, <3>2, <3>3 DEF Check, SessionType, loop
  <2>4. QueueType'
    BY <1>5, <2>2, QueueSame DEF Check
  <2>5. LoopType'
    BY <1>5, LoopSame DEF Check, loop, bounds
  <2> QED  BY <2>3, <2>4, <2>5
<1>6. ASSUME NEW p \in Prompts, SetUp(p) PROVE TodoInv'
  <2>1. /\ prompt' \in [Prompts -> {"none", "checked", "setup", "running", "finishing", "over"}]
        /\ prompt'[p] = "setup" /\ \A q \in Prompts : q # p => prompt'[q] = prompt[q]
        /\ OpenPrompts' = OpenPrompts \cup {p}
    BY <1>6, PromptMoves DEF SetUp
  <2>2. SessionType'
    <3>1. run' \in {0} \cup {q \in Prompts : prompt'[q] = "running"}
      BY <1>6, <2>1 DEF SetUp, SessionType, loop
    <3>2. \A q \in Prompts : prompt'[q] = "running" => run' = q
      BY <1>6, <2>1 DEF SetUp, SessionType, loop
    <3>3. counted' \subseteq OpenPrompts' /\ stale' \subseteq Prompts
      BY <1>6, <2>1 DEF SetUp, SessionType
    <3> QED  BY <1>6, <2>1, <3>1, <3>2, <3>3 DEF SetUp, SessionType, loop
  <2>3. PICK d : d = Directive("eager-todo", p, FALSE, <<"tool">>)
    OBVIOUS
  <2>4. d \in DirectiveType /\ d.id = p
    <3>1. p \in Nat
      BY <1>0
    <3>2. <<"tool">> \in Seq(Choices)
      BY DEF Choices
    <3> QED  BY <2>3, <3>1, <3>2 DEF Directive, DirectiveType, Kinds
  <2>5. TodosOf(directives, OpenPrompts')
    BY <1>0, <2>1 DEF TodosOf
  <2>6. PICK P : P = OpenPrompts'
    OBVIOUS
  <2>7. Append(directives, d) \in Seq(DirectiveType) /\ TodosOf(Append(directives, d), P)
    BY <1>0, <2>1, <2>4, <2>5, <2>6, TodosPushed
  <2>8. directives' = directives \/ directives' = Append(directives, d)
    BY <1>6, <2>3 DEF SetUp
  <2>9. QueueType'
    BY <1>0, <1>6, <2>1, <2>5, <2>6, <2>7, <2>8 DEF SetUp, QueueType
  <2>10. LoopType'
    BY <1>6, LoopSame DEF SetUp, loop, bounds
  <2> QED  BY <2>2, <2>9, <2>10
<1>7. ASSUME NEW p \in Prompts, Run(p) PROVE TodoInv'
  <2>1. /\ prompt' \in [Prompts -> {"none", "checked", "setup", "running", "finishing", "over"}]
        /\ prompt'[p] = "running" /\ \A q \in Prompts : q # p => prompt'[q] = prompt[q]
        /\ OpenPrompts' = OpenPrompts \cup {p}
    BY <1>7, PromptMoves DEF Run
  <2>2. OpenPrompts' = OpenPrompts
    BY <1>7, <2>1 DEF Run, OpenPrompts
  <2>3. SessionType'
    <3>1. \A q \in Prompts : q # p => prompt'[q] # "running"
      BY <1>0, <1>7, <2>1 DEF Run, SessionType
    <3> QED  BY <1>7, <2>1, <2>2, <3>1 DEF Run, SessionType
  <2>4. QueueType'
    BY <1>7, <2>2, QueueSame DEF Run
  <2>5. LoopType'
    BY <1>7 DEF Run, LoopType, bounds
  <2> QED  BY <2>3, <2>4, <2>5
<1>8. ASSUME NEW p \in Prompts, Finish(p) PROVE TodoInv'
  <2>1. /\ prompt' \in [Prompts -> {"none", "checked", "setup", "running", "finishing", "over"}]
        /\ prompt'[p] = "over" /\ \A q \in Prompts : q # p => prompt'[q] = prompt[q]
        /\ OpenPrompts' = OpenPrompts \ {p}
    BY <1>8, PromptMoves DEF Finish
  <2>2. SessionType'
    <3>1. run' \in {0} \cup {q \in Prompts : prompt'[q] = "running"}
      BY <1>8, <2>1 DEF Finish, SessionType, loop
    <3>2. \A q \in Prompts : prompt'[q] = "running" => run' = q
      BY <1>8, <2>1 DEF Finish, SessionType, loop
    <3>3. counted' \subseteq OpenPrompts'
      BY <1>8, <2>1 DEF Finish, SessionType
    <3> QED  BY <1>8, <2>1, <3>1, <3>2, <3>3 DEF Finish, SessionType, loop
  <2>3. directives' \in Seq(DirectiveType) /\ TodosOf(directives', {})
    <3>1. directives' = WithoutTodos(directives)
      BY <1>8 DEF Finish, RemoveTodo
    <3> QED  BY <1>0, <3>1, TodosRemoved
  <2>4. QueueType'
    <3>1. inFlight' \in Yields \cup {None} /\ inFlight'.kind # "eager-todo"
      BY <1>0, <1>8 DEF Finish, RemoveTodo
    <3>2. TodosOf(directives', OpenPrompts')
      BY <2>3 DEF TodosOf
    <3> QED  BY <2>3, <3>1, <3>2 DEF QueueType
  <2>5. LoopType'
    BY <1>8, LoopSame DEF Finish, loop, bounds
  <2> QED  BY <2>2, <2>4, <2>5
<1>9. CASE FetchNothing
  <2>1. SessionType' /\ OpenPrompts' = OpenPrompts
    <3>1. interrupted' \in BOOLEAN
      BY <1>9 DEF FetchNothing, SessionType
    <3> QED  BY <1>9, <3>1, SessionSame DEF FetchNothing, session
  <2>2. QueueType'
    <3>1. <<>> \in Seq(DirectiveType) /\ TodosOf(<<>>, OpenPrompts)
      BY DEF TodosOf
    <3>2. directives' = directives \/ directives' = <<>>
      BY <1>9 DEF FetchNothing
    <3> QED  BY <1>0, <1>9, <2>1, <3>1, <3>2 DEF FetchNothing, QueueType
  <2>3. LoopType'
    BY <1>9 DEF FetchNothing, LoopType, bounds
  <2> QED  BY <2>1, <2>2, <2>3
<1>10. CASE Fetch
  <2>1. SessionType' /\ OpenPrompts' = OpenPrompts
    <3>1. interrupted' \in BOOLEAN
      BY <1>10 DEF Fetch, SessionType
    <3> QED  BY <1>10, <3>1, SessionSame DEF Fetch, session
  <2>2. PICK n \in FirstLeft(directives) : Fetched(n)
    BY <1>10, Fetches
  <2> DEFINE y == Taking(n)
             rest == Rest(directives, n)
  <2>3. y \in Yields /\ (y.kind = "eager-todo" => y.id \in OpenPrompts)
    <3>1. n \in DOMAIN directives /\ directives[n].left # <<>>
      BY DEF FirstLeft
    <3>2. directives[n] \in DirectiveType
      BY <1>0, <3>1
    <3>3. Head(directives[n].left) \in Choices
      BY <3>1, <3>2 DEF DirectiveType
    <3>4. directives[n].kind = "eager-todo" => directives[n].id \in OpenPrompts
      BY <1>0, <3>1 DEF TodosOf
    <3> QED  BY <3>2, <3>3, <3>4 DEF DirectiveType, Yields, Yield, Taking
  <2>4. rest \in Seq(DirectiveType) /\ TodosOf(rest, OpenPrompts)
    BY <1>0, TodosTaken
  <2>5. Rejected(rest, y) \in Seq(DirectiveType) /\ TodosOf(Rejected(rest, y), OpenPrompts)
    BY <2>3, <2>4, TodosReplayed
  <2>6. QueueType'
    BY <1>0, <2>1, <2>2, <2>3, <2>4, <2>5 DEF QueueType, Fetched
  <2>7. LoopType'
    <3>1. serving' \in Yields \cup {None, Fetching}
      BY <2>2, <2>3 DEF Fetched
    <3> QED  BY <1>10, <3>1 DEF Fetch, LoopType, bounds
  <2> QED  BY <2>1, <2>6, <2>7
<1>11. CASE TurnEnds
  <2>1. SessionType' /\ OpenPrompts' = OpenPrompts
    BY <1>11, RunStops DEF TurnEnds
  <2>2. QueueType'
    BY <1>11, <2>1, QueueSame DEF TurnEnds
  <2>3. turns' = turns + 1 /\ turns' \in 0 .. MaxTurns /\ turns \in Nat
    BY <1>0, <1>11 DEF TurnEnds, LoopType
  <2>4. handlers' \subseteq (1 .. MaxTurns) \X {"ok", "failed"}
    <3>1. turns + 1 \in 1 .. MaxTurns
      BY <1>0, <2>3
    <3> QED  BY <1>11, <3>1 DEF TurnEnds, LoopType
  <2>5. served' \in [Forces \X Choices -> 0 .. turns']
    <3>1. \A i \in 0 .. turns : i \in 0 .. turns' /\ i + 1 \in 0 .. turns'
      BY <2>3
    <3>2. served' = served \/ \E x : served' = [served EXCEPT ![x] = @ + 1]
      BY <1>11 DEF TurnEnds
    <3> QED  BY <3>1, <3>2 DEF LoopType
  <2>6. LoopType'
    BY <1>11, <2>3, <2>4, <2>5 DEF TurnEnds, LoopType
  <2> QED  BY <2>1, <2>2, <2>6
<1>12. CASE TurnFails
  <2>1. SessionType' /\ OpenPrompts' = OpenPrompts
    BY <1>12, RunStops DEF TurnFails
  <2>2. QueueType'
    BY <1>12, <2>1, QueueSame DEF TurnFails
  <2>3. turns' = turns + 1 /\ turns' \in 0 .. MaxTurns /\ turns \in Nat
    BY <1>0, <1>12 DEF TurnFails, LoopType
  <2>4. handlers' \subseteq (1 .. MaxTurns) \X {"ok", "failed"}
    <3>1. turns + 1 \in 1 .. MaxTurns
      BY <1>0, <2>3
    <3> QED  BY <1>12, <3>1 DEF TurnFails, LoopType
  <2>5. served' \in [Forces \X Choices -> 0 .. turns']
    <3>1. \A i \in 0 .. turns : i \in 0 .. turns'
      BY <2>3
    <3> QED  BY <1>12, <3>1 DEF TurnFails, LoopType
  <2>6. LoopType'
    BY <1>12, <2>3, <2>4, <2>5 DEF TurnFails, LoopType
  <2> QED  BY <2>1, <2>2, <2>6
<1>13. CASE TurnThrows
  <2>1. SessionType' /\ OpenPrompts' = OpenPrompts
    BY <1>13, RunStops DEF TurnThrows
  <2>2. QueueType'
    BY <1>13, <2>1, QueueSame DEF TurnThrows
  <2>3. LoopType'
    BY <1>13 DEF TurnThrows, LoopType
  <2> QED  BY <2>1, <2>2, <2>3
<1>14. ASSUME NEW h \in handlers, Handle(h) PROVE TodoInv'
  <2>1. SessionType' /\ OpenPrompts' = OpenPrompts
    <3>1. interrupted' \in BOOLEAN
      BY <1>14 DEF Handle, SessionType, loop
    <3> QED  BY <1>14, <3>1, SessionSame DEF Handle, session, loop
  <2>2. Rejected(directives, inFlight) \in Seq(DirectiveType)
        /\ TodosOf(Rejected(directives, inFlight), OpenPrompts)
    BY <1>0, TodosReplayed
  <2>3. QueueType'
    BY <1>0, <1>14, <2>1, <2>2 DEF Handle, QueueType
  <2>4. LoopType'
    BY <1>14 DEF Handle, LoopType, loop, bounds
  <2> QED  BY <2>1, <2>3, <2>4
<1>15. CASE UNCHANGED tcvars
  <2>1. SessionType' /\ OpenPrompts' = OpenPrompts
    BY <1>15, SessionSame DEF tcvars, session, loop, SessionType
  <2>2. QueueType'
    BY <1>15, <2>1, QueueSame DEF tcvars
  <2>3. LoopType'
    BY <1>15, LoopSame DEF tcvars, loop, bounds
  <2> QED  BY <2>1, <2>2, <2>3
<1> QED
  BY <1>1, <1>2, <1>3, <1>4, <1>5, <1>6, <1>7, <1>8, <1>9, <1>10, <1>11, <1>12, <1>13, <1>14, <1>15
     DEF TCNext

LEMMA TodoInvAlways == TCSpec => []TodoInv
  BY TodoInit, TodoStep, PTL DEF TCSpec

\* The variables of ToolChoiceQueue keep their types, with any number of prompts and turns.
THEOREM ChoicesTypeCorrect == TCSpec => []TCTypeOK
  BY TodoInvAlways, TodoInvTypes, PTL

\* TodoEndsWithPrompt holds in every reachable state, however long the handlers of turn_end
\* lag: the todo a prompt has pushed, yielded or not, is gone when its prompt() is over.
THEOREM TodoEndsWithPromptAlways == TCSpec => []TodoEndsWithPrompt
<1>1. TodoInv => TodoEndsWithPrompt
  BY DEF TodoInv, QueueType, TodosOf, OpenPrompts, TodoEndsWithPrompt
<1> QED  BY <1>1, TodoInvAlways, PTL

-----------------------------------------------------------------------------
(* The choices forced on a turn: each is accounted for.                    *)

\* The yield y is the choice c of the k-th force.
IsChoice(y, k, c) == OfForce(y) /\ y.id = k /\ y.choice = c

\* A turn has ended normally and its handler has not got to the queue.
Settling == \E h \in handlers : h[2] = "ok"

\* What is in flight is not queued as well, and a turn that it has served is being settled.
FlightOK ==
    OfForce(inFlight) =>
        /\ inFlight.id \in 1 .. forces
        /\ ~Has(directives, inFlight.id, inFlight.choice)
        /\ inFlight.choice = "none" => ~Has(directives, inFlight.id, "tool")
        /\ served[<<inFlight.id, inFlight.choice>>] = 1 => Settling

\* A choice serves one turn, and is not queued again after it.
ServedOK ==
    \A k \in Forces, c \in Choices :
        /\ served[<<k, c>>] \in {0, 1}
        /\ served[<<k, c>>] = 1 => k <= forces /\ ~Has(directives, k, c)

\* A turn under way has no handler to wait for, and the force it is under is in flight.
TurnOK ==
    /\ serving # Fetching => run # 0 /\ handlers = {}
    /\ OfForce(serving) => inFlight = serving
    /\ \A g, h \in handlers : g = h

\* Without a run that throws, no force leaves its places but by serving a turn: what is in
\* flight is what the turn serves or its handler is to settle.
KeptOK ==
    throws = 0 =>
        /\ \A k \in 1 .. forces, c \in Choices :
              Has(directives, k, c) \/ IsChoice(inFlight, k, c) \/ served[<<k, c>>] = 1
        /\ OfForce(inFlight) => IF serving = Fetching THEN handlers # {} ELSE inFlight = serving
        /\ OfForce(inFlight) /\ Settling => served[<<inFlight.id, inFlight.choice>>] = 1
        /\ \A k \in 1 .. forces :
              IsChoice(inFlight, k, "none") \/ served[<<k, "none">>] = 1 => served[<<k, "tool">>] = 1

Accounts == QueueOK(directives, forces) /\ FlightOK /\ ServedOK /\ TurnOK /\ KeptOK
ForceInv == TodoInv /\ Accounts

LEMMA ForceTypes ==
    ASSUME ForceInv
    PROVE  /\ directives \in Seq(DirectiveType) /\ QueueOK(directives, forces)
           /\ forces \in Nat /\ throws \in Nat /\ 1 .. forces \subseteq Forces /\ Forces \subseteq Nat
           /\ OfForce(inFlight) => inFlight \in Yields /\ inFlight.choice \in Choices
                                   /\ inFlight.id \in 1 .. forces /\ inFlight.id \in Forces
           /\ "tool" \in Choices /\ "none" \in Choices
           /\ served \in [Forces \X Choices -> Nat]
           /\ handlers \subseteq (1 .. MaxTurns) \X {"ok", "failed"}
           /\ ~OfForce(None) /\ ~OfForce(Fetching) /\ None # Fetching
<1>1. directives \in Seq(DirectiveType) /\ QueueOK(directives, forces)
  BY DEF ForceInv, TodoInv, QueueType, Accounts
<1>2. forces \in Nat /\ throws \in Nat /\ 1 .. forces \subseteq Forces /\ Forces \subseteq Nat
  BY BoundTypes DEF ForceInv, TodoInv, LoopType, Forces
<1>3. ~OfForce(None) /\ ~OfForce(Fetching) /\ None # Fetching
  BY DEF OfForce, None, Fetching, Yield
<1>4. OfForce(inFlight) => inFlight \in Yields /\ inFlight.choice \in Choices
  BY <1>3 DEF ForceInv, TodoInv, QueueType, Yields
<1>5. OfForce(inFlight) => inFlight.id \in 1 .. forces
  BY DEF ForceInv, Accounts, FlightOK
<1>6. served \in [Forces \X Choices -> Nat]
  <2>1. \A i \in 0 .. turns : i \in Nat
    BY DEF ForceInv, TodoInv, LoopType
  <2> QED  BY <2>1 DEF ForceInv, TodoInv, LoopType
<1>7. handlers \subseteq (1 .. MaxTurns) \X {"ok", "failed"}
  BY DEF ForceInv, TodoInv, LoopType
<1> QED  BY <1>1, <1>2, <1>3, <1>4, <1>5, <1>6, <1>7 DEF Choices

LEMMA ForceInit == TCInit => ForceInv
<1> SUFFICES ASSUME TCInit PROVE ForceInv
  OBVIOUS
<1>1. TodoInv
  BY TodoInit
<1>2. forces = 0 /\ DOMAIN directives = {} /\ inFlight = None /\ serving = Fetching /\ handlers = {}
  BY DEF TCInit
<1>3. \A k \in Forces, c \in Choices : served[<<k, c>>] = 0
  BY DEF TCInit
<1>4. 1 .. forces = {} /\ ~OfForce(None) /\ ~OfForce(Fetching)
  BY <1>2 DEF OfForce, None, Fetching, Yield
<1>5. QueueOK(directives, forces)
  BY <1>2 DEF QueueOK
<1>6. FlightOK /\ ServedOK /\ TurnOK /\ KeptOK
  BY <1>2, <1>3, <1>4 DEF FlightOK, ServedOK, TurnOK, KeptOK, IsChoice
<1> QED  BY <1>1, <1>5, <1>6 DEF ForceInv, Accounts

\* A step that leaves the user's choices where they are, queued or in flight.
LEMMA ChoicesStay ==
    ASSUME ForceInv, UNCHANGED <<forces, serving, handlers, served, throws>>,
           QueueOK(directives', forces),
           \A k \in Nat, c \in Choices : Has(directives', k, c) <=> Has(directives, k, c),
           OfForce(inFlight) \/ OfForce(inFlight') => inFlight' = inFlight,
           serving # Fetching => run' # 0
    PROVE  Accounts'
<1>1. QueueOK(directives', forces')
  OBVIOUS
<1>2. FlightOK'
  BY ForceTypes DEF ForceInv, Accounts, FlightOK, Settling
<1>3. ServedOK'
  BY ForceTypes DEF ForceInv, Accounts, ServedOK
<1>4. TurnOK'
  BY DEF ForceInv, Accounts, TurnOK
<1>5. \A k, c : IsChoice(inFlight', k, c) <=> IsChoice(inFlight, k, c)
  BY DEF IsChoice
<1>6. KeptOK'
  <2> SUFFICES ASSUME throws = 0 PROVE KeptOK'
    BY DEF KeptOK
  <2>1. \A k \in 1 .. forces, c \in Choices :
            Has(directives', k, c) \/ IsChoice(inFlight', k, c) \/ served[<<k, c>>] = 1
    BY <1>5, ForceTypes DEF ForceInv, Accounts, KeptOK
  <2>2. OfForce(inFlight') => IF serving = Fetching THEN handlers # {} ELSE inFlight' = serving
    BY DEF ForceInv, Accounts, KeptOK
  <2>3. OfForce(inFlight') /\ Settling => served[<<inFlight'.id, inFlight'.choice>>] = 1
    BY DEF ForceInv, Accounts, KeptOK
  <2>4. \A k \in 1 .. forces :
            IsChoice(inFlight', k, "none") \/ served[<<k, "none">>] = 1 => served[<<k, "tool">>] = 1
    BY <1>5 DEF ForceInv, Accounts, KeptOK
  <2>5. Settling' <=> Settling
    BY DEF Settling
  <2> QED  BY <2>1, <2>2, <2>3, <2>4, <2>5 DEF KeptOK
<1> QED  BY <1>1, <1>2, <1>3, <1>4, <1>6 DEF Accounts

\* A choice in flight whose turn has not ended normally goes back to the queue.
LEMMA ChoiceReturns ==
    ASSUME ForceInv, UNCHANGED <<forces, serving, served, throws>>, serving = Fetching,
           directives' = Rejected(directives, inFlight), inFlight' = None, handlers' = {}, ~Settling
    PROVE  Accounts'
<1>1. PICK q : q = Rejected(directives, inFlight)
  OBVIOUS
<1>2. /\ QueueOK(q, forces)
      /\ \A k \in Nat, c \in Choices : Has(q, k, c) <=> Has(directives, k, c) \/ IsChoice(inFlight, k, c)
  <2>1. OfForce(inFlight) =>
            /\ inFlight.id \in 1 .. forces /\ inFlight.choice \in Choices
            /\ ~Has(directives, inFlight.id, inFlight.choice)
            /\ inFlight.choice = "none" => ~Has(directives, inFlight.id, "tool")
    BY ForceTypes DEF ForceInv, Accounts, FlightOK
  <2>2. PICK y : y = inFlight
    OBVIOUS
  <2>3. OfForce(y) => /\ y.id \in 1 .. forces /\ y.choice \in Choices /\ ~Has(directives, y.id, y.choice)
                      /\ y.choice = "none" => ~Has(directives, y.id, "tool")
    BY <2>1, <2>2
  <2>4. /\ QueueOK(Rejected(directives, y), forces)
        /\ \A k \in Nat, c \in Choices : Has(Rejected(directives, y), k, c) <=>
              Has(directives, k, c) \/ (OfForce(y) /\ y.id = k /\ y.choice = c)
    BY <2>3, ForceTypes, Replayed
  <2> QED  BY <1>1, <2>2, <2>4 DEF IsChoice
<1>3. FlightOK' /\ TurnOK'
  BY ForceTypes DEF FlightOK, TurnOK
<1>4. ServedOK'
  <2>1. \A k \in Forces, c \in Choices : served[<<k, c>>] = 1 => ~IsChoice(inFlight, k, c)
    BY DEF ForceInv, Accounts, FlightOK, IsChoice
  <2>2. \A k \in Forces, c \in Choices : served[<<k, c>>] = 1 => ~Has(q, k, c)
    BY <1>2, <2>1, ForceTypes DEF ForceInv, Accounts, ServedOK
  <2> QED  BY <1>1, <2>2 DEF ForceInv, Accounts, ServedOK
<1>5. KeptOK'
  <2> SUFFICES ASSUME throws = 0 PROVE KeptOK'
    BY DEF KeptOK
  <2>1. \A k \in 1 .. forces, c \in Choices : Has(q, k, c) \/ served[<<k, c>>] = 1
    BY <1>2, ForceTypes DEF ForceInv, Accounts, KeptOK
  <2>2. ~OfForce(inFlight') /\ \A k : ~IsChoice(inFlight', k, "none")
    BY ForceTypes DEF IsChoice
  <2>3. \A k \in 1 .. forces : served[<<k, "none">>] = 1 => served[<<k, "tool">>] = 1
    BY DEF ForceInv, Accounts, KeptOK
  <2> QED  BY <1>1, <2>1, <2>2, <2>3 DEF KeptOK
<1> QED  BY <1>1, <1>2, <1>3, <1>4, <1>5 DEF Accounts

\* A choice is asked for when nothing is left to settle: without a throw, none is in flight.
LEMMA NoneInFlight ==
    ASSUME ForceInv, throws = 0, serving = Fetching, handlers = {}
    PROVE  ~OfForce(inFlight)
BY DEF ForceInv, Accounts, KeptOK

LEMMA FetchAccounts ==
    ASSUME ForceInv, Fetch, handlers = {}
    PROVE  Accounts'
<1>0. /\ run # 0 /\ serving = Fetching /\ run' = run /\ handlers' = {}
      /\ UNCHANGED <<forces, served, throws>>
  BY DEF Fetch, bounds
<1>1. PICK n \in FirstLeft(directives) : Fetched(n)
  BY Fetches
<1>2. PICK y : y = Taking(n)
  OBVIOUS
<1>3. PICK rest : rest = Rest(directives, n)
  OBVIOUS
<1>4. /\ rest \in Seq(DirectiveType) /\ QueueOK(rest, forces)
      /\ directives[n] \in DirectiveType /\ Head(directives[n].left) \in Choices
      /\ OfForce(directives[n]) =>
            /\ directives[n].id \in 1 .. forces /\ Has(directives, directives[n].id, Head(directives[n].left))
            /\ Head(directives[n].left) = "none" => ~Has(directives, directives[n].id, "tool")
      /\ \A k \in Nat, c \in Choices : Has(rest, k, c) <=>
            /\ Has(directives, k, c)
            /\ ~(OfForce(directives[n]) /\ directives[n].id = k /\ Head(directives[n].left) = c)
  <2>1. PICK q \in Seq(DirectiveType) : q = directives
    BY ForceTypes
  <2>2. PICK fc \in Nat : fc = forces
    BY ForceTypes
  <2>3. QueueOK(q, fc) /\ n \in FirstLeft(q) /\ rest = Rest(q, n)
    BY <1>3, <2>1, <2>2, ForceTypes
  <2>4. /\ rest \in Seq(DirectiveType) /\ QueueOK(rest, fc)
        /\ q[n] \in DirectiveType /\ Head(q[n].left) \in Choices
        /\ OfForce(q[n]) => /\ q[n].id \in 1 .. fc /\ Has(q, q[n].id, Head(q[n].left))
                            /\ Head(q[n].left) = "none" => ~Has(q, q[n].id, "tool")
        /\ \A k \in Nat, c \in Choices : Has(rest, k, c) <=>
              /\ Has(q, k, c)
              /\ ~(OfForce(q[n]) /\ q[n].id = k /\ Head(q[n].left) = c)
    BY <2>3, Taken
  <2> QED  BY <2>1, <2>2, <2>4
<1>5. /\ y.kind = directives[n].kind /\ y.id = directives[n].id
      /\ y.choice = Head(directives[n].left) /\ y.kind \in Kinds
      /\ OfForce(y) <=> OfForce(directives[n])
  BY <1>2, <1>4 DEF Taking, Yield, OfForce, DirectiveType
<1>6. /\ OfForce(y) => /\ y.id \in 1 .. forces /\ y.choice \in Choices /\ Has(directives, y.id, y.choice)
                       /\ y.choice = "none" => ~Has(directives, y.id, "tool")
      /\ \A k \in Nat, c \in Choices :
            Has(rest, k, c) <=> Has(directives, k, c) /\ ~IsChoice(y, k, c)
  <2>1. \A k, c : IsChoice(y, k, c) <=>
            OfForce(directives[n]) /\ directives[n].id = k /\ Head(directives[n].left) = c
    BY <1>5 DEF IsChoice
  <2>2. OfForce(y) => /\ y.id \in 1 .. forces /\ y.choice \in Choices /\ Has(directives, y.id, y.choice)
                      /\ y.choice = "none" => ~Has(directives, y.id, "tool")
    BY <1>4, <1>5
  <2> QED  BY <1>4, <2>1, <2>2
<1>7. y # Fetching /\ ~Settling /\ ~Settling'
  BY <1>0, <1>5 DEF Kinds, Fetching, Yield, Settling
<1>8. CASE directives' = rest /\ inFlight' = y /\ serving' = y
  <2>1. FlightOK'
    <3>1. OfForce(y) => served[<<y.id, y.choice>>] # 1
      BY <1>6, ForceTypes DEF ForceInv, Accounts, ServedOK
    <3>2. OfForce(y) => ~Has(rest, y.id, y.choice)
      BY <1>6, ForceTypes DEF IsChoice
    <3>3. OfForce(y) /\ y.choice = "none" => ~Has(rest, y.id, "tool")
      BY <1>6, ForceTypes
    <3> QED  BY <1>0, <1>6, <1>8, <3>1, <3>2, <3>3 DEF FlightOK
  <2>2. ServedOK'
    BY <1>0, <1>6, <1>8, ForceTypes DEF ForceInv, Accounts, ServedOK
  <2>3. TurnOK'
    BY <1>0, <1>8 DEF TurnOK
  <2>4. KeptOK'
    <3> SUFFICES ASSUME throws = 0 PROVE KeptOK'
      BY <1>0 DEF KeptOK
    <3>1. ~OfForce(inFlight)
      BY <1>0, NoneInFlight
    <3>2. \A k \in 1 .. forces, c \in Choices : Has(directives, k, c) \/ served[<<k, c>>] = 1
      BY <3>1, ForceTypes DEF ForceInv, Accounts, KeptOK, IsChoice
    <3>3. \A k \in 1 .. forces, c \in Choices :
              Has(rest, k, c) \/ IsChoice(y, k, c) \/ served[<<k, c>>] = 1
      BY <1>6, <3>2, ForceTypes
    <3>4. \A k \in 1 .. forces : IsChoice(y, k, "none") => served[<<k, "tool">>] = 1
      BY <1>6, <3>2, ForceTypes DEF IsChoice
    <3>5. \A k \in 1 .. forces : served[<<k, "none">>] = 1 => served[<<k, "tool">>] = 1
      BY DEF ForceInv, Accounts, KeptOK
    <3> QED  BY <1>0, <1>7, <1>8, <3>3, <3>4, <3>5 DEF KeptOK
  <2> QED  BY <1>0, <1>4, <1>8, <2>1, <2>2, <2>3, <2>4 DEF Accounts
<1>9. CASE directives' = Rejected(rest, y) /\ inFlight' = None /\ serving' = None
  <2>1. PICK q : q = Rejected(rest, y)
    OBVIOUS
  <2>2. OfForce(y) => /\ y.id \in 1 .. forces /\ y.choice \in Choices /\ ~Has(rest, y.id, y.choice)
                      /\ y.choice = "none" => ~Has(rest, y.id, "tool")
    BY <1>6, ForceTypes DEF IsChoice
  <2>3. /\ QueueOK(q, forces)
        /\ \A k \in Nat, c \in Choices : Has(q, k, c) <=> Has(rest, k, c) \/ IsChoice(y, k, c)
    <3>1. /\ QueueOK(Rejected(rest, y), forces)
          /\ \A k \in Nat, c \in Choices : Has(Rejected(rest, y), k, c) <=>
                Has(rest, k, c) \/ (OfForce(y) /\ y.id = k /\ y.choice = c)
      BY <1>4, <2>2, ForceTypes, Replayed
    <3> QED  BY <2>1, <3>1 DEF IsChoice
  <2>4. \A k \in Nat, c \in Choices : Has(q, k, c) <=> Has(directives, k, c)
    BY <1>6, <2>3 DEF IsChoice
  <2>5. FlightOK' /\ TurnOK'
    BY <1>0, <1>9, ForceTypes DEF FlightOK, TurnOK
  <2>6. ServedOK'
    BY <1>0, <1>9, <2>1, <2>4, ForceTypes DEF ForceInv, Accounts, ServedOK
  <2>7. KeptOK'
    <3> SUFFICES ASSUME throws = 0 PROVE KeptOK'
      BY <1>0 DEF KeptOK
    <3>1. ~OfForce(inFlight) /\ ~OfForce(inFlight')
      BY <1>0, <1>9, ForceTypes, NoneInFlight
    <3>2. \A k \in 1 .. forces, c \in Choices : Has(q, k, c) \/ served[<<k, c>>] = 1
      BY <2>4, <3>1, ForceTypes DEF ForceInv, Accounts, KeptOK, IsChoice
    <3>3. \A k \in 1 .. forces : served[<<k, "none">>] = 1 => served[<<k, "tool">>] = 1
      BY DEF ForceInv, Accounts, KeptOK
    <3> QED  BY <1>0, <1>9, <2>1, <3>1, <3>2, <3>3 DEF KeptOK, IsChoice
  <2> QED  BY <1>0, <1>9, <2>1, <2>3, <2>5, <2>6, <2>7 DEF Accounts
<1> QED  BY <1>1, <1>2, <1>3, <1>8, <1>9 DEF Fetched

LEMMA TurnEndsAccounts ==
    ASSUME ForceInv, TurnEnds
    PROVE  Accounts'
<1>0. /\ serving # Fetching /\ serving' = Fetching /\ handlers = {} /\ turns \in Nat
      /\ UNCHANGED <<directives, inFlight, forces, throws>>
      /\ handlers' = {<<turns + 1, "ok">>}
  BY DEF TurnEnds, choices, ForceInv, TodoInv, LoopType, Accounts, TurnOK
<1>1. ~Settling /\ Settling'
  BY <1>0 DEF Settling
<1>2. /\ served' \in [Forces \X Choices -> Nat]
      /\ \A k \in Forces, c \in Choices :
            served'[<<k, c>>] = IF IsChoice(serving, k, c) THEN served[<<k, c>>] + 1 ELSE served[<<k, c>>]
  <2>1. \A k \in Forces, c \in Choices : <<k, c>> \in DOMAIN served
    BY ForceTypes
  <2>2. CASE OfForce(serving)
    <3>1. served' = [served EXCEPT ![<<serving.id, serving.choice>>] = @ + 1]
      BY <2>2 DEF TurnEnds, OfForce
    <3>2. \A k \in Forces, c \in Choices :
              <<k, c>> = <<serving.id, serving.choice>> <=> IsChoice(serving, k, c)
      BY <2>2 DEF IsChoice
    <3>3. \A x \in Forces \X Choices :
              served'[x] = IF x = <<serving.id, serving.choice>> THEN served[x] + 1 ELSE served[x]
      BY <3>1, ForceTypes
    <3>4. served' \in [Forces \X Choices -> Nat]
      <4>1. \A x \in Forces \X Choices : served[x] \in Nat
        BY ForceTypes
      <4>2. \A x \in Forces \X Choices : served'[x] \in Nat
        BY <3>3, <4>1
      <4>3. served' = [x \in Forces \X Choices |-> served'[x]]
        BY <3>1, ForceTypes
      <4> QED  BY <4>2, <4>3
    <3> QED  BY <3>2, <3>3, <3>4
  <2>3. CASE ~OfForce(serving)
    BY <2>3, ForceTypes DEF TurnEnds, OfForce, IsChoice
  <2> QED  BY <2>2, <2>3
<1>3. \A k \in Forces, c \in Choices : IsChoice(serving, k, c) =>
          IsChoice(inFlight, k, c) /\ k \in 1 .. forces /\ served[<<k, c>>] = 0 /\ ~Has(directives, k, c)
  <2>1. SUFFICES ASSUME NEW k \in Forces, NEW c \in Choices, IsChoice(serving, k, c)
                 PROVE  IsChoice(inFlight, k, c) /\ k \in 1 .. forces /\ served[<<k, c>>] = 0 /\ ~Has(directives, k, c)
    OBVIOUS
  <2>2. inFlight = serving /\ inFlight.id = k /\ inFlight.choice = c /\ OfForce(inFlight)
    BY <2>1 DEF IsChoice, ForceInv, Accounts, TurnOK
  <2>3. k \in 1 .. forces /\ ~Has(directives, k, c) /\ served[<<k, c>>] # 1
    BY <1>1, <2>2 DEF ForceInv, Accounts, FlightOK
  <2>4. served[<<k, c>>] \in {0, 1}
    BY DEF ForceInv, Accounts, ServedOK
  <2> QED  BY <2>1, <2>2, <2>3, <2>4
<1>4. FlightOK'
  BY <1>0, <1>1 DEF ForceInv, Accounts, FlightOK
<1>5. \A k \in Forces, c \in Choices :
          /\ served'[<<k, c>>] \in {0, 1}
          /\ served'[<<k, c>>] = 1 <=> served[<<k, c>>] = 1 \/ IsChoice(serving, k, c)
  <2>1. SUFFICES ASSUME NEW k \in Forces, NEW c \in Choices
                 PROVE  /\ served'[<<k, c>>] \in {0, 1}
                        /\ served'[<<k, c>>] = 1 <=> served[<<k, c>>] = 1 \/ IsChoice(serving, k, c)
    OBVIOUS
  <2>2. CASE IsChoice(serving, k, c)
    <3>1. served[<<k, c>>] = 0
      BY <1>3, <2>2
    <3> QED  BY <1>2, <2>2, <3>1
  <2>3. CASE ~IsChoice(serving, k, c)
    <3>1. served'[<<k, c>>] = served[<<k, c>>]
      BY <1>2, <2>3
    <3>2. served[<<k, c>>] \in {0, 1}
      BY DEF ForceInv, Accounts, ServedOK
    <3> QED  BY <2>3, <3>1, <3>2
  <2> QED  BY <2>2, <2>3
<1>6. TurnOK'
  BY <1>0, ForceTypes DEF TurnOK
<1>7. ServedOK'
  <2>1. \A k \in Forces, c \in Choices : IsChoice(serving, k, c) => k <= forces /\ ~Has(directives, k, c)
    <3>1. \A k \in 1 .. forces : k <= forces
      BY ForceTypes
    <3> QED  BY <1>3, <3>1
  <2>2. \A k \in Forces, c \in Choices : served[<<k, c>>] = 1 => k <= forces /\ ~Has(directives, k, c)
    BY DEF ForceInv, Accounts, ServedOK
  <2>3. directives' = directives /\ forces' = forces
    BY <1>0
  <2> QED  BY <1>5, <2>1, <2>2, <2>3 DEF ServedOK
<1>8. KeptOK'
  <2> SUFFICES ASSUME throws = 0 PROVE KeptOK'
    BY <1>0 DEF KeptOK
  <2>1. \A k \in 1 .. forces, c \in Choices :
            Has(directives, k, c) \/ IsChoice(inFlight, k, c) \/ served'[<<k, c>>] = 1
    BY <1>5, ForceTypes DEF ForceInv, Accounts, KeptOK
  <2>2. OfForce(inFlight) => served'[<<inFlight.id, inFlight.choice>>] = 1
    <3>1. OfForce(inFlight) => inFlight = serving
      BY <1>0 DEF ForceInv, Accounts, KeptOK
    <3>2. OfForce(inFlight) => IsChoice(serving, inFlight.id, inFlight.choice)
      BY <3>1 DEF IsChoice
    <3> QED  BY <1>5, <3>2, ForceTypes
  <2>3. \A k \in 1 .. forces :
            IsChoice(inFlight, k, "none") \/ served'[<<k, "none">>] = 1 => served'[<<k, "tool">>] = 1
    BY <1>3, <1>5, ForceTypes DEF ForceInv, Accounts, KeptOK
  <2> QED  BY <1>0, <2>1, <2>2, <2>3 DEF KeptOK
<1> QED  BY <1>0, <1>4, <1>7, <1>6, <1>8 DEF ForceInv, Accounts

LEMMA ForceStep ==
    ASSUME HandlersLag = FALSE, ForceInv, [TCNext]_tcvars
    PROVE  ForceInv'
<1>1. TodoInv'
  BY TodoStep DEF ForceInv
<1>2. SUFFICES Accounts'
  BY <1>1 DEF ForceInv
<1>3. /\ serving # Fetching => run # 0 /\ handlers = {}
      /\ directives \in Seq(DirectiveType) /\ QueueOK(directives, forces)
  BY ForceTypes DEF ForceInv, Accounts, TurnOK
<1>4. UNCHANGED <<directives, forces>> => /\ QueueOK(directives', forces)
                                          /\ \A k, c : Has(directives', k, c) <=> Has(directives, k, c)
  BY <1>3
<1>5. CASE SetForced
  <2>0. /\ forces' = forces + 1 /\ inFlight' = inFlight /\ serving' = serving /\ handlers' = handlers
        /\ served' = served /\ throws' = throws /\ run' = run
    BY <1>5 DEF SetForced, loop, bounds
  <2>1. PICK d : d = Directive("user-force", forces + 1, FALSE, <<"tool", "none">>)
    OBVIOUS
  <2>2. /\ d \in DirectiveType /\ d.left \in Lefts /\ OfForce(d) /\ d.id = forces + 1
        /\ \A c \in Choices : \E j \in DOMAIN d.left : d.left[j] = c
    <3>1. forces + 1 \in Nat
      BY ForceTypes
    <3>2. /\ <<"tool", "none">> \in Seq(Choices) /\ <<"tool", "none">> \in Lefts
          /\ \A c \in Choices : \E j \in DOMAIN <<"tool", "none">> : <<"tool", "none">>[j] = c
      BY DEF Choices, Lefts
    <3> QED  BY <2>1, <3>1, <3>2 DEF Directive, DirectiveType, Kinds, OfForce
  <2>3. PICK e : e = forces + 1
    OBVIOUS
  <2>4. PICK q : q = Append(directives, d)
    OBVIOUS
  <2>5. /\ QueueOK(q, e) /\ directives' = q
        /\ \A k \in Nat, c \in Choices : Has(q, k, c) <=> Has(directives, k, c) \/ Holds(d, k, c)
    <3>1. directives' = q
      BY <1>5, <2>1, <2>4 DEF SetForced
    <3>2. forces \in Nat /\ e \in {forces, forces + 1} /\ (OfForce(d) => d.id = e /\ e = forces + 1)
      BY <2>2, <2>3, ForceTypes
    <3>3. /\ QueueOK(Append(directives, d), e)
          /\ \A k \in Nat, c \in Choices : Has(Append(directives, d), k, c) <=> Has(directives, k, c) \/ Holds(d, k, c)
      BY <1>3, <2>2, <3>2, Pushed
    <3> QED  BY <2>4, <3>1, <3>3
  <2>6. \A k \in Nat, c \in Choices : Has(q, k, c) <=> Has(directives, k, c) \/ k = forces + 1
    BY <2>2, <2>5 DEF Holds
  <2>7. 1 .. forces' = (1 .. forces) \cup {forces + 1} /\ forces + 1 \notin 1 .. forces
    BY <2>0, ForceTypes
  <2>8. FlightOK'
    BY <2>0, <2>5, <2>6, <2>7, ForceTypes DEF ForceInv, Accounts, FlightOK, Settling
  <2>9. ServedOK'
    <3>1. \A k \in Forces, c \in Choices : served[<<k, c>>] = 1 => k <= forces /\ k # forces + 1
      BY ForceTypes DEF ForceInv, Accounts, ServedOK
    <3>2. \A k \in Forces : k <= forces => k <= forces'
      BY <2>0, ForceTypes
    <3> QED  BY <2>0, <2>5, <2>6, <3>1, <3>2, ForceTypes DEF ForceInv, Accounts, ServedOK
  <2>10. TurnOK'
    BY <2>0 DEF ForceInv, Accounts, TurnOK
  <2>11. KeptOK'
    <3> SUFFICES ASSUME throws = 0 PROVE KeptOK'
      BY <2>0 DEF KeptOK
    <3>1. \A k \in 1 .. forces', c \in Choices :
              Has(q, k, c) \/ IsChoice(inFlight, k, c) \/ served[<<k, c>>] = 1
      <4>1. \A k \in 1 .. forces, c \in Choices :
                Has(directives, k, c) \/ IsChoice(inFlight, k, c) \/ served[<<k, c>>] = 1
        BY DEF ForceInv, Accounts, KeptOK
      <4>2. \A k \in 1 .. forces', c \in Choices :
                k \in Nat /\ (k \in 1 .. forces \/ k = forces + 1)
        BY <2>7, ForceTypes
      <4> QED  BY <2>6, <4>1, <4>2
    <3>2. ~IsChoice(inFlight, forces + 1, "none")
      BY <2>7, ForceTypes DEF IsChoice
    <3>3. forces + 1 \in Forces
      BY <1>5, BoundTypes, ForceTypes DEF SetForced, Forces
    <3>4. served[<<forces + 1, "none">>] # 1
      <4>1. ~(forces + 1 <= forces)
        BY ForceTypes
      <4> QED  BY <3>3, <4>1, ForceTypes DEF ForceInv, Accounts, ServedOK
    <3>5. \A k \in 1 .. forces' :
              IsChoice(inFlight, k, "none") \/ served[<<k, "none">>] = 1 => served[<<k, "tool">>] = 1
      BY <2>7, <3>2, <3>4 DEF ForceInv, Accounts, KeptOK
    <3> QED  BY <2>0, <2>5, <3>1, <3>5 DEF ForceInv, Accounts, KeptOK, Settling
  <2> QED  BY <2>0, <2>3, <2>5, <2>8, <2>9, <2>10, <2>11 DEF Accounts
<1>6. CASE Toggle
  BY <1>3, <1>4, <1>6, ChoicesStay DEF Toggle, choices, loop
<1>7. CASE AbortBegins
  BY <1>3, <1>4, <1>7, ChoicesStay DEF AbortBegins, choices
<1>8. CASE AbortEnds
  <2>1. serving = Fetching /\ handlers = {}
    BY <1>3, <1>8 DEF AbortEnds, Quiet
  <2> QED  BY <1>8, <2>1, ChoiceReturns DEF AbortEnds, loop, bounds, Settling
<1>9. ASSUME NEW p \in Prompts, Check(p) PROVE Accounts'
  BY <1>3, <1>4, <1>9, ChoicesStay DEF Check, choices, loop, bounds
<1>10. ASSUME NEW p \in Prompts, SetUp(p) PROVE Accounts'
  <2>1. PICK d : d = Directive("eager-todo", p, FALSE, <<"tool">>)
    OBVIOUS
  <2>2. d \in DirectiveType /\ d.left \in Lefts /\ ~OfForce(d)
    <3>1. p \in Nat
      BY BoundTypes
    <3>2. <<"tool">> \in Seq(Choices) /\ <<"tool">> \in Lefts
      BY DEF Choices, Lefts
    <3> QED  BY <2>1, <3>1, <3>2 DEF Directive, DirectiveType, Kinds, OfForce
  <2>3. PICK e : e = forces
    OBVIOUS
  <2>4. /\ QueueOK(Append(directives, d), e)
        /\ \A k \in Nat, c \in Choices : Has(Append(directives, d), k, c) <=> Has(directives, k, c) \/ Holds(d, k, c)
    <3>1. forces \in Nat /\ e \in {forces, forces + 1}
      BY <2>3, ForceTypes
    <3> QED  BY <1>3, <2>2, <3>1, Pushed
  <2>5. \A k \in Nat, c \in Choices : Has(Append(directives, d), k, c) <=> Has(directives, k, c)
    BY <2>2, <2>4 DEF Holds
  <2>6. directives' = directives \/ directives' = Append(directives, d)
    BY <1>10, <2>1 DEF SetUp
  <2>7. /\ QueueOK(directives', forces)
        /\ \A k \in Nat, c \in Choices : Has(directives', k, c) <=> Has(directives, k, c)
    BY <1>3, <2>3, <2>4, <2>5, <2>6
  <2> QED  BY <1>3, <1>10, <2>7, ChoicesStay DEF SetUp, loop, bounds
<1>11. ASSUME NEW p \in Prompts, Run(p) PROVE Accounts'
  <2>1. serving = Fetching
    BY <1>3, <1>11 DEF Run
  <2> QED  BY <1>4, <1>11, <2>1, ChoicesStay DEF Run, choices, bounds
<1>12. ASSUME NEW p \in Prompts, Finish(p) PROVE Accounts'
  <2>1. PICK q : q = WithoutTodos(directives)
    OBVIOUS
  <2>2. QueueOK(q, forces) /\ \A k \in Nat, c \in Choices : Has(q, k, c) <=> Has(directives, k, c)
    BY <1>3, <2>1, ForceTypes, TodosDropped
  <2>3. directives' = q
    BY <1>12, <2>1 DEF Finish, RemoveTodo
  <2>4. OfForce(inFlight) \/ OfForce(inFlight') => inFlight' = inFlight
    BY <1>12, ForceTypes DEF Finish, RemoveTodo, OfForce
  <2> QED  BY <1>3, <1>12, <2>2, <2>3, <2>4, ChoicesStay DEF Finish, loop, bounds
<1>13. CASE FetchNothing
  <2>0. /\ run # 0 /\ serving = Fetching /\ handlers = {} /\ serving' = None
        /\ UNCHANGED <<inFlight, forces, run, handlers, served, throws>>
    BY <1>13 DEF FetchNothing, Quiet, bounds
  <2>1. /\ QueueOK(directives', forces)
        /\ \A k \in Nat, c \in Choices : Has(directives', k, c) <=> Has(directives, k, c)
    <3>1. CASE directives' = directives
      BY <1>3, <3>1
    <3>2. CASE directives' = <<>> /\ FirstLeft(directives) = {}
      <4>1. \A k, c : ~Has(directives, k, c)
        BY <1>3, <3>2, Spent
      <4>2. DOMAIN directives' = {}
        BY <3>2
      <4> QED  BY <4>1, <4>2 DEF QueueOK, Has
    <3> QED  BY <1>13, <3>1, <3>2 DEF FetchNothing
  <2>2. FlightOK'
    BY <2>0, <2>1, ForceTypes DEF ForceInv, Accounts, FlightOK, Settling
  <2>3. ServedOK'
    BY <2>0, <2>1, ForceTypes DEF ForceInv, Accounts, ServedOK
  <2>4. TurnOK'
    BY <2>0, ForceTypes DEF TurnOK
  <2>5. KeptOK'
    <3> SUFFICES ASSUME throws = 0 PROVE KeptOK'
      BY <2>0 DEF KeptOK
    <3>1. ~OfForce(inFlight)
      BY <2>0, NoneInFlight
    <3>2. \A k \in 1 .. forces, c \in Choices : Has(directives', k, c) \/ served[<<k, c>>] = 1
      BY <2>1, <3>1, ForceTypes DEF ForceInv, Accounts, KeptOK, IsChoice
    <3>3. \A k \in 1 .. forces : served[<<k, "none">>] = 1 => served[<<k, "tool">>] = 1
      BY DEF ForceInv, Accounts, KeptOK
    <3> QED  BY <2>0, <3>1, <3>2, <3>3 DEF KeptOK, IsChoice
  <2> QED  BY <2>0, <2>1, <2>2, <2>3, <2>4, <2>5 DEF Accounts
<1>14. CASE Fetch
  <2>1. handlers = {}
    BY <1>14 DEF Fetch, Quiet
  <2> QED  BY <1>14, <2>1, FetchAccounts
<1>15. CASE TurnEnds
  BY <1>15, TurnEndsAccounts
<1>16. CASE TurnFails
  <2>0. /\ serving # Fetching /\ serving' = Fetching /\ handlers = {} /\ turns \in Nat
        /\ UNCHANGED <<directives, inFlight, forces, throws, served>>
        /\ handlers' = {<<turns + 1, "failed">>}
    BY <1>16 DEF TurnFails, choices, ForceInv, TodoInv, LoopType, Accounts, TurnOK
  <2>1. ~Settling /\ ~Settling'
    BY <2>0 DEF Settling
  <2>2. FlightOK' /\ ServedOK' /\ TurnOK'
    BY <2>0, <2>1, ForceTypes DEF ForceInv, Accounts, FlightOK, ServedOK, TurnOK
  <2>3. KeptOK'
    BY <2>0, <2>1 DEF ForceInv, Accounts, KeptOK
  <2> QED  BY <1>3, <2>0, <2>2, <2>3 DEF Accounts
<1>17. CASE TurnThrows
  <2>0. /\ serving' = Fetching /\ throws' # 0
        /\ UNCHANGED <<directives, inFlight, forces, served, handlers>>
    BY <1>17, ForceTypes DEF TurnThrows, choices
  <2>1. FlightOK' /\ ServedOK' /\ TurnOK' /\ KeptOK'
    BY <2>0, ForceTypes DEF ForceInv, Accounts, FlightOK, ServedOK, TurnOK, KeptOK, Settling
  <2> QED  BY <1>3, <2>0, <2>1 DEF Accounts
<1>18. ASSUME NEW h \in handlers, Handle(h) PROVE Accounts'
  <2>0. /\ handlers = {h} /\ serving = Fetching /\ handlers' = {} /\ inFlight' = None
        /\ UNCHANGED <<forces, serving, served, throws, run>> /\ h[2] \in {"ok", "failed"}
    BY <1>18, ForceTypes DEF Handle, loop, bounds, ForceInv, Accounts, TurnOK
  <2>1. CASE h[2] = "failed"
    BY <1>18, <2>0, <2>1, ChoiceReturns DEF Handle, Settling
  <2>2. CASE h[2] = "ok"
    <3>1. directives' = directives /\ Settling
      BY <1>18, <2>0, <2>2 DEF Handle, Settling
    <3>2. FlightOK' /\ ServedOK' /\ TurnOK'
      BY <2>0, <3>1, ForceTypes DEF ForceInv, Accounts, FlightOK, ServedOK, TurnOK
    <3>3. KeptOK'
      <4> SUFFICES ASSUME throws = 0 PROVE KeptOK'
        BY <2>0 DEF KeptOK
      <4>1. \A k \in 1 .. forces, c \in Choices : Has(directives, k, c) \/ served[<<k, c>>] = 1
        BY <3>1 DEF ForceInv, Accounts, KeptOK, IsChoice
      <4>2. \A k \in 1 .. forces : served[<<k, "none">>] = 1 => served[<<k, "tool">>] = 1
        BY DEF ForceInv, Accounts, KeptOK
      <4> QED  BY <2>0, <3>1, <4>1, <4>2, ForceTypes DEF KeptOK, IsChoice
    <3> QED  BY <1>3, <2>0, <3>1, <3>2, <3>3 DEF Accounts
  <2> QED  BY <2>0, <2>1, <2>2
<1>19. CASE UNCHANGED tcvars
  BY <1>3, <1>4, <1>19, ChoicesStay DEF tcvars, choices, loop, bounds
<1> QED
  BY <1>5, <1>6, <1>7, <1>8, <1>9, <1>10, <1>11, <1>12, <1>13, <1>14, <1>15, <1>16, <1>17, <1>18, <1>19
     DEF TCNext

LEMMA AccountsForForces == ForceInv => ForceAccounted
<1> SUFFICES ASSUME ForceInv PROVE ForceAccounted
  OBVIOUS
<1>1. TCTypeOK
  BY TodoInvTypes DEF ForceInv
<1>2. \A k \in 1 .. forces, c \in Choices :
          /\ Queued(k, c) = {n \in DOMAIN directives : Holds(directives[n], k, c)}
          /\ InFlight(k, c) <=> IsChoice(inFlight, k, c)
          /\ served[<<k, c>>] \in {0, 1}
  <2>1. SUFFICES ASSUME NEW k \in 1 .. forces, NEW c \in Choices
                 PROVE  /\ Queued(k, c) = {n \in DOMAIN directives : Holds(directives[n], k, c)}
                        /\ InFlight(k, c) <=> IsChoice(inFlight, k, c)
                        /\ served[<<k, c>>] \in {0, 1}
    OBVIOUS
  <2>2. Queued(k, c) = {n \in DOMAIN directives : Holds(directives[n], k, c)}
    BY DEF Queued, Holds, OfForce
  <2>3. InFlight(k, c) => IsChoice(inFlight, k, c)
    BY DEF InFlight, IsChoice, Yield, OfForce
  <2>4. IsChoice(inFlight, k, c) => InFlight(k, c)
    <3>1. IsChoice(inFlight, k, c) => inFlight \in Yields
      BY ForceTypes DEF IsChoice
    <3> QED  BY <3>1 DEF InFlight, IsChoice, Yield, Yields, OfForce
  <2>5. served[<<k, c>>] \in {0, 1}
    BY ForceTypes DEF ForceInv, Accounts, ServedOK
  <2> QED  BY <2>2, <2>3, <2>4, <2>5
<1>3. ForcedOnce
  <2>1. SUFFICES ASSUME NEW k \in 1 .. forces, NEW c \in Choices
                 PROVE  /\ Cardinality(Queued(k, c)) + (IF InFlight(k, c) THEN 1 ELSE 0) <= 1
                        /\ served[<<k, c>>] <= 1
                        /\ served[<<k, c>>] = 1 => Queued(k, c) = {} /\ (InFlight(k, c) => handlers # {})
    BY DEF ForcedOnce
  <2>2. \A m, n \in Queued(k, c) : m = n
    BY <1>2 DEF ForceInv, Accounts, QueueOK
  <2>3. InFlight(k, c) => Queued(k, c) = {}
    <3>1. IsChoice(inFlight, k, c) => ~Has(directives, k, c)
      BY DEF ForceInv, Accounts, FlightOK, IsChoice
    <3>2. ~Has(directives, k, c) => Queued(k, c) = {}
      BY <1>2 DEF Has
    <3> QED  BY <1>2, <3>1, <3>2
  <2>4. Queued(k, c) = {} \/ \E n : Queued(k, c) = {n}
    BY <2>2
  <2>5. \A n : Cardinality({n}) = 1
    BY FS_Singleton
  <2>6. Cardinality({}) = 0
    BY FS_EmptySet
  <2>7. Cardinality(Queued(k, c)) \in {0, 1} /\ (InFlight(k, c) => Cardinality(Queued(k, c)) = 0)
    BY <2>3, <2>4, <2>5, <2>6
  <2>8. served[<<k, c>>] = 1 => Queued(k, c) = {}
    BY <1>2, ForceTypes DEF ForceInv, Accounts, ServedOK, Has
  <2>9. served[<<k, c>>] = 1 /\ InFlight(k, c) => handlers # {}
    BY <1>2 DEF ForceInv, Accounts, FlightOK, IsChoice, Settling
  <2> QED  BY <1>2, <2>7, <2>8, <2>9
<1>4. ASSUME throws = 0 PROVE ForceKept /\ ToolBeforeNone
  <2>1. ForceKept
    <3>1. \A k \in 1 .. forces, c \in Choices :
              Has(directives, k, c) \/ IsChoice(inFlight, k, c) \/ served[<<k, c>>] = 1
      BY <1>4 DEF ForceInv, Accounts, KeptOK
    <3>2. \A k \in 1 .. forces, c \in Choices : Has(directives, k, c) => Queued(k, c) # {}
      BY <1>2 DEF Has
    <3>3. \A k \in 1 .. forces, c \in Choices : served[<<k, c>>] = 1 => served[<<k, c>>] > 0
      OBVIOUS
    <3> QED  BY <1>2, <3>1, <3>2, <3>3 DEF ForceKept
  <2>2. ToolBeforeNone
    BY <1>2, <1>4, ForceTypes DEF ForceInv, Accounts, KeptOK, ToolBeforeNone
  <2> QED  BY <2>1, <2>2
<1> QED  BY <1>1, <1>3, <1>4 DEF ForceAccounted

\* ForceAccounted holds in every reachable state when no extension's handler of turn_end lags:
\* a choice the user has forced is in one place, serves one turn, the tool before "none", and
\* while no run throws none is lost.  With handlers that lag, ForcedOnce is violated.
THEOREM ForceAccountedAlways ==
    ASSUME HandlersLag = FALSE
    PROVE  TCSpec => []ForceAccounted
<1>1. ForceInv /\ [TCNext]_tcvars => ForceInv'
  BY ForceStep
<1> QED  BY <1>1, ForceInit, AccountsForForces, PTL DEF TCSpec

================================================================================
