---------------------------- MODULE ToolChoiceQueue ----------------------------
(***************************************************************************)
(* The tool choices a session forces on the model: packages/coding-agent/  *)
(* src/session/tool-choice-queue.ts and its use by agent-session.ts.  A    *)
(* directive yields one choice per turn: the user's force yields its tool  *)
(* and then "none", an eager todo the todo tool.  The loop fetches a       *)
(* choice per turn; turn_end, handled later, settles what is in flight.    *)
(*                                                                         *)
(* No code in src/ pushes a directive with onInvoked, so that branch of    *)
(* resolve() is left out, as is the label of the last served directive.    *)
(* Staged previews, the other half of the queue, are PendingPreviews.      *)
(*                                                                         *)
(* The names it would share with ModelCall begin with TC: ModelTurn_proofs *)
(* extends both.                                                           *)
(*                                                                         *)
(* Definitions named ..._Fault are not part of the model: each is a bug    *)
(* the definition after it could have, for which a property must fail.     *)
(***************************************************************************)
EXTENDS Naturals, Sequences, FiniteSets

CONSTANTS
    HandlersLag,    \* an extension listens to turn_end, and the handler awaits it
    MaxForces,      \* bound: calls of setForcedToolChoice
    MaxPrompts,     \* bound: prompts of the user
    MaxTurns,       \* bound: turns
    MaxAborts,      \* bound: calls of abort()
    MaxToggles,     \* bound: changes of the active tools
    MaxThrows       \* bound: runs that throw

Yield(kind, id, choice) == [kind |-> kind, id |-> id, choice |-> choice]
None == Yield("absent", 0, "none")      \* no choice
Fetching == Yield("fetch", 0, "none")   \* the turn has not asked for one
Prompts == 1 .. MaxPrompts
Forces == 1 .. MaxForces

ASSUME LagAssumption == HandlersLag \in BOOLEAN
ASSUME TCBoundsAssumption ==
    {MaxForces, MaxPrompts, MaxTurns, MaxAborts, MaxToggles, MaxThrows} \subseteq Nat

VARIABLES
    directives, \* #queue; `left` is what the directive's generator will yield
    inFlight,   \* #inFlight, or None
    active,     \* the forced tool and the todo tool are active
    forces,     \* forces pushed
    prompt,     \* prompt(): "none", "checked", "setup", "running", "finishing", "over"
    eager,      \* the prompts that will force a todo list
    stale,      \* the prompts whose generation an abort has passed
    counted,    \* those #promptInFlightCount counts
    spoken,     \* the conversation has a user message
    run,        \* the prompt whose run the loop is in, or 0
    interrupted,\* its signal is aborted
    serving,    \* the choice of the turn under way; Fetching before it
    handlers,   \* handlers of turn_end that have not got to the queue
    served,     \* history: choices of forces whose turn ended normally
    aborting,   \* abort() waits for the run
    turns, aborts, toggles, throws  \* bounds

choices == <<directives, inFlight>>
session == <<prompt, eager, stale, counted, spoken>>
loop == <<run, interrupted, serving>>
bounds == <<turns, aborts, toggles, throws>>
tcvars == <<choices, active, forces, session, loop, handlers, served, aborting, bounds>>

Choices == {"tool", "none"}
Kinds == {"user-force", "eager-todo"}
Yields == [kind : Kinds, id : Nat, choice : Choices]

TCTypeOK ==
    /\ directives \in Seq([kind : Kinds, id : Nat, requeued : BOOLEAN, left : Seq(Choices)])
    /\ inFlight \in Yields \cup {None}
    /\ active \in BOOLEAN /\ forces \in 0 .. MaxForces
    /\ prompt \in [Prompts -> {"none", "checked", "setup", "running", "finishing", "over"}]
    /\ eager \subseteq Prompts /\ stale \subseteq Prompts /\ spoken \in BOOLEAN
    /\ counted \subseteq {p \in Prompts : prompt[p] \in {"setup", "running", "finishing"}}
    /\ run \in {0} \cup {p \in Prompts : prompt[p] = "running"}
    /\ \A p \in Prompts : prompt[p] = "running" => run = p
    /\ interrupted \in BOOLEAN /\ aborting \in BOOLEAN
    /\ serving \in Yields \cup {None, Fetching}
    /\ handlers \subseteq (1 .. MaxTurns) \X {"ok", "failed"}
    /\ served \in [Forces \X Choices -> 0 .. MaxTurns]

TCInit ==
    /\ directives = <<>> /\ inFlight = None
    /\ active = TRUE /\ forces = 0
    /\ prompt = [p \in Prompts |-> "none"] /\ eager = {} /\ stale = {} /\ counted = {}
    /\ spoken = FALSE
    /\ run = 0 /\ interrupted = FALSE /\ serving = Fetching
    /\ handlers = {} /\ served = [x \in Forces \X Choices |-> 0]
    /\ aborting = FALSE
    /\ turns = 0 /\ aborts = 0 /\ toggles = 0 /\ throws = 0

\* Without an extension's handler, turn_end is handled before anything else happens.
Quiet == HandlersLag \/ handlers = {}

-----------------------------------------------------------------------------
(* The queue's operations, as what they make of it.                        *)

Directive(kind, id, requeued, left) ==
    [kind |-> kind, id |-> id, requeued |-> requeued, left |-> left]

\* What reject() leaves of the queue q: only the user's force asks to be replayed.
Rejected_AtTail_Fault(q, y) ==
    IF y.kind = "user-force"
    THEN Append(q, Directive(y.kind, y.id, TRUE, <<y.choice>>))
    ELSE q
Rejected(q, y) ==
    IF y.kind = "user-force"
    THEN <<Directive(y.kind, y.id, TRUE, <<y.choice>>)>> \o q
    ELSE q

\* nextToolChoice drops the directives before the first that yields.
FirstLeft(q) == {n \in DOMAIN q : q[n].left # <<>> /\ \A k \in 1 .. n - 1 : q[k].left = <<>>}

Labelled(q, kind) == {n \in DOMAIN q : q[n].kind = kind /\ ~q[n].requeued}

\* The r-th of the numbers K, and the queue q without the todos.
Nth(K, r) == CHOOSE n \in K : Cardinality({m \in K : m <= n}) = r
NotTodos(q) == {n \in DOMAIN q : q[n].kind # "eager-todo"}
WithoutTodos(q) ==
    [r \in 1 .. Cardinality(NotTodos(q)) |-> q[Nth(NotTodos(q), r)]]

\* removeByLabel("eager-todo")
RemoveTodo_QueuedOnly_Fault ==
    /\ directives' = WithoutTodos(directives)
    /\ UNCHANGED inFlight
RemoveTodo ==
    /\ directives' = WithoutTodos(directives)
    /\ inFlight' = IF inFlight.kind = "eager-todo" THEN None ELSE inFlight

-----------------------------------------------------------------------------
(* The user.                                                               *)

\* setForcedToolChoice
SetForced ==
    /\ Quiet /\ forces < MaxForces /\ active
    /\ forces' = forces + 1
    /\ directives' = Append(directives, Directive("user-force", forces + 1, FALSE, <<"tool", "none">>))
    /\ UNCHANGED <<inFlight, active, session, loop, handlers, served, aborting, bounds>>

\* setActiveToolsByName
Toggle ==
    /\ Quiet /\ toggles < MaxToggles
    /\ toggles' = toggles + 1 /\ active' = ~active
    /\ UNCHANGED <<choices, forces, session, loop, handlers, served, aborting, turns, aborts, throws>>

\* prompt() up to the images it awaits: a todo list may be forced on the first message, unless
\* the user has forced something.
Check(p) ==
    /\ Quiet /\ prompt[p] = "none" /\ run = 0 /\ counted = {}
    /\ \A q \in 1 .. p - 1 : prompt[q] # "none"
    /\ prompt' = [prompt EXCEPT ![p] = "checked"]
    /\ \/ UNCHANGED eager
       \/ /\ active /\ ~spoken /\ Labelled(directives, "user-force") = {}
          /\ eager' = eager \cup {p}
    /\ UNCHANGED <<choices, active, forces, stale, counted, spoken, loop, handlers, served,
                   aborting, bounds>>

\* It pushes the todo and enters #promptWithMessage.
SetUp(p) ==
    /\ Quiet /\ prompt[p] = "checked"
    /\ prompt' = [prompt EXCEPT ![p] = "setup"]
    /\ counted' = counted \cup {p} /\ stale' = stale \ {p}
    /\ directives' = IF p \in eager
                     THEN Append(directives, Directive("eager-todo", p, FALSE, <<"tool">>))
                     ELSE directives
    /\ UNCHANGED <<inFlight, active, forces, eager, spoken, loop, handlers, served, aborting, bounds>>

Run(p) ==
    /\ Quiet /\ prompt[p] = "setup" /\ p \notin stale /\ run = 0
    /\ prompt' = [prompt EXCEPT ![p] = "running"]
    /\ run' = p /\ interrupted' = FALSE /\ serving' = Fetching /\ spoken' = TRUE
    /\ UNCHANGED <<choices, active, forces, eager, stale, counted, handlers, served, aborting, bounds>>

\* The setup failed or was overtaken by an abort, or the run has ended: the finally block.
Finish(p) ==
    /\ Quiet /\ prompt[p] \in {"setup", "finishing"}
    /\ prompt' = [prompt EXCEPT ![p] = "over"]
    /\ counted' = counted \ {p}
    /\ RemoveTodo
    /\ UNCHANGED <<active, forces, eager, stale, spoken, loop, handlers, served, aborting, bounds>>

-----------------------------------------------------------------------------
(* The loop.                                                               *)

\* No choice is asked for on an aborted signal.
FetchNothing ==
    /\ run # 0 /\ serving = Fetching /\ Quiet
    /\ interrupted \/ FirstLeft(directives) = {}
    /\ serving' = None
    /\ directives' = IF interrupted THEN directives ELSE <<>>
    /\ UNCHANGED <<inFlight, active, forces, session, run, interrupted, handlers, served,
                   aborting, bounds>>

\* nextToolChoice and #nextHardToolChoice: the choice is in flight, or rejected as unavailable.
Fetch ==
    /\ run # 0 /\ serving = Fetching /\ Quiet /\ ~interrupted
    /\ \E n \in FirstLeft(directives) :
        LET d == directives[n]
            y == Yield(d.kind, d.id, Head(d.left))
            rest == <<[d EXCEPT !.left = Tail(@)]>> \o SubSeq(directives, n + 1, Len(directives))
        IN IF y.choice = "none" \/ active
           THEN directives' = rest /\ inFlight' = y /\ serving' = y
           ELSE directives' = Rejected(rest, y) /\ inFlight' = None /\ serving' = None
    /\ UNCHANGED <<active, forces, session, run, interrupted, handlers, served, aborting, bounds>>

EndRun ==
    /\ run' = 0 /\ prompt' = [prompt EXCEPT ![run] = "finishing"]
    /\ UNCHANGED <<eager, stale, counted, spoken>>

\* The turn ends normally; the loop goes on, or stops.
TurnEnds ==
    /\ run # 0 /\ serving # Fetching /\ turns < MaxTurns
    /\ turns' = turns + 1 /\ serving' = Fetching
    /\ handlers' = handlers \cup {<<turns + 1, "ok">>}
    /\ served' = IF serving.kind = "user-force"
                 THEN [served EXCEPT ![<<serving.id, serving.choice>>] = @ + 1]
                 ELSE served
    /\ EndRun \/ UNCHANGED <<run, session>>
    /\ UNCHANGED <<choices, active, forces, interrupted, aborting, aborts, toggles, throws>>

\* It is aborted, or the provider reports an error.
TurnFails ==
    /\ run # 0 /\ serving # Fetching /\ turns < MaxTurns
    /\ turns' = turns + 1 /\ serving' = Fetching
    /\ handlers' = handlers \cup {<<turns + 1, "failed">>}
    /\ EndRun
    /\ UNCHANGED <<choices, active, forces, interrupted, served, aborting, aborts, toggles, throws>>

\* The loop throws (no key, say): agent_end without turn_end.
TurnThrows ==
    /\ run # 0 /\ serving # Fetching /\ throws < MaxThrows
    /\ throws' = throws + 1 /\ serving' = Fetching
    /\ EndRun
    /\ UNCHANGED <<choices, active, forces, interrupted, handlers, served, aborting, turns,
                   aborts, toggles>>

\* The handler of turn_end settles whatever is in flight when it gets there.
Handle(h) ==
    /\ handlers' = handlers \ {h}
    /\ inFlight' = None
    /\ directives' = IF h[2] = "failed" THEN Rejected(directives, inFlight) ELSE directives
    /\ UNCHANGED <<active, forces, session, loop, served, aborting, bounds>>

-----------------------------------------------------------------------------
(* abort().                                                                *)

AbortBegins ==
    /\ Quiet /\ aborts < MaxAborts /\ ~aborting
    /\ aborts' = aborts + 1 /\ aborting' = TRUE
    /\ stale' = {p \in Prompts : prompt[p] \notin {"none", "over"}}
    /\ interrupted' = TRUE
    /\ UNCHANGED <<choices, active, forces, prompt, eager, counted, spoken, run, serving,
                   handlers, served, turns, toggles, throws>>

\* No run is left to wait for; what nobody has settled is rejected here.
AbortEnds ==
    /\ Quiet /\ aborting /\ run = 0
    /\ aborting' = FALSE /\ counted' = {}
    /\ directives' = Rejected(directives, inFlight) /\ inFlight' = None
    /\ UNCHANGED <<active, forces, prompt, eager, stale, spoken, loop, handlers, served, bounds>>

-----------------------------------------------------------------------------
TCNext ==
    \/ SetForced \/ Toggle \/ AbortBegins \/ AbortEnds
    \/ \E p \in Prompts : Check(p) \/ SetUp(p) \/ Run(p) \/ Finish(p)
    \/ FetchNothing \/ Fetch \/ TurnEnds \/ TurnFails \/ TurnThrows
    \/ \E h \in handlers : Handle(h)

TCSpec == TCInit /\ [][TCNext]_tcvars

-----------------------------------------------------------------------------
(* Properties.                                                             *)

Queued(k, c) ==
    {n \in DOMAIN directives : directives[n].kind = "user-force" /\ directives[n].id = k
                                 /\ \E j \in DOMAIN directives[n].left : directives[n].left[j] = c}
InFlight(k, c) == inFlight = Yield("user-force", k, c)

\* "requeue" replays a lost yield: a choice the user has forced is queued or in flight until a
\* turn has ended normally under it.
ForceKept ==
    \A k \in 1 .. forces, c \in Choices :
        Queued(k, c) # {} \/ InFlight(k, c) \/ served[<<k, c>>] > 0

\* The model is forced once: a choice is not in two places, and one that a turn has served is
\* not given to a later turn, whatever requeues it.
ForcedOnce ==
    \A k \in 1 .. forces, c \in Choices :
        /\ Cardinality(Queued(k, c)) + (IF InFlight(k, c) THEN 1 ELSE 0) <= 1
        /\ served[<<k, c>>] <= 1
        /\ served[<<k, c>>] = 1 => Queued(k, c) = {} /\ (InFlight(k, c) => handlers # {})

\* The tool is forced before "none" is, also when either was requeued.
ToolBeforeNone ==
    \A k \in 1 .. forces : served[<<k, "none">>] > 0 => served[<<k, "tool">>] > 0

\* While no run throws, what the user has forced is neither lost nor forced again.
ForceAccounted == TCTypeOK /\ ForcedOnce /\ (throws = 0 => ForceKept /\ ToolBeforeNone)

\* A todo list forced on a prompt's first turn is not left to force a later prompt's.
TodoEndsWithPrompt ==
    \A p \in Prompts : prompt[p] = "over" =>
        /\ \A n \in DOMAIN directives : directives[n].kind = "eager-todo" => directives[n].id # p
        /\ inFlight.kind = "eager-todo" => inFlight.id # p

=============================================================================
