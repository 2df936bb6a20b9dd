---------------------------- MODULE PendingPreviews ----------------------------
(***************************************************************************)
(* Previews that wait for the `resolve` tool: packages/coding-agent/src/   *)
(* tools/resolve.ts and the pending invokers of session/                   *)
(* tool-choice-queue.ts.  A tool stages a change; `resolve` applies or     *)
(* discards the one that was registered last.  Calls of a message run side *)
(* by side, resolve being a shared tool, and an abort answers a call while *)
(* what it has begun goes on (untilAborted).                               *)
(*                                                                         *)
(* The loop's gate is the rule of BeginTurn: while a preview is pending a  *)
(* turn runs nothing but resolve, unless another choice was forced.  What  *)
(* applying or rejecting does, and how long it takes, is external.         *)
(***************************************************************************)
EXTENDS Naturals, Sequences, FiniteSets

CONSTANTS
    Calls,          \* tool calls of all turns
    MaxPreviews     \* bound: previews staged

Previews == 1 .. MaxPreviews
Nothing == 0

VARIABLES
    pending,    \* #pendingInvokers
    minted,     \* pendingPreviewSeq
    call,       \* each call: where it is, whether it applies, the preview it works on
    turn,       \* the calls of the turn under way
    answered,   \* those that have their result
    applied,    \* how often the changes of each preview were made
    discarded   \* the previews that were rejected

vars == <<pending, minted, call, turn, answered, applied, discarded>>

Places == {"none", "stages", "resolves", "working", "worked", "over"}
Actions == {"apply", "discard"}

Ids(s) == {s[k] : k \in DOMAIN s}

TypeOK ==
    /\ pending \in Seq(Previews) /\ Cardinality(Ids(pending)) = Len(pending)
    /\ minted \in 0 .. MaxPreviews /\ Ids(pending) \cup discarded \subseteq 1 .. minted
    /\ call \in [Calls -> [at : Places, action : Actions, preview : Previews \cup {Nothing}]]
    /\ answered \subseteq turn /\ turn \subseteq Calls
    /\ applied \in [Previews -> 0 .. Cardinality(Calls)]

Init ==
    /\ pending = <<>> /\ minted = 0
    /\ call = [c \in Calls |-> [at |-> "none", action |-> "apply", preview |-> Nothing]]
    /\ turn = {} /\ answered = {}
    /\ applied = [p \in Previews |-> 0] /\ discarded = {}

-----------------------------------------------------------------------------
(* The registry.                                                           *)

Removed(s, p) == SelectSeq(s, LAMBDA q : q # p)

Registered(s, p) == Append(Removed(s, p), p)

-----------------------------------------------------------------------------
BeginTurn(staging, resolving) ==
    /\ answered = turn
    /\ staging \cup resolving # {} /\ staging \cap resolving = {}
    /\ \A c \in staging \cup resolving : call[c].at = "none"
    /\ pending # <<>> => staging = {} \/ resolving = {}
    /\ turn' = staging \cup resolving /\ answered' = {}
    /\ \E action \in [resolving -> Actions] :
        call' = [c \in Calls |->
                    CASE c \in staging -> [call[c] EXCEPT !.at = "stages"]
                      [] c \in resolving -> [call[c] EXCEPT !.at = "resolves", !.action = action[c]]
                      [] OTHER -> call[c]]
    /\ UNCHANGED <<pending, minted, applied, discarded>>

Over(c) == call' = [call EXCEPT ![c].at = "over"] /\ answered' = answered \cup ({c} \cap turn)

\* queueResolveHandler
Stage(c) ==
    /\ call[c].at = "stages" /\ minted < MaxPreviews
    /\ minted' = minted + 1
    /\ pending' = Registered(pending, minted + 1)
    /\ Over(c)
    /\ UNCHANGED <<turn, applied, discarded>>

\* There is nothing to change, or the call was aborted before it began.
StagesNothing(c) ==
    /\ call[c].at = "stages" /\ Over(c)
    /\ UNCHANGED <<pending, minted, turn, applied, discarded>>

\* execute() takes the head; nothing is pending, or the invoker runs up to its await.
Execute(c) ==
    /\ call[c].at = "resolves" /\ c \notin answered
    /\ IF pending = <<>>
       THEN Over(c)
       ELSE /\ call' = [call EXCEPT ![c].at = "working", ![c].preview = pending[Len(pending)]]
            /\ UNCHANGED answered
    /\ UNCHANGED <<pending, minted, turn, applied, discarded>>

\* The changes are made, or the caller's reject() has run.
Works(c) ==
    /\ call[c].at = "working"
    /\ call' = [call EXCEPT ![c].at = "worked"]
    /\ IF call[c].action = "apply"
       THEN applied' = [applied EXCEPT ![call[c].preview] = @ + 1] /\ UNCHANGED discarded
       ELSE discarded' = discarded \cup {call[c].preview} /\ UNCHANGED applied
    /\ UNCHANGED <<pending, minted, turn, answered>>

\* The preview is consumed.
Consumes(c) ==
    /\ call[c].at = "worked"
    /\ pending' = Removed(pending, call[c].preview)
    /\ Over(c)
    /\ UNCHANGED <<minted, turn, applied, discarded>>

\* apply() throws and onApplyError registers the preview again; when reject() throws it has
\* not been removed.
Fails(c) ==
    /\ call[c].at = "working"
    /\ pending' = IF call[c].action = "apply" THEN Registered(pending, call[c].preview) ELSE pending
    /\ Over(c)
    /\ UNCHANGED <<minted, turn, applied, discarded>>

\* untilAborted: the calls are answered; what has begun is not stopped, and may stage later.
Abort ==
    /\ answered # turn
    /\ answered' = turn
    /\ call' = [c \in Calls |-> IF c \in turn /\ call[c].at = "resolves"
                                THEN [call[c] EXCEPT !.at = "over"] ELSE call[c]]
    /\ UNCHANGED <<pending, minted, turn, applied, discarded>>

Next ==
    \/ \E staging, resolving \in SUBSET Calls : BeginTurn(staging, resolving)
    \/ \E c \in Calls : \/ Stage(c) \/ StagesNothing(c) \/ Execute(c)
                        \/ Works(c) \/ Consumes(c) \/ Fails(c)
    \/ Abort

Spec == Init /\ [][Next]_vars

-----------------------------------------------------------------------------
(* Properties.                                                             *)

\* A preview that has been neither applied nor rejected can still be resolved, however often
\* applying it failed and whichever other previews were resolved meanwhile.
NeverDropped ==
    \A p \in 1 .. minted : applied[p] = 0 /\ p \notin discarded => p \in Ids(pending)

\* A staged action is consumed exactly once: its changes are made once at most.
AppliedOnce == \A p \in Previews : applied[p] <= 1

=============================================================================
