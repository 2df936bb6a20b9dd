-------------------------------- MODULE IrcBus ---------------------------------
(***************************************************************************)
(* The mailbox bus between agents (irc/bus.ts) on top of AgentLifecycle:   *)
(* sends that revive a parked recipient first, waits of the recipient's    *)
(* irc tool calls, and the mailbox that keeps what could not be handed     *)
(* over.  Senders are live peers.  An awaited send waits for its answer    *)
(* as a wait that does not drain the mailbox (tools/irc.ts).               *)
(*                                                                         *)
(* Definitions named ..._Fault are not part of the model: each is a bug    *)
(* the definition after it could have, for which a property must fail.     *)
(***************************************************************************)
EXTENDS AgentLifecycle, SequencesExt

CONSTANTS
    To,         \* the recipient of each message; Callers is the set of messages
    From,       \* the peer that sends it
    Waits,      \* wait calls
    WaitFrom,   \* the peer a wait filters for, None for any
    Drains,     \* the waits with drainPending
    MailboxCap  \* MAILBOX_CAP

Messages == Callers
ASSUME BusAssumption ==
    /\ To \in [Messages -> Agents] /\ MailboxCap \in Nat \ {0}
    /\ Drains \subseteq Waits /\ DOMAIN From = Messages /\ DOMAIN WaitFrom = Waits
    /\ None \notin Waits

VARIABLES
    mailbox,    \* #mailboxes, of each agent
    waiters,    \* #waiters, of each agent
    receipt,    \* of each message: None, "reviving", "injected", "woken", "revived", "failed"
    wait,       \* of each wait: None, "waiting", "message", "timeout", "aborted"
    waitOf,     \* the session whose irc tool call it is
    answer,     \* the message it returned
    taken       \* history: how each message left the bus, of "waiter", "session", "wait",
                \* "inbox" and "dropped"

bus == <<mailbox, waiters, receipt, wait, waitOf, answer, taken>>
vars == <<lifecycle, bus>>

TypeOK ==
    /\ LifecycleTypeOK
    /\ mailbox \in [Agents -> Seq(Messages)]
    /\ waiters \in [Agents -> Seq(Waits)]
    /\ \A a \in Agents :
        /\ Len(mailbox[a]) <= MailboxCap
        /\ IsInjective(waiters[a])
        /\ ToSet(waiters[a]) = {w \in Waits : wait[w] = "waiting" /\ owner[waitOf[w]] = a}
    /\ receipt \in [Messages -> {None, "reviving", "injected", "woken", "revived", "failed"}]
    /\ wait \in [Waits -> {None, "waiting", "message", "timeout", "aborted"}]
    /\ waitOf \in [Waits -> Sessions \cup {None}]
    /\ answer \in [Waits -> Messages \cup {None}]
    /\ taken \in [Messages -> SUBSET {"waiter", "session", "wait", "inbox", "dropped"}]

Init ==
    /\ LifecycleInit
    /\ mailbox = [a \in Agents |-> <<>>] /\ waiters = [a \in Agents |-> <<>>]
    /\ receipt = [m \in Messages |-> None] /\ taken = [m \in Messages |-> {}]
    /\ wait = [w \in Waits |-> None] /\ waitOf = [w \in Waits |-> None]
    /\ answer = [w \in Waits |-> None]

Accepts(filter, m) == filter \in {None, From[m]}
Takes(m, how) == [taken EXCEPT ![m] = @ \cup {how}]

\* #removeWaiter
Without(s, x) ==
    LET at == {k \in DOMAIN s : s[k] = x}
    IN  IF at = {} THEN s ELSE RemoveAt(s, Min(at))

-----------------------------------------------------------------------------
(* send                                                                    *)

Outcome(m, delivery) == IF receipt[m] = "reviving" THEN "revived" ELSE delivery

\* Where the waiters are whose filter accepts the sender.
Matching(m) == {k \in DOMAIN waiters[To[m]] : Accepts(WaitFrom[waiters[To[m]][k]], m)}

\* #takeMatchingWaiter takes the oldest one.
ResolveWaiter(m) ==
    LET first == Min(Matching(m))
        w == waiters[To[m]][first]
    IN  /\ waiters' = [waiters EXCEPT ![To[m]] = RemoveAt(@, first)]
        /\ wait' = [wait EXCEPT ![w] = IF @ = "waiting" THEN "message" ELSE @]
        /\ answer' = [answer EXCEPT ![w] = m]
        /\ taken' = Takes(m, "waiter")

\* #enqueue: the oldest message makes room.
Enqueue(m) ==
    LET box == Append(mailbox[To[m]], m) IN
        IF Len(box) > MailboxCap
        THEN mailbox' = [mailbox EXCEPT ![To[m]] = Tail(box)] /\ taken' = Takes(Head(box), "dropped")
        ELSE mailbox' = [mailbox EXCEPT ![To[m]] = box] /\ UNCHANGED taken

\* deliverIrcMessage refuses when the session is being disposed of; an idle session is
\* woken.
Deliver(m, s) ==
    IF state[s] = "live"
    THEN /\ turn' = [turn EXCEPT ![s] = IF @ = None THEN "accepted" ELSE @]
         /\ receipt' = [receipt EXCEPT ![m] = Outcome(m, IF turn[s] = None THEN "woken" ELSE "injected")]
         /\ taken' = Takes(m, "session")
         /\ UNCHANGED mailbox
    ELSE Enqueue(m) /\ receipt' = [receipt EXCEPT ![m] = "failed"] /\ UNCHANGED turn

Fails(m) == receipt' = [receipt EXCEPT ![m] = "failed"] /\ UNCHANGED <<mailbox, taken, turn>>

\* What send does when it need not revive, or no longer: a waiter comes first, then the
\* session the registry names by now.
HandOver_SessionFirst_Fault(m) ==
    IF attached[To[m]] = None /\ Matching(m) # {}
    THEN /\ ResolveWaiter(m)
         /\ receipt' = [receipt EXCEPT ![m] = Outcome(m, "injected")]
         /\ UNCHANGED <<mailbox, turn>>
    ELSE /\ IF attached[To[m]] # None THEN Deliver(m, attached[To[m]]) ELSE Fails(m)
         /\ UNCHANGED <<waiters, wait, answer>>
HandOver(m) ==
    IF Matching(m) # {}
    THEN /\ ResolveWaiter(m)
         /\ receipt' = [receipt EXCEPT ![m] = Outcome(m, "injected")]
         /\ UNCHANGED <<mailbox, turn>>
    ELSE /\ IF attached[To[m]] # None THEN Deliver(m, attached[To[m]]) ELSE Fails(m)
         /\ UNCHANGED <<waiters, wait, answer>>

\* A recipient that is not parked gets the message at once.
Send(m) ==
    /\ receipt[m] = None /\ status[To[m]] # "parked"
    /\ IF status[To[m]] = None THEN Fails(m) /\ UNCHANGED <<waiters, wait, answer>> ELSE HandOver(m)
    /\ UNCHANGED <<refs, manager, state, owner, calls, history, waitOf>>

\* A parked one is revived first.
SendRevives(m) ==
    /\ receipt[m] = None /\ status[To[m]] = "parked"
    /\ receipt' = [receipt EXCEPT ![m] = "reviving"]
    /\ EnsureLive(m, To[m])
    /\ UNCHANGED <<mailbox, waiters, wait, waitOf, answer, taken>>

Continues(m) == receipt[m] = "reviving" /\ caller[m] \in {"got", "failed"}

SendGoesOn(m) ==
    /\ Continues(m)
    /\ IF caller[m] = "failed" THEN Fails(m) /\ UNCHANGED <<waiters, wait, answer>> ELSE HandOver(m)
    /\ UNCHANGED <<refs, manager, state, owner, calls, history, waitOf>>

-----------------------------------------------------------------------------
(* wait and inbox, called by a tool in a turn of the agent.                *)

MayCall(s) == state[s] = "live" /\ turn[s] \in {"running", "unseen"}

\* Where the mail is that a wait accepts.
Pending(w, a) == {k \in DOMAIN mailbox[a] : Accepts(WaitFrom[w], mailbox[a][k])}

Wait(w, s) ==
    /\ wait[w] = None /\ MayCall(s)
    /\ waitOf' = [waitOf EXCEPT ![w] = s]
    /\ LET a == owner[s] IN
        IF w \in Drains /\ Pending(w, a) # {}
        THEN LET first == Min(Pending(w, a))
                 m == mailbox[a][first]
             IN  /\ mailbox' = [mailbox EXCEPT ![a] = RemoveAt(@, first)]
                 /\ wait' = [wait EXCEPT ![w] = "message"]
                 /\ answer' = [answer EXCEPT ![w] = m]
                 /\ taken' = Takes(m, "wait")
                 /\ UNCHANGED waiters
        ELSE /\ waiters' = [waiters EXCEPT ![a] = Append(@, w)]
             /\ wait' = [wait EXCEPT ![w] = "waiting"]
             /\ UNCHANGED <<mailbox, answer, taken>>
    /\ UNCHANGED <<lifecycle, receipt>>

\* The cleanup of a waiter that ends without a message.
WaitEnds_StillRegistered_Fault(w, how) ==
    /\ wait' = [wait EXCEPT ![w] = how]
    /\ UNCHANGED <<lifecycle, mailbox, receipt, waitOf, answer, taken, waiters>>
WaitEnds(w, how) ==
    /\ waiters' = [waiters EXCEPT ![owner[waitOf[w]]] = Without(@, w)]
    /\ wait' = [wait EXCEPT ![w] = how]
    /\ UNCHANGED <<lifecycle, mailbox, receipt, waitOf, answer, taken>>

TimesOut(w) == wait[w] = "waiting" /\ WaitEnds(w, "timeout")

\* The turn is interrupted or the session's disposal aborts it.
Aborts(w) == wait[w] = "waiting" /\ WaitEnds(w, "aborted")

Inbox(a) ==
    /\ mailbox[a] # <<>> /\ \E s \in Sessions : owner[s] = a /\ MayCall(s)
    /\ mailbox' = [mailbox EXCEPT ![a] = <<>>]
    /\ taken' = [m \in Messages |-> IF m \in ToSet(mailbox[a]) THEN taken[m] \cup {"inbox"} ELSE taken[m]]
    /\ UNCHANGED <<lifecycle, waiters, receipt, wait, waitOf, answer>>

-----------------------------------------------------------------------------
\* A turn ends after its tool calls, disposal after it has aborted them.
Waiting(s) == \E w \in Waits : wait[w] = "waiting" /\ waitOf[w] = s

\* Whoever awaited a revival goes on before anything else happens.
Quiet == \A m \in Messages : ~Continues(m)

Revives(c) == Quiet /\ Revival(c) /\ UNCHANGED bus
Expires(a) == Quiet /\ TimerFires(a) /\ UNCHANGED bus
Disposed(a) ==
    /\ Quiet /\ UNCHANGED bus
    /\ \/ ParkEnds(a) /\ ~Waiting(parking[a])
       \/ KillEnds(a) /\ ~Waiting(killing[a])
Turns(s) ==
    /\ Quiet /\ UNCHANGED bus
    /\ \/ TurnStarts(s)
       \/ TurnEnds(s) /\ ~Waiting(s)
Orders ==
    /\ Quiet /\ UNCHANGED bus
    /\ \/ \E a \in Agents : Kill(a) \/ Scan(a)
       \/ \E s \in Sessions : AcceptTurn(s)
Calls ==
    /\ Quiet
    /\ \/ \E m \in Messages : Send(m) \/ SendRevives(m)
       \/ \E w \in Waits, s \in Sessions : Wait(w, s)
       \/ \E w \in Waits : Aborts(w)
       \/ \E a \in Agents : Inbox(a)

Next ==
    \/ \E a \in Agents : Expires(a) \/ Disposed(a)
    \/ \E s \in Sessions : Turns(s)
    \/ \E m \in Messages : Revives(m) \/ SendGoesOn(m)
    \/ \E w \in Waits : Quiet /\ TimesOut(w)
    \/ Orders \/ Calls

\* Revivals, disposals and turns come to an end, timers fire, continuations run.
Fairness ==
    /\ \A a \in Agents : WF_vars(Expires(a)) /\ WF_vars(Disposed(a))
    /\ \A s \in Sessions : WF_vars(Turns(s))
    /\ \A m \in Messages : WF_vars(Revives(m)) /\ WF_vars(SendGoesOn(m))
    /\ \A w \in Waits : WF_vars(Quiet /\ TimesOut(w))

Spec == Init /\ [][Next]_vars /\ Fairness

-----------------------------------------------------------------------------
(* Properties                                                              *)

\* A message is in the mailbox or has left the bus in one way, never twice: what a
\* waiter or the session got is not buffered, so that a later wait does not see it again.
TakenOnce ==
    \A m \in Messages :
        Cardinality(taken[m]) + (IF m \in ToSet(mailbox[To[m]]) THEN 1 ELSE 0) <= 1

\* The sender is told the truth: it reads another outcome than "failed" exactly when
\* a wait of the recipient returned the message or its session took it.
ReceiptIsTrue ==
    \A m \in Messages :
        /\ receipt[m] \in {"injected", "woken", "revived"}
            <=> \/ "session" \in taken[m]
                \/ "waiter" \in taken[m] /\ \E w \in Waits : wait[w] = "message" /\ answer[w] = m
        /\ taken[m] \cap {"wait", "inbox", "dropped"} # {} => receipt[m] = "failed"

\* A message ends in one place, and its sender knows where.
Accounted == TypeOK /\ TakenOnce /\ ReceiptIsTrue

\* No call waits for a message that lies in its mailbox, whichever of the send, the
\* disposal of the recipient and the wait comes first.
NoMailWhileWaiting ==
    \A a \in Agents : \A w \in ToSet(waiters[a]) : w \in Drains => Pending(w, a) = {}

\* Every send gets its receipt, through revivals that fail, disposals and kills.
SendSettles == \A m \in Messages : receipt[m] = "reviving" ~> receipt[m] \notin {None, "reviving"}

\* Every live session of an agent that nobody gives work is parked in the end, unless the
\* reviver failed after the session was attached: its agent stays "running", and no timer runs.
IdleIsParked ==
    \A s \in Sessions :
        []<>(state[s] # "live" \/ turn[s] # None \/ owner[s] \in killed \/ s \in unheard)

\* The timer parks the agents that are idle: all of them in the end, and no others.
TimerParksIdle == TimerSparesTurns /\ IdleIsParked
=============================================================================
