------------------------------ MODULE EventLedger ------------------------------
(***************************************************************************)
(* What robomp's event queue promises, without its table, dispatcher,      *)
(* slots and threads: an accepted event waits until it is worked on, the   *)
(* events of one issue are worked on one at a time, an interrupted event   *)
(* waits again, and a finished one is worked on again only when an         *)
(* operator asks.  WorkerPool implements this specification.               *)
(***************************************************************************)
EXTENDS Naturals

CONSTANTS
    Events,     \* deliveries
    IssueOf     \* IssueOf[e] is the issue the delivery is about

VARIABLES
    ledger,     \* where each event stands
    asked       \* how many times an operator has asked for a rerun

vars == <<ledger, asked>>

Stages == {"absent", "waiting", "working", "done", "failed"}

Init ==
    /\ ledger = [e \in Events |-> "absent"]
    /\ asked = 0

Working == {e \in Events : ledger[e] = "working"}

Move(e, stage) == ledger' = [ledger EXCEPT ![e] = stage]

Accept(e) == ledger[e] = "absent" /\ Move(e, "waiting") /\ UNCHANGED asked

\* Work on an issue is exclusive.
Begin(e) ==
    /\ ledger[e] = "waiting"
    /\ \A f \in Working : IssueOf[f] # IssueOf[e]
    /\ Move(e, "working")
    /\ UNCHANGED asked

Finish(e) ==
    /\ ledger[e] = "working"
    /\ Move(e, "done") \/ Move(e, "failed")
    /\ UNCHANGED asked

\* A failed attempt that is to be retried, a shutdown, a crash: the event is
\* not lost.
Interrupt(S) ==
    /\ S # {}
    /\ ledger' = [e \in Events |-> IF e \in S THEN "waiting" ELSE ledger[e]]
    /\ UNCHANGED asked

Reopen(e) ==
    /\ ledger[e] \in {"done", "failed"}
    /\ Move(e, "waiting")
    /\ asked' = asked + 1

Next ==
    \/ \E e \in Events : Accept(e) \/ Begin(e) \/ Finish(e) \/ Reopen(e)
    \/ \E S \in SUBSET Working : Interrupt(S)

Spec == Init /\ [][Next]_vars
=============================================================================
