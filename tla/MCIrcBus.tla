------------------------------- MODULE MCIrcBus --------------------------------
(* One revivable agent; m1 and m2 come from one peer, m3 from another, and *)
(* the wait is for the first peer's messages.                              *)
EXTENDS IrcBus

MCTo == [m \in Callers |-> "a"]
MCFrom == [m \in Callers |-> IF m = "m3" THEN "q" ELSE "p"]
MCWaitFrom == [w \in Waits |-> "p"]
=============================================================================
