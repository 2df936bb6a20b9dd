------------------------------ MODULE MCToolBatch ------------------------------
(* Instances of ToolBatch for TLC.                                         *)
EXTENDS ToolBatch

Plain == [exclusive |-> FALSE, valid |-> TRUE, interruptible |-> FALSE, stuck |-> FALSE]
Alone == [Plain EXCEPT !.exclusive = TRUE]
Invalid == [Plain EXCEPT !.valid = FALSE]
Poll == [Plain EXCEPT !.interruptible = TRUE, !.stuck = TRUE]

AllKinds == {Plain, Alone, Invalid, Poll}
=============================================================================
