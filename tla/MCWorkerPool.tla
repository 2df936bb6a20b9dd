----------------------------- MODULE MCWorkerPool ------------------------------
(* An instance of WorkerPool for TLC.                                      *)
EXTENDS WorkerPool

\* All deliveries are of one issue: they may not be worked on together.
SameIssue == [e \in Events |-> "i1"]
=============================================================================
