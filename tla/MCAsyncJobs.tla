------------------------------ MODULE MCAsyncJobs ------------------------------
(* Instances of AsyncJobs for TLC.                                         *)
EXTENDS AsyncJobs, TLC

\* The manager compares ids and agents for equality only: they may be permuted.
IdSymmetry == Permutations(Ids) \cup Permutations(Owners)
=============================================================================
