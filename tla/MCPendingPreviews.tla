--------------------------- MODULE MCPendingPreviews ---------------------------
(* Five calls, which are interchangeable.                                  *)
EXTENDS PendingPreviews, TLC
CONSTANTS a, b, c, d, e

MCSymmetry == Permutations(Calls)
=============================================================================
