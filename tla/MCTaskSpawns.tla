--------------------------- MODULE MCTaskSpawns ------------------------------
(* Two fan-outs of two items: with a worker and a permit for each item (f),*)
(* and with one worker and no permits (g); a job and an awaited spawn.     *)
EXTENDS TaskSpawns
CONSTANTS f, g, j, s

MCItemsOf == [c \in Fanouts |-> 2]
MCLimitOf == [c \in Fanouts |-> IF c = g THEN 1 ELSE 2]
=============================================================================
