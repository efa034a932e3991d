------------------------------ MODULE MCMemory ------------------------------
(* Instances of Memory for TLC.                                            *)
EXTENDS Memory, TLC

CONSTANTS x1, x2, tool1, tool2

Homes == [c \in Calls |-> IF c \in {tool1, tool2} THEN "aggregator" ELSE "bot"]
Attempts == [c \in Calls |-> IF c = tool1 THEN 1 ELSE 0]
Perms == Permutations(Items)
=============================================================================
