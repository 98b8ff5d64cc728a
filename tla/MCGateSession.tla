--------------------------- MODULE MCGateSession ---------------------------
(* One session; a call that timed out and the next one of the same module, *)
(* or calls of two modules, work on it.                                    *)
EXTENDS GateSession, TLC
CopyOf == [c \in Copies |-> "s1"]
Alike == Permutations(Keys) \union Permutations(Calls)
=============================================================================
