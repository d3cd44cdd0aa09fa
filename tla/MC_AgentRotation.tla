--------------------------- MODULE MC_AgentRotation ---------------------------
(* Small instances of AgentRotation. *)
EXTENDS AgentRotation, TLC

CONSTANTS x, y, n, c1, c2

MC_Symmetry == Permutations(Auths) \union Permutations(Callers)
===============================================================================
