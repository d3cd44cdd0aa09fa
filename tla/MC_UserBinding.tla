---------------------------- MODULE MC_UserBinding ----------------------------
(* Small instances of UserBinding. *)
EXTENDS UserBinding, TLC

Interchangeable == Permutations(Logins) \cup Permutations(Subjects)
===============================================================================
