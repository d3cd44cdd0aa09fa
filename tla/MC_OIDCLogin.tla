----------------------------- MODULE MC_OIDCLogin -----------------------------
(* Small instances of OIDCLogin. *)
EXTENDS OIDCLogin, TLC

CONSTANTS s1, s2, p1, p2, b1, b2, a1, a2, d1, d2

\* a1 is in the first Workspace; a2 has a hosted domain but an address in the
\* other domain, so that the two domain checks differ.
MC_Hosted == [a \in Accounts |-> d1]
MC_Email == [a \in Accounts |-> IF a = a1 THEN d1 ELSE d2]

\* State tokens and browsers are interchangeable; accounts and domains are not.
MC_Symmetry == Permutations(States) \union Permutations(Browsers)

===============================================================================
