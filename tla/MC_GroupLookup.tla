---------------------------- MODULE MC_GroupLookup ----------------------------
(* Small instances of GroupLookup. *)
EXTENDS GroupLookup

CONSTANTS devs, typo, guest

Relation(g, spelling, external, forum) ==
    [id |-> [group |-> g, spelling |-> spelling], namespace |-> external,
     discussionForum |-> forum]

\* One relation for every branch of gateRelations.
Kinds ==
    {Relation(devs, "lower", FALSE, TRUE), Relation(devs, "mixed", FALSE, TRUE),
     Relation(devs, "lower", TRUE, TRUE), Relation(devs, "lower", FALSE, FALSE),
     Relation(typo, "lower", FALSE, TRUE), Relation(guest, "lower", FALSE, TRUE)}
===============================================================================
