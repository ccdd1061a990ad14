------------------------------ MODULE MCReadModel ------------------------------
(* An incident that is fixed and recurs; one that escalates beside one     *)
(* that is rolled back.                                                    *)
EXTENDS ReadModel

CONSTANTS s1, s2

Put(t, s, first, result) == [topic |-> t, sit |-> s, first |-> first, result |-> result]

MCRecurs ==
  << Put("detected", s1, 1, "none"), Put("diagnosed", s1, 1, "none"),
     Put("outcomes", s1, 1, "success"), Put("detected", s1, 4, "none") >>
MCTwo ==
  << Put("detected", s1, 1, "none"), Put("outcomes", s1, 1, "escalated"),
     Put("suppressed", s2, 3, "none"), Put("detected", s2, 4, "none"),
     Put("outcomes", s2, 4, "rolled_back") >>
MCHistories == {MCRecurs, MCTwo}

Set(delivery, rebuild) == [delivery |-> delivery, rebuild |-> rebuild]
MCSettings == {Set("at_least_once", TRUE), Set("at_most_once", FALSE)}
MCReplaying == {Set("at_most_once", TRUE)}
================================================================================
