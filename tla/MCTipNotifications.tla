------------------------- MODULE MCTipNotifications -------------------------
(* TipNotifications for TLC: the default units of two organizations, which  *)
(* have the same slug, and only the first has a group.                      *)
EXTENDS TipNotifications

CONSTANTS org1, org2, unit1, unit2, unassigned, ann, bob, tip1, tip2

MCOrgOf == [u \in {unit1, unit2} |-> IF u = unit1 THEN org1 ELSE org2]

MCSlugOf == [u \in {unit1, unit2} |-> unassigned]

\* Bound: two tips while nothing breaks; where it does one tip, and bob stays
\* in the legacy group of unit1 or leaves it.
OneTipIfBroken ==
    faults' = 0 \/ (tips'[tip2].pc = "new" /\ place'[bob] \in {<<"group", unit1>>, None})
=============================================================================
