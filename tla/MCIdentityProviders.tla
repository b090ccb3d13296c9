------------------------ MODULE MCIdentityProviders ------------------------
(* Two organizations, each there or still to come, two slugs, two aliases,  *)
(* of which either may have a provider at first, and two requests.  A       *)
(* provider has a unit matcher or none; an update of an organization        *)
(* changes its slug, its list or neither.                                   *)
EXTENDS IdentityProviders, TLC

CONSTANTS s1, a1

MCDtos == [units : BOOLEAN, others : {{}}]

MCChanges ==
    {[slug |-> Unset, sets |-> FALSE, list |-> {}], [slug |-> s1, sets |-> FALSE, list |-> {}],
     [slug |-> Unset, sets |-> TRUE, list |-> {a1}]}

RequestSymmetry == Permutations(Requests)
=============================================================================
