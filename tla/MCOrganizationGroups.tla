------------------------ MODULE MCOrganizationGroups ------------------------
(* OrganizationGroups for TLC: requests, units and names are interchangeable. *)
EXTENDS OrganizationGroups, TLC

Symmetry == Permutations(Requests) \cup Permutations(Units) \cup Permutations(Names)
=============================================================================
