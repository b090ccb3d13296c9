----------------------- MODULE MCUserRepresentations ------------------------
(* UserRepresentations for TLC: two mailboxes, one of them spelled twice. *)
EXTENDS UserRepresentations, TLC

CONSTANTS r1, r2, r3, r4, ann, ANN, bob

MCRequests == {r1, r2, r3, r4}
MCAddresses == {ann, ANN, bob}
MCNormalized == [a \in MCAddresses |-> IF a = ANN THEN ann ELSE a]

Symmetry == Permutations(MCRequests) \cup Permutations(Idps)
=============================================================================
