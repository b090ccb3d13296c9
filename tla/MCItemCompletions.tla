------------------------- MODULE MCItemCompletions --------------------------
(* ItemCompletions for TLC: requests and participants are interchangeable. *)
EXTENDS ItemCompletions, TLC

Symmetry == Permutations(Requests) \cup Permutations(Users)
=============================================================================
