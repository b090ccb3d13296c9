------------------------ MODULE MCSummaryPopulation ------------------------
(* SummaryPopulation for TLC: requests are interchangeable, and so are      *)
(* users, whose order is in place.                                          *)
EXTENDS SummaryPopulation, TLC

MCPlaces == 0 .. Cardinality(Users)

\* Bound: at first the place before all others is free.  As only the order of users
\* counts, the one rename there may be does there whatever it can do.
MCInit == PopulationInit /\ \A u \in Users : place[u] # 0

MCSpec == MCInit /\ [][PopulationNext]_populationVars

Symmetry == Permutations(Summaries) \cup Permutations(Users)
=============================================================================
