------------------------- MODULE MCTrainingReminders -------------------------
EXTENDS TrainingReminders, TLC

CONSTANTS ann, ben, am, bm, cm, u1, u2

MCHomeMail == [p \in Persons |-> IF p = ann THEN am ELSE bm]
MCUnitOf == [p \in Persons |-> IF p = ann THEN u1 ELSE u2]
MCLengths == {3}
\* What may happen in one behaviour: links with faults and administrators, links with
\* changes of address, links and reminders, reminders with faults, with administrators.
Bounds(o, i, v, m, f, e) ==
    [open |-> o, invitations |-> i, visits |-> v, moves |-> m, faults |-> f,
     edits |-> e]

MCPairs == {Bounds(TRUE, 0, 0, 0, 1, 0), Bounds(TRUE, 0, 0, 0, 0, 1)}

MCScenarios ==
    {Bounds(FALSE, 1, 0, 0, 1, 1), Bounds(FALSE, 1, 2, 1, 0, 0),
     Bounds(TRUE, 1, 1, 0, 0, 0), Bounds(TRUE, 0, 1, 1, 1, 0),
     Bounds(TRUE, 0, 1, 1, 0, 1),
     Bounds(TRUE, 0, 0, 0, 0, 2)}
    \cup MCPairs
MCParticipants == <<ann, ben>>
MCFirstDays == {5, 6}
Symmetry == Permutations(Processes)

\* Bound: one process runs where people act, two where nobody does.
MCInit ==
    /\ RemindersInit
    /\ Cardinality(running) = (IF scenario \in MCPairs THEN 2 ELSE 1)

MCSpec == MCInit /\ [][RemindersNext]_remindersVars
=============================================================================
