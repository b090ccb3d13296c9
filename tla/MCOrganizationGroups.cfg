SPECIFICATION Spec
CONSTANTS
    Requests = {r1, r2, r3}
    Units = {u1, u2}
    Names = {n1, n2}
    MaxGroup = 9
    TheOrg = TheOrg
    NoRow = NoRow
    NoGroup = NoGroup
SYMMETRY Symmetry
CHECK_DEADLOCK FALSE
INVARIANTS
    DefaultUnitUnlessSpoiled
    LinkedGroupExists
    UnlinkedOnlyForAReason
