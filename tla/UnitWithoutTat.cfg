SPECIFICATION Spec
CONSTANTS
    Requests = {r1, r2}
    Units = {u1}
    Names = {n1}
    MaxGroup = 6
    TheOrg = TheOrg
    NoRow = NoRow
    NoGroup = NoGroup
CHECK_DEADLOCK FALSE
INVARIANTS
    UnitHasTatGroup
