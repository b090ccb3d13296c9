SPECIFICATION Spec
CONSTANTS
    Requests = {r1, r2, r3}
    Users = {u1, u2}
    Items = {i1}
    MaxProgress = 2
    MaxTime = 2
    NoRow = NoRow
    NoTime = NoTime
    NoCall = NoCall
SYMMETRY Symmetry
CHECK_DEADLOCK FALSE
INVARIANTS
    TypeOK
    OneCreatorPerRow
    AcknowledgedProgressKept
    AcknowledgedCompletionKept
    UndatedOnlyFromPutInsert
PROPERTIES
    ImplementsLedger
