SPECIFICATION MCSpec
CONSTANTS
    Users = {u1, u2}
    Places <- MCPlaces
    PageSize = 1
    Members = {p1}
    Summaries = {s1, s2}
    MaxChanges = 1
    NoMember = NoMember
SYMMETRY Symmetry
CHECK_DEADLOCK FALSE
INVARIANTS
    MissedOnlyForAReason
