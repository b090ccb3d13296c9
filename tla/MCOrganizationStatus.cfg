SPECIFICATION Spec
CONSTANTS
    Guards = {g1}
    Admins = {a1, a2}
    Orgs = {o1, o2}
    Slugs = {s1, s2}
    NoOrg = NoOrg
    NoSlug = NoSlug
    Keep = Keep
    Empty = Empty
INVARIANTS
    StaleOnlyForAReason
PROPERTIES
    EventuallyFresh
