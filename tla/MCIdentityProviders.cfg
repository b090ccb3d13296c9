CONSTANTS
    Requests = {r1, r2}
    Organizations = {o1, o2}
    RowSlugs = {s1, s2}
    Aliases = {a1, a2}
    s1 = s1
    a1 = a1
    Others = {}
    Dtos <- MCDtos
    Changes <- MCChanges
    Earlier = Earlier
    NoRow = NoRow
    NoProvider = NoProvider
    NoAlias = NoAlias
    NoRowSlug = NoRowSlug
    Unset = Unset
SPECIFICATION ProvidersSpec
INVARIANTS
    ListMatchesKeycloak
    OrganizationMapped
    MappersAsSaved
SYMMETRY RequestSymmetry
CHECK_DEADLOCK FALSE
