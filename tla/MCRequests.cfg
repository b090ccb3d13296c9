CONSTANTS
    c1 = c1
    c2 = c2
    n1 = n1
    e1 = e1
    e2 = e2
    e3 = e3
    o1 = o1
    o2 = o2
    k = k
    Clients = {c1, c2}
    Sessions <- MCSessions
    NoteIds = {n1}
    Submissions <- MCSubmissions
    Units <- MCUnits
    NoNote = NoNote
    Enrollments = {e1, e2, e3}
    Orgs = {o1, o2}
    Slugs = {"a", "b", "c"}
    Courses = {k}
    Dates = {0, 1, 2}
    Today = 1
    InitialSlugs <- MCInitialSlugs
    Undated = Undated
    NoRow = NoRow
    NoOrg = NoOrg
SPECIFICATION Spec
INVARIANTS
    ChangesArePermitted
    AsksOwnOrganization
    NotesStay
    QueriesAgree
