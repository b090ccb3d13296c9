SPECIFICATION MCSpec
CONSTANTS
    Requests = {r1, r2, r3}
    Forms = {f1, f2}
    Slugs = {s1}
    Languages = {en}
    copy = copy
    Fields = {p1, copy}
    Patches <- MCPatches
    Labels = {q1, q2}
    Numbers = {0, 2}
    MaxVersion = 3
    NoForm = NoForm
    NoLanguage = NoLanguage
    NoField = NoField
    Gone = Gone
    Keep = Keep
SYMMETRY Symmetry
ACTION_CONSTRAINT OnlyCopied
CHECK_DEADLOCK FALSE
INVARIANTS
    PublishedForGood
    QuestionsKept
    LatestIsPublished
