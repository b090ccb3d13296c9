CONSTANTS
    Processes = {w1, w2}
    ann = ann
    ben = ben
    am = am
    bm = bm
    cm = cm
    u1 = u1
    u2 = u2
    Persons = {ann, ben}
    Mails = {am, bm, cm}
    HomeMail <- MCHomeMail
    CourseItems = {item}
    Units = {u1, u2}
    UnitOf <- MCUnitOf
    LinkDays = 2
    ReminderDays = 2
    NoOwner = NoOwner
    Scenarios <- MCScenarios
    Sections = 2
    Participants <- MCParticipants
    FirstDays <- MCFirstDays
    Lengths <- MCLengths
    Starts = {0}
    LastDay = 3
    PageSize = 1
    MaxDay = 3
SPECIFICATION MCSpec
SYMMETRY Symmetry
CHECK_DEADLOCK FALSE
INVARIANTS
    InvitationCarriedOut
    CountedOnce
    OnItsDay
    OncePerProcess
    FollowupOnlyToUnfinished
