CONSTANTS
    r1 = r1
    r2 = r2
    r3 = r3
    Users = {"u"}
    Requests = {r1, r2, r3}
    Org = "a"
    Slugs = {"x", "xx", "y", "z"}
    Groups = {"training", "other"}
    Training = "training"
    AllowedGroups = {"other"}
    NoAccount = NoAccount
    Unsure = Unsure
    Asks <- MCAsks
    Layouts <- MCLayouts
    Beginnings <- MCBeginnings
SYMMETRY Symmetry
SPECIFICATION Spec
INVARIANTS
    PathOfUnit
    ActivationAsAnswered
    TrainingAsAnswered
