SPECIFICATION Spec
CONSTANTS
    org1 = org1
    org2 = org2
    unit1 = unit1
    unit2 = unit2
    unassigned = unassigned
    ann = ann
    bob = bob
    tip1 = tip1
    tip2 = tip2
    Tips = {tip1, tip2}
    Units = {unit1, unit2}
    Orgs = {org1, org2}
    Slugs = {unassigned}
    OrgOf <- MCOrgOf
    SlugOf <- MCSlugOf
    Linked = {unit1}
    Users = {ann, bob}
    Phones = {ann}
    Mails = {bob}
    Workers = {w1}
    MaxFaults = 2
    None = None
ACTION_CONSTRAINT OneTipIfBroken
CHECK_DEADLOCK FALSE
INVARIANTS
    NothingForgotten
    TwiceOnlyForAReason
    TatIsTold
PROPERTIES
    EventuallySettled
