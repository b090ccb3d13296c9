SPECIFICATION Spec
CONSTANTS
    r1 = r1
    r2 = r2
    r3 = r3
    r4 = r4
    ann = ann
    ANN = ANN
    bob = bob
    Requests <- MCRequests
    Idps = {i1, i2}
    Addresses <- MCAddresses
    Normalized <- MCNormalized
    NoRow = NoRow
    NoIdp = NoIdp
    NoCall = NoCall
    NoId = NoId
SYMMETRY Symmetry
CHECK_DEADLOCK FALSE
INVARIANTS
    TypeOK
    ProfileOfOwner
    SteadyUserNeverRefused
    StableIdentity
    SeparateIdentities
PROPERTIES
    TokenNeverOverwrites
