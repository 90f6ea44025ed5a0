CONSTANTS
    Worker = {w1, w2}
    Role = {"seller"}
    AccessLife = 2
    MaxRotations = 1
    MaxDocFaults = 2
    Order = {o1, o2}
    Client = {c1, c2}
    MaxDbFailures = 1
    MaxAbandons = 1
SPECIFICATION StorefrontSpec
INVARIANTS
    AccessTypeOK
    SessionEndsAccess
    RolesCatchUp
    RefusalHasCause
    StrayCallsOnlyRead
    PageIsFaithful
    MissingHasCause
    ClientsTypeOK
    NotFoundHasCause
    NoOrderUnaccounted
PROPERTY
    AnswersNeverGoBack
SYMMETRY Symmetry
CHECK_DEADLOCK FALSE
