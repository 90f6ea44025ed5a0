\* Requests that overlap as they like.
CONSTANTS
    User = {a, b}
    Founder = a
    Request = {r1, r2, r3}
    Ops = {"register", "login", "relink", "verify", "refresh", "logout", "seller", "promote"}
    Serial = FALSE
    LinkLife = 0
    SessionLife = 1
    MaxClock = 1
    MaxFailures = 1
SYMMETRY Symmetry
SPECIFICATION Spec
INVARIANTS AnAdminExists NothingUndone
CHECK_DEADLOCK FALSE
