\* Requests that wait for each other, with expiries and failures.
CONSTANTS
    User = {a, b}
    Founder = a
    Request = {r1, r2, r3, r4}
    Ops = {"register", "login", "relink", "verify", "refresh", "logout", "seller", "promote"}
    Serial = TRUE
    LinkLife = 0
    SessionLife = 1
    MaxClock = 2
    MaxFailures = 1
SYMMETRY Symmetry
SPECIFICATION Spec
INVARIANT TypeOK
PROPERTY ImplementsAtomicAccounts
CHECK_DEADLOCK FALSE
