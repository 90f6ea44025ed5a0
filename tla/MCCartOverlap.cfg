\* Requests of one user that overlap as they like.
CONSTANTS
    User = {u}
    Product = {p1, p2}
    Request = {r1, r2, r3}
    Ops = {"get", "add", "remove", "clear", "checkout"}
    Quantity <- SignedQuantities
    NoItem = NoItem
    Serial = FALSE
    MaxExpiries = 1
    MaxErrors = 1
    MaxCrashes = 0
SYMMETRY Symmetry
SPECIFICATION Spec
INVARIANTS NothingInvented ImmortalCartHasCause
CHECK_DEADLOCK FALSE
