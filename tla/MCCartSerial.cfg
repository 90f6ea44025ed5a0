\* A user who waits for answers, with every kind of failure: the cart is atomic
\* up to the first of them, and after it a checkout may repeat an order but loses
\* nothing.
CONSTANTS
    User = {u}
    Product = {p1, p2}
    Request = {r1, r2, r3}
    Ops = {"get", "add", "remove", "clear", "checkout"}
    Quantity <- SignedQuantities
    NoItem = NoItem
    Serial = TRUE
    MaxExpiries = 1
    MaxErrors = 1
    MaxCrashes = 1
SPECIFICATION FairSpec
INVARIANTS TypeOK RepeatHasCause
PROPERTIES ImplementsAtomicCart ClearsOnlyWhatWasOrdered EveryRequestEnds
CHECK_DEADLOCK FALSE
