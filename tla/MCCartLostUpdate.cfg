\* Two additions of the same product that overlap: one of them is lost.
CONSTANTS
    User = {u}
    Product = {p1}
    Request = {r1, r2}
    Ops = {"add"}
    Quantity = {1}
    NoItem = NoItem
    Serial = FALSE
    MaxExpiries = 0
    MaxErrors = 0
    MaxCrashes = 0
SPECIFICATION Spec
INVARIANT AddsAccumulate
CHECK_DEADLOCK FALSE
