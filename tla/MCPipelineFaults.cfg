\* A rolling deployment from a cold start: two instances of the order and of
\* the payment service overlap and compete for the same queues, with every kind
\* of fault.
SPECIFICATION Spec
CONSTANTS
    o1 = o1
    o2 = o2
    os1 = os1
    os2 = os2
    ps1 = ps1
    ps2 = ps2
    ds1 = ds1
    Order = {o1, o2}
    OrderSvc = {os1, os2}
    PaymentSvc = {ps1, ps2}
    DeliverySvc = {ds1}
    MaxCrashes = 1
    MaxOutages = 1
    MaxDbErrors = 1
    OrdersWaitForRollout = FALSE
SYMMETRY Symmetry
INVARIANTS
    TypeOK
    SingleToken
    TokensAgree
    HistoryFaithful
    LossHasCause
    WorkIsServed
PROPERTY
    ImplementsLifecycle
    LostForGood
    LossIsLocal
\* The orders are finitely many: a run may come to rest.
CHECK_DEADLOCK FALSE
