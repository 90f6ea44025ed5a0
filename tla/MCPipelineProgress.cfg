\* A crash, an outage (a broken connection or a broker restart) and a database
\* error, in any order; the supervisor restarts what has died.
SPECIFICATION FairSpec
CONSTANTS
    o1 = o1
    o2 = o2
    os1 = os1
    ps1 = ps1
    ds1 = ds1
    Order = {o1, o2}
    OrderSvc = {os1}
    PaymentSvc = {ps1}
    DeliverySvc = {ds1}
    MaxCrashes = 1
    MaxOutages = 1
    MaxDbErrors = 1
    OrdersWaitForRollout = FALSE
PROPERTY
    EveryOrderSettles
CHECK_DEADLOCK FALSE
