\* One connection is lost; nothing else fails.
SPECIFICATION FairSpec
CONSTANTS
    o1 = o1
    os1 = os1
    ps1 = ps1
    ds1 = ds1
    Order = {o1}
    OrderSvc = {os1}
    PaymentSvc = {ps1}
    DeliverySvc = {ds1}
    MaxCrashes = 0
    MaxOutages = 1
    MaxDbErrors = 0
    OrdersWaitForRollout = TRUE
PROPERTY
    OrderEventsAreConsumed
CHECK_DEADLOCK FALSE
