\* A mixed order and an automatic one; a cancellation may race the payment.
SPECIFICATION FairSpec
CONSTANTS
    o1 = o1
    o2 = o2
    s1 = s1
    s2 = s2
    Nobody = Nobody
    Orders = {o1, o2}
    Lines <- MCMixedRival
    Quantity <- MCUnitQuantity
    Secrets = {s1, s2}
    StockTotal = 1
    MaxTries = 1
    MaxInFlight = 1
    ChildTargets = {}
    ParentTargets = {}
PROPERTIES
    PaidLineLeavesPaid
CHECK_DEADLOCK FALSE
