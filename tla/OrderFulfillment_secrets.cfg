\* Two automatic orders compete for two secrets while orders are canceled.
SPECIFICATION Spec
CONSTANTS
    o1 = o1
    o2 = o2
    s1 = s1
    s2 = s2
    Nobody = Nobody
    Orders = {o1, o2}
    Lines <- MCTwoAutoLines
    Quantity <- MCUnitQuantity
    Secrets = {s1, s2}
    StockTotal = 0
    MaxTries = 2
    MaxInFlight = 1
    ChildTargets = {"canceled"}
    ParentTargets = {"canceled"}
INVARIANTS
    SecretsMatchFulfillment
    ReservationsAreLive
    DeliveredOnlyWhenPaid
PROPERTIES
    ImplementsDelivery
SYMMETRY MCSymmetry
CHECK_DEADLOCK FALSE
