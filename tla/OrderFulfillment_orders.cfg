\* A mixed order of single units and a manual order of two share the stock, under updates of parents and lines.
SPECIFICATION Spec
CONSTANTS
    o1 = o1
    o2 = o2
    s1 = s1
    s2 = s2
    Nobody = Nobody
    Orders = {o1, o2}
    Lines <- MCManualRivals
    Quantity <- MCUnevenQuantity
    Secrets = {s1}
    StockTotal = 3
    MaxTries = 1
    MaxInFlight = 1
    ChildTargets = {"canceled"}
    ParentTargets = {"canceled", "completed"}
INVARIANTS
    TypeOK
    StockBalanced
    ParentNotAhead
CHECK_DEADLOCK FALSE
