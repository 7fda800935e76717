\* A callback that repeats the status it has read saves its row over a success.
SPECIFICATION Spec
CONSTANTS
    c1 = c1
    c2 = c2
    NoChannel = NoChannel
    Channels = {c1}
    MaxPayments = 2
    MaxStaleSaves = 1
    Reports = {"pending"}
    Total = 2
    BuyerFunds = 1
    OwnerFunds = 2
    FeeDeficit <- MCFeeDeficit
    Outside = {0}
    LoggedIn = TRUE
    Cancellers = {}
INVARIANTS
    SuccessStands
CHECK_DEADLOCK FALSE
