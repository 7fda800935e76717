\* Fairness of the clock, the timeout task and the gateway's repeated notices, with a callback of the first link that saves a stale row; an administrator may cancel the lines.
SPECIFICATION FairSpec
CONSTANTS
    c1 = c1
    c2 = c2
    NoChannel = NoChannel
    Channels = {c1}
    MaxPayments = 2
    MaxStaleSaves = 1
    Reports = {"pending", "expired"}
    Total = 1
    BuyerFunds = 1
    OwnerFunds = 1
    FeeDeficit <- MCFeeDeficit
    Outside = {0}
    LoggedIn = TRUE
    Cancellers = {"expiry", "child"}
CONSTRAINT MCSavesFirst
PROPERTIES
    OrderLeavesPending
    GatewayMoneyRecorded
CHECK_DEADLOCK FALSE
