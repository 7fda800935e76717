\* Two links on two channels; the wallet covers a part or all of the order and moves between its allocations; the deadline and an administrator may cancel it.
SPECIFICATION Spec
CONSTANTS
    c1 = c1
    c2 = c2
    NoChannel = NoChannel
    Channels = {c1, c2}
    MaxPayments = 2
    MaxStaleSaves = 0
    Reports = {"failed"}
    Total = 3
    BuyerFunds = 2
    OwnerFunds = 2
    FeeDeficit <- MCFeeDeficit
    Outside <- MCMoves
    LoggedIn = TRUE
    Cancellers = {"expiry", "admin"}
CONSTRAINT MCFocus
INVARIANTS
    TypeOK
    HoldsFollowOrder
    OnlineComplement
    OwnerFundsConserved
    BuyerMoneyConserved
    MoneyHasOneOutcome
PROPERTIES
    SettledOnlyWhenCovered
    ImplementsSettlement
CHECK_DEADLOCK FALSE
