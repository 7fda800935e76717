SPECIFICATION LiveSpec
CONSTANTS
    u1 = u1
    u2 = u2
    r1 = r1
    g1 = g1
    a1 = a1
    NoUser = NoUser
    n1 = n1
    n2 = n2
    o1 = o1
    s1 = s1
    Users = {u1, u2}
    Recharges = {r1}
    Cards = {g1}
    Adjustments = {a1}
    Owner <- MCOwner
    Amount <- MCAmount
    Notices = {n1, n2}
    Hooks = {n1, n2, o1}
    OrderHooks = {o1}
    Reported = {"pending", "success", "failed"}
    Unlinked = {}
    MaxLevel = 2
    Active = {1, 2}
    RechargeThreshold <- MCRechargeThreshold
    SpendThreshold <- MCSpendThreshold
    DefaultLevel = 1
    Savers = {s1}
    MaxSpent <- MCMaxSpent
    MaxSaves <- MCMaxSpent
CONSTRAINT MCFocus
INVARIANTS
    TypeOK
    SuccessIsCredited
    CountedAtMostOnce
    LevelCaughtUp
PROPERTIES
    PaidIsCredited
    ImplementsCredits
    UpgradeOnly
CHECK_DEADLOCK FALSE
