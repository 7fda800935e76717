SPECIFICATION Spec
SYMMETRY MCSymmetry
CONSTANTS
    b1 = b1
    b2 = b2
    c1 = c1
    c2 = c2
    Unset = Unset
    Slots = {b1, b2}
    Calls = {c1, c2}
    Protocols = {"dujiao", "sharedstock"}
    RetryMax = 1
    PollMax = 0
    MaxCallbackTries = 1
    MaxQueued = 1
    MaxReports = 0
    Faults = {"overlap"}
INVARIANTS
    BoughtOnce
CHECK_DEADLOCK FALSE
