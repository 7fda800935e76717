SPECIFICATION LiveSpec
CONSTANTS
    b1 = b1
    b2 = b2
    c1 = c1
    c2 = c2
    Unset = Unset
    Slots = {b1, b2}
    Calls = {c1}
    Protocols = {"dujiao", "sharedstock"}
    RetryMax = 1
    PollMax = 1
    MaxCallbackTries = 2
    MaxQueued = 1
    MaxReports = 1
    Faults = {"ref", "record"}
INVARIANTS
    FulfilledWasDelivered
PROPERTIES
    AcceptedIsResolved
CHECK_DEADLOCK FALSE
