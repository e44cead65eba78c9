CONSTANTS
    w1 = w1
    w2 = w2
    c1 = c1
    c2 = c2
    None = None
    Approver = Approver
    Rejecter = Rejecter
    Workers <- TwoWorkers
    Callbacks <- TwoCallbacks
    MaxRounds = 1
    MaxTries = 2
    Faults = {"crash", "exception", "send", "lostReply", "redelivery"}
    MaxFaults = 2
SYMMETRY Interchangeable
SPECIFICATION Spec
INVARIANTS
    NothingBeforeApproval
    AlwaysOwned
    StageSentOnce
    DeliveryHonest
CHECK_DEADLOCK FALSE
