CONSTANTS
    w1 = w1
    w2 = w2
    c1 = c1
    c2 = c2
    None = None
    Approver = Approver
    Rejecter = Rejecter
    Workers <- TwoWorkers
    Callbacks <- OneCallback
    MaxRounds = 1
    MaxTries = 2
    Faults = {"crash", "exception", "send", "lostReply", "redelivery"}
    MaxFaults = 1
SPECIFICATION FairSpec
PROPERTIES
    Settles
    CompletedIsDelivered
CHECK_DEADLOCK FALSE
