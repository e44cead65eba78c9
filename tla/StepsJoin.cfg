CONSTANTS
    a = a
    b = b
    c = c
    d = d
    w1 = w1
    w2 = w2
    None = None
    Watchdog = Watchdog
    Steps <- JoinSteps
    Deps <- JoinDeps
    Workers <- TwoWorkers
    MaxConcurrent = 3
    RetryPolicy = FALSE
    MaxAttempts = 2
    Faults = {"crash", "exception", "send"}
    MaxFaults = 2
    MaxClaims = 4
SPECIFICATION FairSpec
INVARIANTS
    DependenciesFirst
    CancellationClosed
    SingleDelivery
    NoOrphanLease
    SynthesisAfterSteps
PROPERTIES
    ImplementsDag
    SynthesisReached
CHECK_DEADLOCK FALSE
