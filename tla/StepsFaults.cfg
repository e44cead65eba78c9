CONSTANTS
    a = a
    b = b
    c = c
    d = d
    w1 = w1
    w2 = w2
    None = None
    Watchdog = Watchdog
    Steps <- ChainSteps
    Deps <- ChainDeps
    Workers <- TwoWorkers
    MaxConcurrent = 1
    RetryPolicy = TRUE
    MaxAttempts = 2
    Faults = {"crash", "exception", "send", "lostReply", "retryable", "leaseExpiry"}
    MaxFaults = 2
    MaxClaims = 2
SYMMETRY WorkerSymmetry
SPECIFICATION Spec
INVARIANTS
    SynthesisSentOnce
    ClaimedAfterDependencies
CHECK_DEADLOCK FALSE
