SPECIFICATION FairSpec
CONSTANTS
    m1 = m1
    m2 = m2
    m3 = m3
    q1 = q1
    q2 = q2
    None = None
    Messages <- MCMessages
    Mixes <- MCMixes
    Requests <- MCRequests
    MaxPosts = 3
    MaxFaults = 1
INVARIANTS HandledOnce AckedIsKept OneActiveTask
PROPERTIES IsSettled
CHECK_DEADLOCK FALSE
