SPECIFICATION FairSpec
CONSTANTS
    ann = ann
    t1 = t1
    t2 = t2
    A = A
    MaxPolls = 2
    Members = {ann}
    Letters = {A}
    Tasks = {t1, t2}
    None = None
    MaxMessages = 5
    MaxFaults = 1
INVARIANTS ResultOnce ResultComplete TimerKept
PROPERTIES PollEnds
CHECK_DEADLOCK FALSE
