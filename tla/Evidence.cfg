SPECIFICATION FairSpec
CONSTANTS
    t1 = t1
    t2 = t2
    s1 = s1
    s2 = s2
    s3 = s3
    w1 = w1
    w2 = w2
    page1 = page1
    page2 = page2
    doc = doc
    Tasks = {t1, t2}
    Steps = {s1, s2, s3}
    TaskOf <- MCTaskOf
    ToolOf <- MCToolOf
    Contents = {page1, page2, doc}
    Internal = {doc}
    Workers = {w1, w2}
    None = None
    MaxRuns = 4
    MaxDrafts = 1
\* Every run and every draft the bounds allow may be over.
CHECK_DEADLOCK FALSE
INVARIANTS
    EvidenceKept
    CitesItsTask
PROPERTIES
    RunEnds
