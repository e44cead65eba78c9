SPECIFICATION PlanSpec
CONSTANTS
    a = a
    b = b
    c = c
    d = d
    e = e
    Keys = {a, b, c, d, e}
    Drafts <- MCDrafts
    MaxSteps = 4
    MaxDepth = 2
INVARIANTS
    AcceptedRuns
    VerdictsHonest
