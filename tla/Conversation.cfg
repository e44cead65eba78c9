SPECIFICATION Spec
CONSTANTS
    w1 = w1
    w2 = w2
    w3 = w3
    None = none
    Workers = {w1, w2, w3}
    Keep = 4
    Window = 2
    Batch = 2
    MaxExchanges = 8
    MaxFaults = 2
SYMMETRY Symmetry
INVARIANTS NothingForgotten WindowKept
CHECK_DEADLOCK FALSE
