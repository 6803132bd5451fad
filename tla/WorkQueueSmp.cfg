SPECIFICATION Safety
CONSTANTS
    Cpu = {c1, c2}
    Work = {w1}
    Task = {t1, t2}
    Null = Null
    SelfFlush = FALSE
    MaxDepth = 1
SYMMETRY Symmetry
INVARIANTS
    OneOwner
    BugOns
    CancelIsSync
    FlushIsComplete
