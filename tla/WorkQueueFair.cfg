SPECIFICATION Spec
CONSTANTS
    Cpu = {c1}
    Work = {w1}
    Task = {t1, t2}
    Null = Null
    SelfFlush = TRUE
    MaxDepth = 2
PROPERTIES
    QueuedWorkRuns
    FlushTerminates
    CancelTerminates
