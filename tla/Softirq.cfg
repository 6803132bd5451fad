SPECIFICATION Spec
CONSTANTS
    Cpu = {c1, c2}
    Tasklet = {t1}
    HiTasklet = {}
    Task = {u1}
    Null = Null
    MAX_SOFTIRQ_RESTART = 2
    CanDie = {c2}
    MaxOps = 1
INVARIANTS
    ScheduledOnce
    StrictlySerialized
    NothingStranded
PROPERTIES
    ScheduledRuns
