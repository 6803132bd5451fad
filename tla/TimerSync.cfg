SPECIFICATION Spec
CONSTANTS
    Cpu = {c1, c2}
    Timer = {t1}
    Task = {u1, u2}
    Null = Null
    CanDie = {c2}
    MaxOps = 3
    MaxRearm = 2
CHECK_DEADLOCK FALSE
INVARIANTS
    BaseOwnsTimer
    SerializedWithItself
    DeletedIsQuiet
PROPERTIES
    TimerProgress
