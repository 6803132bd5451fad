SPECIFICATION Spec
CONSTANTS
    Timer = {t1, t2, t3}
    Deferrable = {t3}
    Null = Null
    TVR_SIZE = 4
    TVN_SIZE = 4
    SetAt <- MCSetAt
    Offsets <- MCOffsets
    MaxLag = 2
INVARIANTS
    SleepsUntilFirstTimer
PROPERTIES
    ImplementsTimerQueue
