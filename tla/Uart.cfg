SPECIFICATION Safety
CONSTANTS
    Task = {t1, t2}
    Hup = Hup
    Null = Null
    XmitSize = 2
    FifoSize = 1
    WakeupChars = 1
SYMMETRY TaskSymmetry
INVARIANTS
    RxClaim
    UserTold
    OpenWaitsForPort
PROPERTY
    ShutdownWhenUnused
