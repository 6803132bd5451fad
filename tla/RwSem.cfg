SPECIFICATION Spec
CONSTANTS
    Task = {t1, t2, t3}
    Irq = Irq
    None = None
INVARIANTS
    Exclusion
    ActivityExact
    QueueJustified
    NoLostWakeup
    TaskStructAlive
PROPERTIES
    WaiterServed
    ImplementsFairRwLock
