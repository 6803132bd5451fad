SPECIFICATION Safety
CONSTANTS
    Dev = {d1, d2, d3}
    Hw = {h1, h2}
    Tasklet = Tasklet
    Null = Null
    Flows = {"level", "edge"}
    Smp = TRUE
    CanStick = FALSE
    ConcurrentSetup = FALSE
    MaxHold = 1
SYMMETRY Symmetry
INVARIANTS
    Serialized
    FreeIsSync
    DisableHolds
    NotLeftMasked
