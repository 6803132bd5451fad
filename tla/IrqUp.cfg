SPECIFICATION Spec
CONSTANTS
    Dev = {d1, d2}
    Hw = {h1, h2}
    Tasklet = Tasklet
    Null = Null
    Flows = {"level", "edge"}
    Smp = FALSE
    CanStick = TRUE
    ConcurrentSetup = TRUE
    MaxHold = 2
PROPERTIES
    NothingLost
