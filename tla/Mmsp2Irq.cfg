SPECIFICATION Spec
CONSTANTS
    Source = {14, 32, 40, 41}
    MaxEvents = 2
INVARIANTS
    EnabledUnlessInProgress
PROPERTIES
    AllServed
