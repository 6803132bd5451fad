SPECIFICATION Spec
CONSTANTS
    Source = {36, 48}
    MaxEvents = 1
PROPERTIES
    AllServed
