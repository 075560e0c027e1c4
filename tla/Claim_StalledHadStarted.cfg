SPECIFICATION Spec
CONSTANTS
    d1 = d1  d2 = d2
    Device = {d1, d2}
    Core = Core
    Brisk = TRUE
    Offered = {d1, d2}
    MaxVersion = 1
    MaxFaults = 1
    MaxWrites = 2
INVARIANTS StalledHadStarted
