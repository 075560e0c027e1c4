SPECIFICATION Spec
CONSTANTS
    d1 = d1  d2 = d2
    Device = {d1}
    Core = Core
    Brisk = FALSE
    Offered = {d1, Core}
    MaxVersion = 2
    MaxFaults = 1
    MaxWrites = 2
INVARIANTS DiskAgrees
PROPERTIES CoreHasItsTurn
