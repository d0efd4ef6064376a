SPECIFICATION Spec
CONSTANTS
    Runs = {r1, r2}
    MaxFaults = 2
    MaxTogether = 1
    MaxCrashes = 1
INVARIANTS NothingLost WholeCopy Truthful TrailOnRecord
SYMMETRY MCSymmetry
CHECK_DEADLOCK FALSE
