SPECIFICATION Spec
CONSTANTS
    Runs = {r1}
    MaxFaults = 1
    MaxTogether = 1
    MaxCrashes = 0
INVARIANT NeverHalfDone
CHECK_DEADLOCK FALSE
