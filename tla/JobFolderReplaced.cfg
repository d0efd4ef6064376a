SPECIFICATION Spec
CONSTANTS
    Repositories = {r1}
    Folders = {f1, f2}
    Files = {x1, x2}
    Containers = {c1}
    NoPath = NoPath
    MaxStored = 1
    MaxSelected = 1
    MaxRuns = 1
    MaxFaults = 0
    MaxCrashes = 0
SYMMETRY Symmetry
INVARIANTS JobFolderReplaced
CHECK_DEADLOCK FALSE
