SPECIFICATION Spec
CONSTANTS
    Repositories = {r1, r2}
    Folders = {f1, f2}
    Files = {x1, x2}
    Containers = {c1, c2}
    NoPath = NoPath
    MaxStored = 1
    MaxSelected = 1
    MaxRuns = 2
    MaxFaults = 1
    MaxCrashes = 1
SYMMETRY Symmetry
INVARIANTS TypeOK SitesBroughtBack QuietWhileRestoring
PROPERTIES TouchesOnlyWhatItSaid RestoredAsTaken
CHECK_DEADLOCK FALSE
