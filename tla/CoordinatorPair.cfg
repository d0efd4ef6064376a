\* The web server beside one restic-webctl process; runs of several steps and
\* jobs moved between two repositories.
\* The system may rest: nobody has to start a run, and run ids are bounded.
SPECIFICATION Spec
CONSTANTS
    Server = server
    Procs = {server, cli}
    Repos = {q1, q2}
    Runs = {r1, r2}
    NoRepo = NoRepo
    NoRun = NoRun
    MaxSteps = 1
    MaxDbFaults = 1
    MaxCrashes = 0
SYMMETRY Symmetry
INVARIANTS
    TypeOK
    ClaimHoldsSlot
    FollowUpVisible
PROPERTIES
    NothingStartsAfterShutdown
CHECK_DEADLOCK FALSE
