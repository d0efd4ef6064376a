\* One web server that may crash once, without database errors: the refinement of
\* per-repository serialization, and liveness of stopping and of Shutdown.
\* The system may rest: nobody has to start a run, and run ids are bounded.
SPECIFICATION FairSpec
CONSTANTS
    Server = server
    Procs = {server}
    Repos = {q1}
    Runs = {r1, r2}
    NoRepo = NoRepo
    NoRun = NoRun
    MaxSteps = 1
    MaxDbFaults = 0
    MaxCrashes = 1
PROPERTIES
    ImplementsSerial
    StopFreesRepository
    ShutdownDrains
CHECK_DEADLOCK FALSE
