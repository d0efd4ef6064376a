\* One web server that crashes twice over runs of several restic children, with a
\* database error.
\* The system may rest: nobody has to start a run, and run ids are bounded.
SPECIFICATION Spec
CONSTANTS
    Server = server
    Procs = {server}
    Repos = {q1}
    Runs = {r1, r2}
    NoRepo = NoRepo
    NoRun = NoRun
    MaxSteps = 2
    MaxDbFaults = 1
    MaxCrashes = 2
SYMMETRY Symmetry
INVARIANTS
    ReapedBeforeServing
    QuiescentMeansFree
PROPERTIES
    TerminalIsFinal
CHECK_DEADLOCK FALSE
