SPECIFICATION LiveSpec
CONSTANTS
    MaxRun = 2
    Buffer = 2
    MaxLoads = 2
    MaxBreaks = 1
    MaxVisits = 1
INVARIANTS TypeOK ActiveRunsTold ScreensCurrent
PROPERTIES RunPageSettles CardCatchesUp
CHECK_DEADLOCK FALSE
