SPECIFICATION Spec
CONSTANTS
    Browsers = {b1, b2}
    Tabs = {t1, t2}
    Words = {w1, w2}
    MaxFailures = 2
    MaxSessions = 2
    MaxFaults = 1
    MaxPages = 1
SYMMETRY Symmetry
INVARIANTS TypeOK SessionsFollowPassword
PROPERTIES SetupOnlyFirst
CHECK_DEADLOCK FALSE
