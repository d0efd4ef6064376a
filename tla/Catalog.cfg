SPECIFICATION Spec
CONSTANTS
    Folders = {d1}
    Databases = {b1}
    Sources = {s1}
    Repositories = {r1, r2}
    Jobs = {j1, j2}
    Passwords = {w1}
    Settings = {v1}
    Forms = {f1, f2}
    MaxOpened = 2
    MaxFaults = 1
    Nobody = Nobody
    Blank = Blank
    Off = Off
INVARIANTS TypeOK References 
PROPERTIES SettersKeepApart QuickLeavesNothing
SYMMETRY Symmetry
CHECK_DEADLOCK FALSE
