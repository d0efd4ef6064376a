SPECIFICATION FairSpec
CONSTANTS
    Nobody = nobody
    Writers = {drive, stop}
    Driver = drive
    Others = {cli}
    InServer = {drive, stop}
    MaxLines = 1
    Buffer = 1
    MaxConnects = 2
    MaxFaults = 1
INVARIANTS LogContiguous LossBounded SeamExact FollowPrintsAll
PROPERTY LineGetsThrough
CHECK_DEADLOCK FALSE
