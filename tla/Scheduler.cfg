\* One job and the repository's check.
SPECIFICATION FairSpec
CONSTANTS
    NJobs = 1
    Hour = 2
    Day = 4
    Week = 4
    Schedules <- MCSchedules
    CheckSchedules <- MCCheckSchedules
    MaxLate = 1
    MaxEvents = 1
INVARIANTS OncePerSlot NoRetryStorm
PROPERTIES DueIsServed
