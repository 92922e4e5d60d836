CONSTANTS
    Run = {r1}
    Lane = {l1, l2}
    DefaultLane = l1
    MaxTime = 4
    DayLength = 2
    FirstHour = 1
    digestHour <- AllButDefault
    LEASE_MS = 1
    WEEK_MS = 3
    hostDate <- MCHostDate
    SleepDates <- AfterSecond
    HasLookup = TRUE
    MaxAttempts = 6
    MaxReports = 0
SPECIFICATION LiveSpec
INVARIANTS NoSilentSkip
PROPERTIES OwedIsDelivered DeadLaneSettles HostIsHeard NoMailAfterDelete
