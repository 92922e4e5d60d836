CONSTANTS
    Run = {r1, r2}
    Lane = {l1}
    DefaultLane = l1
    MaxTime = 3
    DayLength = 3
    FirstHour = 0
    LEASE_MS = 2
    WEEK_MS = 4
    hostDate <- MCHostDate
    SleepDates <- SecondDate
    HasLookup = TRUE
    MaxAttempts = 3
    MaxReports = 1
SPECIFICATION Spec
INVARIANTS TypeOK
PROPERTIES LiveLeaseRespected FirstDeliveryIsFinal
SYMMETRY RunSymmetry
