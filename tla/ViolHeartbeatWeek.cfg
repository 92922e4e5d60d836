CONSTANTS
    Run = {r1, r2}
    Lane = {l1}
    DefaultLane = l1
    MaxTime = 3
    DayLength = 2
    FirstHour = 1
    LEASE_MS = 2
    WEEK_MS = 3
    hostDate <- MCHostDate
    SleepDates <- AfterFirst
    HasLookup = TRUE
    MaxAttempts = 2
    MaxReports = 0
SPECIFICATION UnscopedSpec
INVARIANT HeartbeatSpacing
SYMMETRY RunSymmetry
