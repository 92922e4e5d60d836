CONSTANTS
    Sweep = {s1}
    Backfill = {}
    Player = {p1}
    NoPlayer = NoPlayer
    Lane = {l1, l2}
    WholeList = WholeList
    Scopes <- LanesOnly
    MaxTime = 3
    DayLength = 2
    REFRESH_LEASE_MS = 1
    hostDate <- MCHostDate
    MaxRuns = 9
    MaxMoves = 0
    MaxTrouble = 2
    refreshInterval <- Staggered
    REFRESH_DUE_TOLERANCE_MS = 1
SPECIFICATION LiveSpec
INVARIANTS WatermarkBeforeLease
PROPERTIES NoRunStaysRunning LaneIsCovered
CHECK_DEADLOCK FALSE
