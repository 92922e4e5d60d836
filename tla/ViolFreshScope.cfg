CONSTANTS
    Sweep = {s1}
    Backfill = {}
    Player = {p1, p2}
    NoPlayer = NoPlayer
    Lane = {l1}
    WholeList = WholeList
    Scopes <- LanesOnly
    MaxTime = 3
    DayLength = 2
    CrowdTime = 3
    REFRESH_LEASE_MS = 2
    hostDate <- MCHostDate
    MaxRuns = 1
    MaxMoves = 2
SPECIFICATION CrowdSpec
INVARIANTS FreshScopeIsComplete
SYMMETRY MCSymmetry
