CONSTANTS
    Sweep = {s1, s2}
    Backfill = {b1}
    Player = {p1, p2}
    NoPlayer = NoPlayer
    Lane = {l1}
    WholeList = WholeList
    Scopes <- AllScopes
    MaxTime = 3
    DayLength = 1
    CrowdTime = 2
    REFRESH_LEASE_MS = 2
    hostDate <- MCHostDate
    MaxRuns = 2
    MaxMoves = 2
SPECIFICATION MCSpec
INVARIANTS TypeOK RunningIsNewest FreshIsComplete
PROPERTIES NoStaleOverwrite OutcomeIsFinal
SYMMETRY MCSymmetry
