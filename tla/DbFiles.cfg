CONSTANTS
    Pid = {p1, p2}
    Build = 2
    Offsite <- OldAndFuture
    KeepLast = 1
    MAX_SEQ_PER_SECOND = 2
    MaxCommits = 1
    MaxSecond = 1
    MaxTrouble = 1
SPECIFICATION DbLiveSpec
INVARIANTS RestoresAlone RefusedByTheLiving LiveIsSound
PROPERTIES NothingIsLost MigrationIsGuarded SnapshotsAreKept RestoreIsWhole AloneGetsIn
