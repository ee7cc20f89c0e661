SPECIFICATION MCSpec
CONSTANTS
    Pids = {p1, p2}
    NoPid = NoPid
    MaxSize = 2
    MaxWrites = 2
    Ops = {"start", "set", "resize", "compact", "reset", "delete_disk", "backup", "clone"}
    Faults = {"crash", "io_error"}
    Configs <- MCConfigs
    Hosts <- MCHosts
SYMMETRY Symmetry
INVARIANTS
    TypeOK
    DataSurvives
    DiskIsWhole
    CloneIsWhole
    CommandIsWhole
    ListenersAreKnown
    RestartLooksFirst
PROPERTIES
    BlankOnlyWithoutData
    BackupIsComplete
    SettingFollowsDisk
CHECK_DEADLOCK FALSE
