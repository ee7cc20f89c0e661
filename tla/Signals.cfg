SPECIFICATION MCSpec
CONSTANTS
    Pids = {p1, p2}
    NoPid = NoPid
    MaxBirths = 3
    PortVms = {v1, v2}
    Ports = {1, 2}
    SshRange = {1, 2}
    SpiceRange = {1, 2}
    PortConfigs <- MCPortConfigs
    Nobody = Nobody
    Foreign = Foreign
    Commands = {k1, k2}
SYMMETRY Symmetry
INVARIANTS
    TypeOK
    SuccessIsReal
    ServingAsRecorded
    VisitsReachTheirVm
    ConfigLoads
PROPERTIES
    SignalsReachTheRecorded
    StaleRecordsAreHarmless
    HelpersAreNotLost
    SettingsStay
CHECK_DEADLOCK FALSE
