SPECIFICATION MCSpec
CONSTANTS
    Clients = {c1, c2}
    NoClient = NoClient
    Urls = {u1}
    NoUrl = NoUrl
    Contents = {x1, x2}
    NoContent = NoContent
    Vms = {v1, v2}
    NoVm = NoVm
    NoConfig = NoConfig
    Ops = {"get", "refresh", "create", "create_config", "prune", "delete"}
    Faults = {"client_crash", "corrupt", "io_error"}
    DownloadPids = {c1, c2}
    Attempts = 2
    MaxLeft = 1
SYMMETRY Symmetry
INVARIANTS
    TypeOK
    LockedReferencesResolve
    ObjectsInUseAreKept
    PruneLeavesOnlyReferenced
    ConfiguredVmsHaveData
    DownloadsAreKept
CHECK_DEADLOCK FALSE
