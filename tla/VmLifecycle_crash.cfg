SPECIFICATION Spec
CONSTANTS
    Clients = {c1, c2}
    Launches = {n1, n2, n3, n4}
    Inodes = {i1, i2}
    NoLaunch = NoLaunch
    NoInode = NoInode
    NoClient = NoClient
    Wanted = {"swtpm", "virtiofsd"}
    Ops = {"start", "stop", "stop_force", "restart", "restart_force", "kill", "guest_shutdown", "disk"}
    Faults = {"client_crash"}
SYMMETRY Symmetry
INVARIANTS
    MutualExclusion
    RunningIsRecorded
    AtMostOneQemu
    DiskWorkWhileStopped
    HelpersAreRecorded
PROPERTIES
    StopLeavesNothing
    ImplementsAbstractVm
