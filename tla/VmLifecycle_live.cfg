SPECIFICATION FairSpec
CONSTANTS
    Clients = {c1, c2}
    Launches = {n1, n2}
    Inodes = {i1, i2}
    NoLaunch = NoLaunch
    NoInode = NoInode
    NoClient = NoClient
    Wanted = {"swtpm"}
    Ops = {"start", "stop", "stop_force", "restart", "restart_force", "kill", "guest_shutdown", "disk"}
    Faults = {}
PROPERTIES
    ForceEndsQemu
