SPECIFICATION FairSpec
CONSTANTS
    Clients = {c1, c2}
    Launches = {n1, n2}
    Inodes = {i1, i2}
    NoLaunch = NoLaunch
    NoInode = NoInode
    NoClient = NoClient
    Wanted = {}
    Ops = {"start", "stop", "stop_force", "restart", "restart_force", "kill", "guest_shutdown", "disk", "delete"}
    Faults = {"kill_fails", "slow_exit"}
INVARIANTS
    TypeOK
PROPERTIES
    CommandsEnd
CHECK_DEADLOCK FALSE
