SPECIFICATION Spec
CONSTANTS
    Clients = {c1, c2}
    Launches = {n1, n2}
    Inodes = {i1, i2}
    NoLaunch = NoLaunch
    NoInode = NoInode
    NoClient = NoClient
    Wanted = {}
    Ops = {"start", "disk"}
    Faults = {"slow_exit"}
INVARIANTS
    DiskWorkWhileStopped
