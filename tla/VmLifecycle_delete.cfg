SPECIFICATION Spec
CONSTANTS
    Clients = {c1, c2, c3}
    Launches = {n1, n2}
    Inodes = {i1, i2, i3}
    NoLaunch = NoLaunch
    NoInode = NoInode
    NoClient = NoClient
    Wanted = {}
    Ops = {"start", "delete"}
    Faults = {}
INVARIANTS
    MutualExclusion
CHECK_DEADLOCK FALSE
