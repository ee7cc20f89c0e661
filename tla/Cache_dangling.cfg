SPECIFICATION Spec
CONSTANTS
    Clients = {c1, c2}
    NoClient = NoClient
    Urls = {u1, u2}
    NoUrl = NoUrl
    Contents = {x1, x2}
    NoContent = NoContent
    Vms = {v1, v2}
    NoVm = NoVm
    NoConfig = NoConfig
    Ops = {"create_config", "prune"}
    Faults = {}
SYMMETRY Symmetry
INVARIANTS
    ReferencesResolve
CHECK_DEADLOCK FALSE
